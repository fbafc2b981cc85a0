------------------------------ MODULE Accounts ------------------------------
(***************************************************************************)
(* What the callers of vcam-server/users.js take the store for: one map of *)
(* accounts on which every call acts at once, at some moment between its   *)
(* start and its end.  A caller that dies gives its call up.               *)
(***************************************************************************)
EXTENDS Users

CONSTANTS
  Procs,   \* the processes that use the store
  Times,   \* what the clock may show
  First    \* the accounts at first

VARIABLES
  db,      \* the accounts
  op,      \* op[p]: the call process p is in, or None
  ret      \* ret[p]: what its last call returned

vars == <<db, op, ret>>

Init ==
  /\ db = First
  /\ op = [p \in Procs |-> None]
  /\ ret = [p \in Procs |-> None]

\* Any call may be made: the callers are not described here.
Start(p) ==
  /\ op[p] = None
  /\ op' = [op EXCEPT ![p] = op'[p]]
  /\ UNCHANGED <<db, ret>>

Perform(p, now) ==
  /\ op[p] # None
  /\ op' = [op EXCEPT ![p] = None]
  /\ db' = Effect(op[p], db, now)
  /\ ret' = [ret EXCEPT ![p] = Result(op[p], db, now)]

Die(p) ==
  /\ op' = [op EXCEPT ![p] = None]
  /\ UNCHANGED <<db, ret>>

Next == \E p \in Procs : Start(p) \/ Die(p) \/ \E now \in Times : Perform(p, now)

Spec == Init /\ [][Next]_vars
=============================================================================
