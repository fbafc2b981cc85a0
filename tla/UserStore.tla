----------------------------- MODULE UserStore -----------------------------
(***************************************************************************)
(* The account server (vcam-server/server.js) and its command line tool    *)
(* (vcam-server/cli.js) over the file of accounts that both reach through  *)
(* vcam-server/users.js.  Each is a process that serves one request at a   *)
(* time; a request makes one or two calls of the store.  A call reads the  *)
(* file and, to change it, truncates it and writes it whole again; the     *)
(* processes take no lock, and may die between any two of these steps.  A  *)
(* file that cannot be parsed is read as no accounts at all.               *)
(***************************************************************************)
EXTENDS Users

CONSTANTS
  Procs,        \* the processes
  Requests,     \* Requests[p]: what process p may be asked
  First,        \* the accounts at first
  MaxRequests,  \* bound on the requests made
  MaxTime,      \* bound on the clock
  Crash,        \* BOOLEAN: processes may die
  Broken        \* file content that does not parse

VARIABLES
  file,      \* the content of data/users.json
  now,       \* the clock
  pc,        \* pc[p]: "idle", "read", "truncate", "write" or "called"
  req,       \* req[p]: the request process p serves
  op,        \* op[p]: the call of the store it is in, until the file shows it
  held,      \* held[p]: the database it has in memory
  ret,       \* ret[p]: what its last call returned
  made,      \* history: the number of requests made
  clean,     \* history: FALSE once a read or a write went wrong
  answer,    \* history: answer[p], the last request p answered
  added, deleted,  \* history: names an add was answered, a delete asked for
  blocked,   \* history: names that the last change of their flag disabled
  late       \* history: processes whose request found its name blocked, ever since

flags == <<blocked, late>>
history == <<made, answer, added, deleted, flags>>
vars == <<file, now, pc, req, op, held, ret, clean, history>>

NoAccounts == [n \in {} |-> None]

Kinds == {"login", "one", "list", "add", "update", "delete", "patch"}

Fields == {"passwordMD5", "expiresAt", "disabled", "devices"}

ASSUME RequestAssumption ==
  \A p \in Procs : \A r \in Requests[p] :
    /\ {"kind", "name"} \subseteq DOMAIN r
    /\ "second" \notin DOMAIN r
    /\ r.kind \in Kinds
    /\ r.kind \in {"add", "update", "patch"} <=> "fields" \in DOMAIN r
    /\ "fields" \in DOMAIN r => DOMAIN r.fields \subseteq Fields
    /\ "fields" \in DOMAIN r /\ "disabled" \in DOMAIN r.fields => r.fields.disabled \in BOOLEAN
    /\ r.kind = "add" => DOMAIN r.fields = Fields

ASSUME BoundAssumption == MaxTime \in Nat /\ MaxTime >= 1 /\ MaxRequests \in Nat

\* null is not a request under way.
ASSUME NoneAssumption ==
  \A p \in Procs : \A r \in Requests[p] : \A second \in BOOLEAN :
    Assign(r, [second |-> second]) # None

ASSUME FirstAssumption ==
  \A n \in DOMAIN First : {"createdAt", "disabled"} \subseteq DOMAIN First[n]

-----------------------------------------------------------------------------
(***************************************************************************)
(* The requests: login, one, list, add, update and delete at the server;   *)
(* list, add, delete and patch (disable, enable, passwd) at the tool.      *)
(***************************************************************************)
Call(kind, n, fields) == [kind |-> kind, name |-> n, fields |-> fields]

\* The first call of the store that request r makes.
FirstCall(r) ==
  CASE r.kind \in {"login", "one", "update"} -> Call("get", r.name, <<>>)
    [] r.kind = "list"   -> Call("all", r.name, <<>>)
    [] r.kind = "add"    -> Call("upsert", r.name, r.fields)
    [] r.kind = "patch"  -> Call("patch", r.name, r.fields)
    [] r.kind = "delete" -> Call("remove", r.name, <<>>)

ASSUME CallAssumption == \A p \in Procs : \A r \in Requests[p] : FirstCall(r) # None

\* POST /user/login lets account a in.
Admits(r, a) ==
  /\ a # None
  /\ ~a.disabled
  /\ ~(a.expiresAt # 0 /\ now > a.expiresAt)
  /\ r.password = a.passwordMD5
  /\ a.devices # {} => r.device \in a.devices

touchLogin(n) == Call("patch", n, [lastLoginAt |-> now])

\* Mutant: a login writes back the whole account it has looked at.
SecondCallStale(r, a) ==
  CASE r.kind = "login" /\ Admits(r, a)  -> Call("patch", r.name, a)
    [] r.kind = "update" /\ a # None     -> Call("patch", r.name, r.fields)
    [] OTHER -> None

\* The second call of request r after its first returned a, or None.
SecondCall(r, a) ==
  CASE r.kind = "login" /\ Admits(r, a)  -> touchLogin(r.name)
    [] r.kind = "update" /\ a # None     -> Call("patch", r.name, r.fields)
    [] OTHER -> None

\* The answer to request r, whose last call returned x, is a success.  The
\* server does not look at what its second call returned.
Succeeds(r, x) ==
  CASE r.second -> TRUE
    [] r.kind \in {"login", "update"} -> FALSE
    [] OTHER -> x # None

\* Request r changes the flag of its account to this one.  An add does, too: it
\* replaces the account, whose flag is FALSE unless the caller of POST
\* /admin/users says otherwise.
Sets(r, flag) ==
  /\ "fields" \in DOMAIN r
  /\ "disabled" \in DOMAIN r.fields
  /\ r.fields.disabled = flag

-----------------------------------------------------------------------------
(***************************************************************************)
(* The steps of process p.                                                 *)
(***************************************************************************)
Request(p) ==
  /\ pc[p] = "idle" /\ made < MaxRequests
  /\ \E r \in Requests[p] :
       /\ req' = [req EXCEPT ![p] = Assign(r, [second |-> FALSE])]
       /\ op' = [op EXCEPT ![p] = FirstCall(r)]
       /\ deleted' = IF r.kind = "delete" THEN deleted \cup {r.name} ELSE deleted
       /\ late' = IF r.name \in blocked THEN late \cup {p} ELSE late \ {p}
  /\ pc' = [pc EXCEPT ![p] = "read"]
  /\ made' = made + 1
  /\ UNCHANGED <<file, now, held, ret, clean, answer, added, blocked>>

_read == IF file = Broken THEN NoAccounts ELSE file

\* Mutant: a process that has read the file once works from its memory.
ReadCached(p) ==
  LET db == IF held[p] # NoAccounts THEN held[p] ELSE _read
  IN  /\ pc[p] = "read"
      /\ held' = [held EXCEPT ![p] = db]
      /\ clean' = (clean /\ file # Broken)
      /\ IF Writes(op[p], db)
         THEN /\ pc' = [pc EXCEPT ![p] = "truncate"]
              /\ UNCHANGED <<op, ret>>
         ELSE /\ pc' = [pc EXCEPT ![p] = "called"]
              /\ op' = [op EXCEPT ![p] = None]
              /\ ret' = [ret EXCEPT ![p] = Result(op[p], db, now)]
      /\ UNCHANGED <<file, now, req, history>>

\* A call that changes nothing returns at once.
Read(p) ==
  /\ pc[p] = "read"
  /\ held' = [held EXCEPT ![p] = _read]
  /\ clean' = (clean /\ file # Broken)
  /\ IF Writes(op[p], _read)
     THEN /\ pc' = [pc EXCEPT ![p] = "truncate"]
          /\ UNCHANGED <<op, ret>>
     ELSE /\ pc' = [pc EXCEPT ![p] = "called"]
          /\ op' = [op EXCEPT ![p] = None]
          /\ ret' = [ret EXCEPT ![p] = Result(op[p], _read, now)]
  /\ UNCHANGED <<file, now, req, history>>

\* writeFileSync opens the file, which empties it.
Truncate(p) ==
  /\ pc[p] = "truncate"
  /\ file' = Broken
  /\ clean' = (clean /\ file = held[p])
  /\ held' = [held EXCEPT ![p] = Effect(op[p], held[p], now)]
  /\ ret' = [ret EXCEPT ![p] = Result(op[p], held[p], now)]
  /\ op' = [op EXCEPT ![p] = None]
  /\ pc' = [pc EXCEPT ![p] = "write"]
  /\ blocked' = IF Sets(req[p], TRUE) THEN blocked \cup {req[p].name}
                ELSE IF Sets(req[p], FALSE) THEN blocked \ {req[p].name} ELSE blocked
  /\ late' = {q \in late : pc[q] # "idle" => req[q].name \in blocked'}
  /\ UNCHANGED <<now, req, made, answer, added, deleted>>

\* The text goes over what another process may have written since: what is
\* longer there is left behind it.
Write(p) ==
  /\ pc[p] = "write"
  /\ file' \in IF file = Broken THEN {held[p]} ELSE {held[p], Broken}
  /\ pc' = [pc EXCEPT ![p] = "called"]
  /\ UNCHANGED <<now, req, op, held, ret, clean, history>>

\* Mutant: the second call is begun without its arguments.
SecondEmpty(p) ==
  /\ pc[p] = "called"
  /\ SecondCall(req[p], ret[p]) # None
  /\ op' = [op EXCEPT ![p] = None]
  /\ pc' = [pc EXCEPT ![p] = "read"]
  /\ UNCHANGED <<file, now, req, held, ret, clean, history>>

\* The handler goes on after a call: it makes another one, or answers.
Second(p) ==
  /\ pc[p] = "called" /\ ~req[p].second
  /\ SecondCall(req[p], ret[p]) # None
  /\ op' = [op EXCEPT ![p] = SecondCall(req[p], ret[p])]
  /\ req' = [req EXCEPT ![p] = Assign(@, [second |-> TRUE])]
  /\ pc' = [pc EXCEPT ![p] = "read"]
  /\ UNCHANGED <<file, now, held, ret, clean, history>>

Answer(p) ==
  LET r == req[p]
      ok == Succeeds(r, ret[p])
  IN  /\ pc[p] = "called"
      /\ r.second \/ SecondCall(r, ret[p]) = None
      /\ answer' = [answer EXCEPT ![p] = [kind |-> r.kind, name |-> r.name, late |-> p \in late, ok |-> ok]]
      /\ added' = IF r.kind = "add" THEN added \cup {r.name} ELSE added
      /\ pc' = [pc EXCEPT ![p] = "idle"]
      /\ req' = [req EXCEPT ![p] = None]
      /\ UNCHANGED <<file, now, op, held, ret, made, clean, deleted, flags>>

\* The process dies, and is started again by hand.
Die(p) ==
  /\ Crash /\ pc[p] # "idle"
  /\ pc' = [pc EXCEPT ![p] = "idle"]
  /\ req' = [req EXCEPT ![p] = None]
  /\ op' = [op EXCEPT ![p] = None]
  /\ clean' = (clean /\ pc[p] # "write")
  /\ UNCHANGED <<file, now, held, ret, history>>

Tick ==
  /\ now < MaxTime
  /\ now' = now + 1
  /\ UNCHANGED <<file, pc, req, op, held, ret, clean, history>>

-----------------------------------------------------------------------------
Init ==
  /\ file = First
  /\ now = 1
  /\ pc = [p \in Procs |-> "idle"]
  /\ req = [p \in Procs |-> None]
  /\ op = [p \in Procs |-> None]
  /\ held = [p \in Procs |-> NoAccounts]
  /\ ret = [p \in Procs |-> None]
  /\ made = 0
  /\ clean = TRUE
  /\ answer = [p \in Procs |-> None]
  /\ added = DOMAIN First
  /\ deleted = {} /\ late = {}
  /\ blocked = {n \in DOMAIN First : First[n].disabled = TRUE}

Next == \/ Tick
        \/ \E p \in Procs : \/ Request(p) \/ Read(p) \/ Truncate(p) \/ Write(p)
                            \/ Second(p) \/ Answer(p) \/ Die(p)

Spec == Init /\ [][Next]_vars

-----------------------------------------------------------------------------
(***************************************************************************)
(* Correctness.                                                            *)
(***************************************************************************)
TypeOK ==
  /\ now \in 1..MaxTime
  /\ made \in 0..MaxRequests
  /\ clean \in BOOLEAN
  /\ \A p \in Procs :
       /\ pc[p] \in {"idle", "read", "truncate", "write", "called"}
       /\ (req[p] = None) <=> (pc[p] = "idle")
       /\ (op[p] # None) <=> (pc[p] \in {"read", "truncate"})

\* The accounts as the callers see them: while the file is being written, what
\* its writer holds.
Writing(p) == pc[p] = "write"
Db == IF \E p \in Procs : Writing(p) THEN held[CHOOSE p \in Procs : Writing(p)] ELSE file

\* However the processes interleave and die, the store acts as one map whose
\* calls each take effect at once, until a process writes what it computed
\* from a file that has changed since, reads a file that is being written, or
\* dies while it writes.
Store == INSTANCE Accounts WITH db <- Db, Times <- 1..MaxTime

ActsAtOnce == /\ Store!Init
              /\ [][~clean' \/ Store!Next]_<<Db, op, ret>>

\* An account that add reported stays until someone asks for its deletion,
\* as long as the store acts as one.
Kept == clean => added \ deleted \subseteq DOMAIN Db

\* A login is refused if its account was disabled all the time from its start to
\* its answer, as long as the store acts as one.  Disabled is an account from the
\* moment a disabling is in the file until an enabling, an update or a further add
\* that clears the flag is: no login under way brings the flag back to what it was,
\* and neither does an enabling that came before.
Blocks ==
  clean => \A p \in Procs :
             LET a == answer[p]
             IN  a # None => ~(a.kind = "login" /\ a.late /\ a.ok)

\* An account keeps its time of creation for as long as it exists, through
\* logins, updates and being added again.
CreatedOnce ==
  [][clean' => \A n \in DOMAIN Db \cap DOMAIN Db' : Db'[n].createdAt = Db[n].createdAt]_Db

\* Users are stored in data/users.json: once the processes rest, it holds every
\* account that an add reported and nobody asked to delete.
Stored ==
  (\A p \in Procs : pc[p] = "idle") => added \ deleted \subseteq DOMAIN _read
=============================================================================
