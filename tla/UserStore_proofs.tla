-------------------------- MODULE UserStore_proofs --------------------------
(***************************************************************************)
(* What UserStore guarantees for every set of processes, requests and      *)
(* accounts and every interleaving and death: until a read or a write goes *)
(* wrong (clean), the store implements Accounts (ActsAtOnce), keeps the    *)
(* accounts it reported added (Kept) with their time of creation           *)
(* (CreatedOnce), and refuses logins to disabled ones (Blocks).            *)
(***************************************************************************)
EXTENDS UserStore, TLAPS

\* While clean, the file is unreadable only under its one writer, and no
\* process is about to write what it made of an unreadable file.
OneWriter ==
  clean => /\ \A p \in Procs : Writing(p) => file = Broken
           /\ \A p, q \in Procs : Writing(p) /\ Writing(q) => p = q
           /\ \A p \in Procs : pc[p] = "truncate" => held[p] # Broken

\* A process is in a call until its truncation, or the read that ends it.
InCall ==
  \A p \in Procs : op[p] # None <=> pc[p] \in {"read", "truncate"}

Shape ==
  /\ pc = [p \in Procs |-> pc[p]] /\ req = [p \in Procs |-> req[p]]
  /\ op = [p \in Procs |-> op[p]] /\ held = [p \in Procs |-> held[p]]
  /\ ret = [p \in Procs |-> ret[p]] /\ answer = [p \in Procs |-> answer[p]]
  /\ clean \in BOOLEAN
  /\ now \in Nat /\ now >= 1 /\ now <= MaxTime

IInv == Shape /\ OneWriter /\ InCall

LEMMA InitInv == Init => IInv
BY BoundAssumption, SMT DEF Init, IInv, Shape, OneWriter, InCall, Writing

LEMMA ShapeKept ==
  ASSUME Shape, [Next]_vars
  PROVE  Shape'
<1>1. CASE UNCHANGED vars
  BY <1>1 DEF Shape, vars, history
<1>2. CASE Tick
  BY <1>2, BoundAssumption DEF Tick, Shape, history
<1>3. ASSUME NEW p \in Procs, Request(p) PROVE Shape'
  BY <1>3 DEF Request, Shape
<1>4. ASSUME NEW p \in Procs, Read(p) PROVE Shape'
  BY <1>4 DEF Read, Shape, history
<1>5. ASSUME NEW p \in Procs, Truncate(p) \/ Write(p) \/ Second(p) PROVE Shape'
  BY <1>5 DEF Truncate, Write, Second, Shape, history
<1>6. ASSUME NEW p \in Procs, Answer(p) \/ Die(p) PROVE Shape'
  BY <1>6 DEF Answer, Die, Shape, history
<1>. QED  BY <1>1, <1>2, <1>3, <1>4, <1>5, <1>6 DEF Next

LEMMA InCallKept ==
  ASSUME Shape, InCall, [Next]_vars
  PROVE  InCall'
<1>1. CASE UNCHANGED vars \/ Tick
  BY <1>1 DEF InCall, vars, Tick
<1>2. ASSUME NEW p \in Procs, Request(p) PROVE InCall'
  <2>1. PICK r \in Requests[p] : op' = [op EXCEPT ![p] = FirstCall(r)]
    BY <1>2 DEF Request
  <2>2. op'[p] # None /\ \A q \in Procs : q # p => op'[q] = op[q] /\ pc'[q] = pc[q]
    BY <1>2, <2>1, CallAssumption DEF Request, Shape
  <2>3. pc'[p] = "read"
    BY <1>2 DEF Request, Shape
  <2>. QED  BY <2>2, <2>3 DEF InCall
<1>3. ASSUME NEW p \in Procs, Read(p) PROVE InCall'
  BY <1>3 DEF Read, InCall, Shape
<1>4. ASSUME NEW p \in Procs, Truncate(p) PROVE InCall'
  BY <1>4 DEF Truncate, InCall, Shape
<1>5. ASSUME NEW p \in Procs, Write(p) PROVE InCall'
  BY <1>5 DEF Write, InCall, Shape
<1>6. ASSUME NEW p \in Procs, Second(p) PROVE InCall'
  BY <1>6 DEF Second, InCall, Shape
<1>7. ASSUME NEW p \in Procs, Answer(p) \/ Die(p) PROVE InCall'
  BY <1>7 DEF Answer, Die, InCall, Shape
<1>. QED  BY <1>1, <1>2, <1>3, <1>4, <1>5, <1>6, <1>7 DEF Next

LEMMA OneWriterKept ==
  ASSUME Shape, OneWriter, [Next]_vars
  PROVE  OneWriter'
<1>1. CASE UNCHANGED vars \/ Tick
  BY <1>1 DEF OneWriter, Writing, vars, Tick
<1>2. ASSUME NEW p \in Procs, Request(p) PROVE OneWriter'
  BY <1>2 DEF Request, OneWriter, Writing, Shape
<1>3. ASSUME NEW p \in Procs, Read(p) PROVE OneWriter'
  BY <1>3 DEF Read, OneWriter, Writing, Shape, _read
<1>4. ASSUME NEW p \in Procs, Truncate(p) PROVE OneWriter'
  BY <1>4 DEF Truncate, OneWriter, Writing, Shape
<1>5. ASSUME NEW p \in Procs, Write(p) PROVE OneWriter'
  BY <1>5 DEF Write, OneWriter, Writing, Shape
<1>6. ASSUME NEW p \in Procs, Second(p) PROVE OneWriter'
  BY <1>6 DEF Second, OneWriter, Writing, Shape
<1>7. ASSUME NEW p \in Procs, Answer(p) PROVE OneWriter'
  BY <1>7 DEF Answer, OneWriter, Writing, Shape
<1>8. ASSUME NEW p \in Procs, Die(p) PROVE OneWriter'
  BY <1>8 DEF Die, OneWriter, Writing, Shape
<1>. QED  BY <1>1, <1>2, <1>3, <1>4, <1>5, <1>6, <1>7, <1>8 DEF Next

LEMMA Invariance == Spec => []IInv
<1>1. IInv /\ [Next]_vars => IInv'
  BY ShapeKept, InCallKept, OneWriterKept DEF IInv
<1>. QED  BY <1>1, InitInv, PTL DEF Spec

-----------------------------------------------------------------------------
(* Where the processes are.                                                *)

\* What a process serves is a request, with what the handler has noted of it.
Serving(p) ==
  pc[p] # "idle" => \E r \in Requests[p], second \in BOOLEAN :
                      req[p] = Assign(r, [second |-> second])

Places ==
  /\ made \in 0..MaxRequests
  /\ \A p \in Procs :
       /\ pc[p] \in {"idle", "read", "truncate", "write", "called"}
       /\ pc[p] = "idle" => req[p] = None
       /\ Serving(p)

\* Noting that the second call is made leaves a request what it is.
LEMMA NotedAgain ==
  ASSUME NEW r, NEW second \in BOOLEAN
  PROVE  Assign(Assign(r, [second |-> second]), [second |-> TRUE]) = Assign(r, [second |-> TRUE])
<1> DEFINE noted == [second |-> second]
           again == [second |-> TRUE]
           f == Assign(r, noted)
           D == DOMAIN r \cup {"second"}
<1>1. DOMAIN noted = {"second"} /\ DOMAIN again = {"second"}
  OBVIOUS
<1> HIDE DEF noted, again
<1>2. f = [x \in D |-> IF x \in {"second"} THEN noted[x] ELSE r[x]]
  BY <1>1 DEF Assign
<1>3. Assign(r, again) = [x \in D |-> IF x \in {"second"} THEN again[x] ELSE r[x]]
  BY <1>1 DEF Assign
<1>4. DOMAIN f = D /\ D \cup {"second"} = D
  BY <1>2
<1> HIDE DEF f, D
<1>5. Assign(f, again) = [x \in D |-> IF x \in {"second"} THEN again[x] ELSE f[x]]
  BY <1>1, <1>4, Zenon DEF Assign
<1>6. ASSUME NEW x \in D
      PROVE  (IF x \in {"second"} THEN again[x] ELSE f[x]) = (IF x \in {"second"} THEN again[x] ELSE r[x])
  BY <1>2
<1>7. Assign(f, again) = Assign(r, again)
  BY <1>3, <1>5, <1>6
<1>. QED  BY <1>7 DEF f, noted, again

\* A step of process p leaves the others where they are.
LEMMA PlacesKept ==
  ASSUME Shape, Places, [Next]_vars
  PROVE  Places'
<1>1. CASE UNCHANGED vars \/ Tick
  BY <1>1 DEF Places, Serving, vars, history, Tick
<1>2. ASSUME NEW p \in Procs, Request(p) PROVE Places'
  <2>1. made' \in 0..MaxRequests
    BY <1>2, BoundAssumption DEF Request, Places
  <2>2. PICK r \in Requests[p] :
          req' = [req EXCEPT ![p] = Assign(r, [second |-> FALSE])]
    BY <1>2 DEF Request
  <2>3. Serving(p)'
    <3>1. req'[p] = Assign(r, [second |-> FALSE])
      BY <2>2 DEF Shape
    <3> QED  BY <2>2, <3>1 DEF Serving
  <2>4. \A q \in Procs \ {p} : pc'[q] = pc[q] /\ req'[q] = req[q]
    BY <1>2, <2>2 DEF Request, Shape
  <2>5. pc'[p] = "read"
    BY <1>2 DEF Request, Shape
  <2>. QED  BY <2>1, <2>3, <2>4, <2>5 DEF Places, Serving
<1>3. ASSUME NEW p \in Procs, Read(p) \/ Truncate(p) \/ Write(p) PROVE Places'
  <2>1. UNCHANGED <<req, made>> /\ pc'[p] \in {"truncate", "write", "called"} /\ pc[p] # "idle"
    BY <1>3 DEF Read, Truncate, Write, Shape, history
  <2>2. \A q \in Procs \ {p} : pc'[q] = pc[q]
    BY <1>3 DEF Read, Truncate, Write, Shape
  <2>. QED  BY <2>1, <2>2 DEF Places, Serving
<1>4. ASSUME NEW p \in Procs, Second(p) PROVE Places'
  <2>1. PICK r \in Requests[p], second \in BOOLEAN :
          req[p] = Assign(r, [second |-> second])
    BY <1>4 DEF Second, Places, Serving
  <2>2. req'[p] = Assign(r, [second |-> TRUE])
    BY <1>4, <2>1, NotedAgain DEF Second, Shape
  <2>3. Serving(p)'
    BY <2>2 DEF Serving
  <2>4. \A q \in Procs \ {p} : pc'[q] = pc[q] /\ req'[q] = req[q]
    BY <1>4 DEF Second, Shape
  <2>5. pc'[p] = "read" /\ made' = made
    BY <1>4 DEF Second, Shape, history
  <2>. QED  BY <2>3, <2>4, <2>5 DEF Places, Serving
<1>5. ASSUME NEW p \in Procs, Answer(p) \/ Die(p) PROVE Places'
  <2>1. made' = made /\ pc'[p] = "idle" /\ req'[p] = None
    BY <1>5 DEF Answer, Die, Shape, history
  <2>2. \A q \in Procs \ {p} : pc'[q] = pc[q] /\ req'[q] = req[q]
    BY <1>5 DEF Answer, Die, Shape
  <2>. QED  BY <2>1, <2>2 DEF Places, Serving
<1>. QED  BY <1>1, <1>2, <1>3, <1>4, <1>5 DEF Next

\* The type invariant: a process has a request whenever it is not idle, and is in
\* a call of the store exactly from its start to its read or its truncation,
\* wherever processes die.
THEOREM TypeCorrect == Spec => []TypeOK
<1>1. Init => Places
  BY BoundAssumption DEF Init, Places, Serving
<1>2. IInv /\ Places /\ [Next]_vars => Places'
  BY PlacesKept DEF IInv
<1>3. IInv /\ Places => TypeOK
  <2> SUFFICES ASSUME IInv, Places PROVE TypeOK
    OBVIOUS
  <2>1. now \in 1..MaxTime
    BY BoundAssumption DEF IInv, Shape
  <2>2. ASSUME NEW p \in Procs, pc[p] # "idle" PROVE req[p] # None
    BY <2>2, NoneAssumption DEF Places, Serving
  <2>3. \A p \in Procs : (req[p] = None) <=> (pc[p] = "idle")
    BY <2>2 DEF Places
  <2>. QED  BY <2>1, <2>3 DEF TypeOK, IInv, Shape, InCall, Places
<1>. QED  BY <1>1, <1>2, <1>3, Invariance, PTL DEF Spec

-----------------------------------------------------------------------------
(* The accounts as the callers see them.                                   *)

LEMMA DbIs ==
  ASSUME IInv, clean
  PROVE  /\ \A p \in Procs : Writing(p) => Db = held[p]
         /\ (\A p \in Procs : ~Writing(p)) => Db = file
BY DEF IInv, OneWriter, Db

LEMMA DbIsNext ==
  ASSUME IInv', clean'
  PROVE  /\ \A p \in Procs : Writing(p)' => Db' = held'[p]
         /\ (\A p \in Procs : ~Writing(p)') => Db' = file'
BY DEF IInv, OneWriter, Db

\* Steps that leave the file, its writer and what it holds leave the accounts.
LEMMA DbKept ==
  ASSUME IInv, IInv', clean, clean', UNCHANGED file,
         \A p \in Procs : Writing(p)' <=> Writing(p),
         \A p \in Procs : Writing(p) => held'[p] = held[p]
  PROVE  Db' = Db
<1>1. CASE \E p \in Procs : Writing(p)
  BY <1>1, DbIs, DbIsNext
<1>2. CASE \A p \in Procs : ~Writing(p)
  BY <1>2, DbIs, DbIsNext
<1>. QED  BY <1>1, <1>2

LEMMA SameStore ==
  \A o, d, t : Store!Effect(o, d, t) = Effect(o, d, t) /\ Store!Result(o, d, t) = Result(o, d, t)
BY DEF Effect, Result, Writes, upsert, patch, get, With, Without, Assign,
       Store!Effect, Store!Result, Store!Writes, Store!upsert, Store!patch, Store!get,
       Store!With, Store!Without, Store!Assign

-----------------------------------------------------------------------------
(* Every step is a step of Accounts, or leaves its variables alone.        *)

LEMMA RequestStarts ==
  ASSUME IInv, IInv', clean, clean', NEW p \in Procs, Request(p) \/ Second(p)
  PROVE  Store!Start(p)
<1>1. Db' = Db
  <2>1. UNCHANGED <<file, held>> /\ \A q \in Procs : Writing(q)' <=> Writing(q)
    BY DEF Request, Second, Writing, IInv, Shape
  <2>. QED  BY <2>1, DbKept
<1>2. op[p] = None
  BY DEF Request, Second, IInv, InCall
<1>3. op' = [op EXCEPT ![p] = op'[p]] /\ ret' = ret
  BY DEF Request, Second, IInv, Shape
<1>. QED  BY <1>1, <1>2, <1>3 DEF Store!Start

LEMMA ReadPerforms ==
  ASSUME IInv, IInv', clean, clean', NEW p \in Procs, Read(p)
  PROVE  UNCHANGED <<Db, op, ret>> \/ Store!Perform(p, now)
<1>1. UNCHANGED file /\ \A q \in Procs : ~Writing(q) /\ ~Writing(q)'
  BY DEF Read, Writing, IInv, Shape, OneWriter
<1>2. Db = file /\ Db' = file
  BY <1>1, DbIs, DbIsNext
<1>3. _read = file
  BY DEF Read, _read, IInv, Shape
<1>4. CASE Writes(op[p], _read)
  BY <1>2, <1>4 DEF Read
<1>5. CASE ~Writes(op[p], _read)
  <2>1. op[p] # None
    BY DEF Read, IInv, InCall
  <2>2. op' = [op EXCEPT ![p] = None] /\ ret' = [ret EXCEPT ![p] = Result(op[p], Db, now)]
    BY <1>2, <1>3, <1>5 DEF Read
  <2>3. Effect(op[p], Db, now) = Db
    BY <1>2, <1>3, <1>5 DEF Effect
  <2>. QED  BY <2>1, <2>2, <2>3, <1>2, SameStore DEF Store!Perform
<1>. QED  BY <1>4, <1>5

LEMMA TruncatePerforms ==
  ASSUME IInv, IInv', clean, clean', NEW p \in Procs, Truncate(p)
  PROVE  Store!Perform(p, now)
<1>1. file = held[p] /\ file # Broken
  BY DEF Truncate, IInv, OneWriter, Shape
<1>2. Db = held[p]
  <2>1. \A q \in Procs : ~Writing(q)
    BY <1>1 DEF IInv, OneWriter
  <2>. QED  BY <2>1, <1>1, DbIs
<1>3. Db' = Effect(op[p], Db, now)
  <2>1. Writing(p)' /\ held'[p] = Effect(op[p], held[p], now)
    BY DEF Truncate, Writing, IInv, Shape
  <2>. QED  BY <2>1, <1>2, DbIsNext
<1>4. op[p] # None
  BY DEF Truncate, IInv, InCall
<1>5. op' = [op EXCEPT ![p] = None] /\ ret' = [ret EXCEPT ![p] = Result(op[p], Db, now)]
  BY <1>2 DEF Truncate
<1>. QED  BY <1>3, <1>4, <1>5, SameStore DEF Store!Perform

LEMMA WriteStutters ==
  ASSUME IInv, IInv', clean, clean', NEW p \in Procs, Write(p)
  PROVE  UNCHANGED <<Db, op, ret>>
<1>1. file = Broken /\ Writing(p)
  BY DEF Write, Writing, IInv, OneWriter
<1>2. Db = held[p]
  BY <1>1, DbIs
<1>3. \A q \in Procs : ~Writing(q)'
  BY <1>1 DEF Write, Writing, IInv, OneWriter, Shape
<1>4. file' = held[p]
  BY <1>1 DEF Write
<1>. QED  BY <1>2, <1>3, <1>4, DbIsNext DEF Write

LEMMA DieDies ==
  ASSUME IInv, IInv', clean, clean', NEW p \in Procs, Die(p)
  PROVE  Store!Die(p)
<1>1. UNCHANGED <<file, held>> /\ \A q \in Procs : Writing(q)' <=> Writing(q)
  BY DEF Die, Writing, IInv, Shape
<1>. QED  BY <1>1, DbKept DEF Die, Store!Die

LEMMA AnswerStutters ==
  ASSUME IInv, IInv', clean, clean', (\E p \in Procs : Answer(p)) \/ Tick \/ UNCHANGED vars
  PROVE  UNCHANGED <<Db, op, ret>>
<1>1. UNCHANGED <<file, held, op, ret>> /\ \A q \in Procs : Writing(q)' <=> Writing(q)
  BY DEF Answer, Tick, vars, Writing, IInv, Shape
<1>. QED  BY <1>1, DbKept

LEMMA NowIsATime == IInv => now \in 1..MaxTime
BY BoundAssumption DEF IInv, Shape

LEMMA StepSimulation ==
  ASSUME IInv, IInv', [Next]_vars
  PROVE  [~clean' \/ Store!Next]_<<Db, op, ret>>
<1>. SUFFICES ASSUME clean' PROVE Store!Next \/ UNCHANGED <<Db, op, ret>>
  BY DEF IInv, Shape
<1>1. clean
  BY DEF Next, vars, Tick, Request, Read, Truncate, Write, Second, Answer, Die, history, IInv, Shape
<1>2. ASSUME NEW p \in Procs, Request(p) \/ Second(p) PROVE Store!Next
  BY <1>1, <1>2, RequestStarts DEF Store!Next
<1>3. ASSUME NEW p \in Procs, Read(p) PROVE Store!Next \/ UNCHANGED <<Db, op, ret>>
  BY <1>1, <1>3, ReadPerforms, NowIsATime DEF Store!Next
<1>4. ASSUME NEW p \in Procs, Truncate(p) PROVE Store!Next
  BY <1>1, <1>4, TruncatePerforms, NowIsATime DEF Store!Next
<1>5. ASSUME NEW p \in Procs, Write(p) PROVE UNCHANGED <<Db, op, ret>>
  BY <1>1, <1>5, WriteStutters
<1>6. ASSUME NEW p \in Procs, Die(p) PROVE Store!Next
  BY <1>1, <1>6, DieDies DEF Store!Next
<1>7. CASE (\E p \in Procs : Answer(p)) \/ Tick \/ UNCHANGED vars
  BY <1>1, <1>7, AnswerStutters
<1>. QED  BY <1>2, <1>3, <1>4, <1>5, <1>6, <1>7 DEF Next

\* The store is atomic: every behaviour of the server and the tool over the
\* file is one of a map of accounts whose calls act at once, up to the first
\* stale write, torn read or death within a write.
THEOREM StoreActsAtOnce == Spec => ActsAtOnce
<1>1. Init => Store!Init
  BY DEF Init, Store!Init, Db, Writing
<1>2. IInv /\ IInv' /\ [Next]_vars => [~clean' \/ Store!Next]_<<Db, op, ret>>
  BY StepSimulation
<1>. QED  BY <1>1, <1>2, Invariance, PTL DEF Spec, ActsAtOnce

-----------------------------------------------------------------------------
(* Accounts that were added stay.                                          *)

\* A process that removes an account was asked to; one that adds an account
\* has it in the store from its truncation on, unless its deletion is asked.
Purpose ==
  \A p \in Procs :
    /\ pc[p] # "idle" => "kind" \in DOMAIN req[p]
    /\ op[p] # None /\ op[p].kind = "remove" => op[p].name \in deleted
    /\ pc[p] # "idle" /\ req[p].kind = "add" =>
         /\ pc[p] \in {"read", "truncate"} =>
              op[p].kind = "upsert" /\ op[p].name = req[p].name
         /\ clean /\ pc[p] \in {"write", "called"} =>
              req[p].name \in DOMAIN Db \cup deleted

LEMMA EffectKeeps ==
  ASSUME NEW o, NEW db, NEW t
  PROVE  /\ \A n \in DOMAIN db : (o.kind = "remove" => n # o.name) => n \in DOMAIN Effect(o, db, t)
         /\ o.kind = "upsert" => o.name \in DOMAIN Effect(o, db, t)
<1>1. CASE ~Writes(o, db)
  BY <1>1 DEF Effect, Writes
<1>2. CASE Writes(o, db) /\ o.kind = "upsert"
  BY <1>2 DEF Effect, Writes, upsert, With, Assign
<1>3. CASE Writes(o, db) /\ o.kind = "patch"
  BY <1>3 DEF Effect, patch, With, Assign
<1>4. CASE Writes(o, db) /\ o.kind = "remove"
  BY <1>4 DEF Effect, Without
<1>. QED  BY <1>1, <1>2, <1>3, <1>4 DEF Writes

LEMMA DbSteps ==
  ASSUME IInv, IInv', clean', [Next]_vars
  PROVE  Db' = Db \/ \E p \in Procs : Truncate(p) /\ Db' = Effect(op[p], Db, now)
<1>1. clean
  BY DEF Next, vars, Tick, Request, Read, Truncate, Write, Second, Answer, Die, history, IInv, Shape
<1>2. ASSUME NEW p \in Procs, Request(p) \/ Second(p) PROVE Db' = Db
  BY <1>1, <1>2, RequestStarts DEF Store!Start
<1>3. ASSUME NEW p \in Procs, Read(p) PROVE Db' = Db
  <2>1. UNCHANGED file /\ \A q \in Procs : ~Writing(q) /\ ~Writing(q)'
    BY <1>3 DEF Read, Writing, IInv, Shape, OneWriter
  <2>. QED  BY <2>1, <1>1, DbIs, DbIsNext
<1>4. ASSUME NEW p \in Procs, Truncate(p) PROVE Db' = Effect(op[p], Db, now)
  BY <1>1, <1>4, TruncatePerforms, SameStore DEF Store!Perform
<1>5. ASSUME NEW p \in Procs, Write(p) PROVE Db' = Db
  BY <1>1, <1>5, WriteStutters
<1>6. ASSUME NEW p \in Procs, Die(p) PROVE Db' = Db
  BY <1>1, <1>6, DieDies DEF Store!Die
<1>7. CASE (\E p \in Procs : Answer(p)) \/ Tick \/ UNCHANGED vars
  BY <1>1, <1>7, AnswerStutters
<1>. QED  BY <1>2, <1>3, <1>4, <1>5, <1>6, <1>7 DEF Next

\* What no deletion was asked for stays in the store.
LEMMA DbGrows ==
  ASSUME IInv, IInv', clean', [Next]_vars, Purpose
  PROVE  \A n \in DOMAIN Db : n \in DOMAIN Db' \cup deleted
<1>1. CASE Db' = Db
  BY <1>1
<1>2. ASSUME NEW p \in Procs, Truncate(p), Db' = Effect(op[p], Db, now)
      PROVE  \A n \in DOMAIN Db : n \in DOMAIN Db' \cup deleted
  <2>1. op[p] # None
    BY <1>2 DEF Truncate, IInv, InCall
  <2>. QED  BY <1>2, <2>1, EffectKeeps DEF Purpose
<1>. QED  BY <1>1, <1>2, DbSteps

LEMMA Asked ==
  ASSUME NEW p \in Procs, NEW r \in Requests[p]
  PROVE  LET q == Assign(r, [second |-> FALSE])
         IN  q.kind = r.kind /\ q.name = r.name /\ "kind" \in DOMAIN q
BY RequestAssumption DEF Assign

LEMMA PurposeKept ==
  ASSUME IInv, IInv', Purpose, [Next]_vars
  PROVE  Purpose'
<1>. DEFINE Removes(q) == op[q] # None /\ op[q].kind = "remove" => op[q].name \in deleted
            Adding(q) == pc[q] # "idle" /\ req[q].kind = "add"
            Upserts(q) == pc[q] \in {"read", "truncate"} =>
                            op[q].kind = "upsert" /\ op[q].name = req[q].name
            Holds(q) == clean /\ pc[q] \in {"write", "called"} =>
                          req[q].name \in DOMAIN Db \cup deleted
            Known(q) == pc[q] # "idle" => "kind" \in DOMAIN req[q]
            Good(q) == Known(q) /\ Removes(q) /\ (Adding(q) => Upserts(q) /\ Holds(q))
<1>0. deleted \subseteq deleted' /\ (clean' => clean)
  BY DEF Next, vars, Tick, Request, Read, Truncate, Write, Second, Answer, Die, history, IInv, Shape
<1>1. ASSUME NEW q \in Procs, pc'[q] = pc[q], req'[q] = req[q], op'[q] = op[q] PROVE Good(q)'
  BY <1>0, <1>1, DbGrows DEF Purpose
<1>2. CASE UNCHANGED vars \/ Tick
  BY <1>1, <1>2 DEF vars, Tick, Purpose
<1>3. ASSUME NEW p \in Procs, Request(p) PROVE Purpose'
  <2>1. PICK r \in Requests[p] :
          /\ req' = [req EXCEPT ![p] = Assign(r, [second |-> FALSE])]
          /\ op' = [op EXCEPT ![p] = FirstCall(r)]
          /\ deleted' = IF r.kind = "delete" THEN deleted \cup {r.name} ELSE deleted
    BY <1>3 DEF Request
  <2>2. req'[p].kind = r.kind /\ req'[p].name = r.name /\ "kind" \in DOMAIN req'[p]
    BY <2>1, Asked DEF IInv, Shape
  <2>3. op'[p] = FirstCall(r) /\ pc'[p] = "read"
    BY <1>3, <2>1 DEF Request, IInv, Shape
  <2>4. r.kind \in Kinds
    BY RequestAssumption
  <2>5. Good(p)'
    BY <2>1, <2>2, <2>3, <2>4 DEF FirstCall, Call, Kinds
  <2>6. \A q \in Procs : q # p => pc'[q] = pc[q] /\ req'[q] = req[q] /\ op'[q] = op[q]
    BY <1>3, <2>1 DEF Request, IInv, Shape
  <2>. QED  BY <1>1, <2>5, <2>6 DEF Purpose
<1>4. ASSUME NEW p \in Procs, Read(p) PROVE Purpose'
  <2>1. Good(p)'
    <3>1. Adding(p) => Writes(op[p], _read)
      BY <1>4 DEF Read, Purpose, Writes
    <3>. QED  BY <1>0, <1>4, <3>1 DEF Read, Purpose, IInv, Shape
  <2>2. \A q \in Procs : q # p => pc'[q] = pc[q] /\ req'[q] = req[q] /\ op'[q] = op[q]
    BY <1>4 DEF Read, IInv, Shape
  <2>. QED  BY <1>1, <2>1, <2>2 DEF Purpose
<1>5. ASSUME NEW p \in Procs, Truncate(p) PROVE Purpose'
  <2>1. Good(p)'
    <3>1. Removes(p)'
      BY <1>5 DEF Truncate, IInv, Shape
    <3>4. Known(p)'
      BY <1>5 DEF Truncate, Purpose
    <3>2. ASSUME Adding(p)', clean' PROVE req'[p].name \in DOMAIN Db'
      <4>1. op[p].kind = "upsert" /\ op[p].name = req'[p].name
        BY <1>5, <3>2 DEF Truncate, Purpose
      <4>2. Db' = Effect(op[p], Db, now)
        BY <1>0, <1>5, <3>2, TruncatePerforms, SameStore DEF Store!Perform
      <4>. QED  BY <4>1, <4>2, EffectKeeps
    <3>3. pc'[p] = "write"
      BY <1>5 DEF Truncate, IInv, Shape
    <3>. QED  BY <3>1, <3>2, <3>3, <3>4
  <2>2. \A q \in Procs : q # p => pc'[q] = pc[q] /\ req'[q] = req[q] /\ op'[q] = op[q]
    BY <1>5 DEF Truncate, IInv, Shape
  <2>. QED  BY <1>1, <2>1, <2>2 DEF Purpose
<1>6. ASSUME NEW p \in Procs, Write(p) PROVE Purpose'
  <2>1. Good(p)'
    <3>1. Removes(p)'
      BY <1>0, <1>6 DEF Write, Purpose
    <3>4. Known(p)'
      BY <1>6 DEF Write, Purpose
    <3>2. ASSUME Adding(p)', clean' PROVE req'[p].name \in DOMAIN Db' \cup deleted'
      BY <1>0, <1>6, <3>2, DbGrows DEF Write, Purpose
    <3>3. pc'[p] = "called"
      BY <1>6 DEF Write, IInv, Shape
    <3>. QED  BY <3>1, <3>2, <3>3, <3>4
  <2>2. \A q \in Procs : q # p => pc'[q] = pc[q] /\ req'[q] = req[q] /\ op'[q] = op[q]
    BY <1>6 DEF Write, IInv, Shape
  <2>. QED  BY <1>1, <2>1, <2>2 DEF Purpose
<1>7. ASSUME NEW p \in Procs, Second(p) PROVE Purpose'
  <2>1. Good(p)'
    <3>1. req[p].kind \in {"login", "update"}
      BY <1>7 DEF Second, SecondCall
    <3>2. op'[p].kind = "patch"
      BY <1>7, <3>1 DEF Second, SecondCall, touchLogin, Call, IInv, Shape
    <3>3. req'[p].kind = req[p].kind /\ "kind" \in DOMAIN req'[p]
      BY <1>7 DEF Second, IInv, Shape, Purpose, Assign
    <3>. QED  BY <3>1, <3>2, <3>3
  <2>2. \A q \in Procs : q # p => pc'[q] = pc[q] /\ req'[q] = req[q] /\ op'[q] = op[q]
    BY <1>7 DEF Second, IInv, Shape
  <2>. QED  BY <1>1, <2>1, <2>2 DEF Purpose
<1>8. ASSUME NEW p \in Procs, Answer(p) \/ Die(p) PROVE Purpose'
  <2>1. pc'[p] = "idle" /\ op'[p] = None
    BY <1>8 DEF Answer, Die, IInv, Shape, InCall
  <2>2. \A q \in Procs : q # p => pc'[q] = pc[q] /\ req'[q] = req[q] /\ op'[q] = op[q]
    BY <1>8 DEF Answer, Die, IInv, Shape
  <2>. QED  BY <1>1, <2>1, <2>2 DEF Purpose
<1>. QED  BY <1>2, <1>3, <1>4, <1>5, <1>6, <1>7, <1>8 DEF Next

LEMMA KeptKept ==
  ASSUME IInv, IInv', Purpose, Kept, [Next]_vars
  PROVE  Kept'
<1>. SUFFICES ASSUME clean' PROVE added' \subseteq DOMAIN Db' \cup deleted'
  BY DEF Kept
<1>1. deleted \subseteq deleted' /\ clean
  BY DEF Next, vars, Tick, Request, Read, Truncate, Write, Second, Answer, Die, history, IInv, Shape
<1>2. added \subseteq DOMAIN Db' \cup deleted'
  BY <1>1, DbGrows DEF Kept
<1>3. ASSUME NEW p \in Procs, Answer(p) PROVE added' \subseteq DOMAIN Db' \cup deleted'
  <2>1. req[p].kind = "add" => req[p].name \in DOMAIN Db' \cup deleted'
    BY <1>1, <1>3, DbGrows DEF Answer, Purpose
  <2>. QED  BY <1>2, <1>3, <2>1 DEF Answer
<1>4. CASE ~\E p \in Procs : Answer(p)
  <2>1. added' = added
    BY <1>4 DEF Next, vars, Tick, Request, Read, Truncate, Write, Second, Die, history
  <2>. QED  BY <1>2, <2>1
<1>. QED  BY <1>3, <1>4

\* An account that add reported stays, through every other request and death,
\* while the store acts as one.
THEOREM AccountsKept == Spec => []Kept
<1>1. Init => Purpose /\ Kept
  BY DEF Init, Purpose, Kept, Db, Writing
<1>2. IInv /\ IInv' /\ Purpose /\ Kept /\ [Next]_vars => Purpose' /\ Kept'
  BY PurposeKept, KeptKept
<1>. QED  BY <1>1, <1>2, Invariance, PTL DEF Spec

-----------------------------------------------------------------------------
(* Accounts keep their time of creation.                                   *)

\* Every account has one, and no patch under way touches it.
Dated ==
  /\ clean => \A n \in DOMAIN Db : "createdAt" \in DOMAIN Db[n]
  /\ \A p \in Procs :
       /\ op[p] # None /\ op[p].kind = "patch" => "createdAt" \notin DOMAIN op[p].fields
       /\ pc[p] # "idle" =>
            /\ "kind" \in DOMAIN req[p]
            /\ req[p].kind = "update" =>
                 "fields" \in DOMAIN req[p] /\ "createdAt" \notin DOMAIN req[p].fields

\* A call keeps the time of creation of every account that stays.
LEMMA EffectDates ==
  ASSUME NEW o, NEW db, NEW t, \A n \in DOMAIN db : "createdAt" \in DOMAIN db[n],
         o.kind = "patch" => "createdAt" \notin DOMAIN o.fields
  PROVE  \A n \in DOMAIN Effect(o, db, t) :
           /\ "createdAt" \in DOMAIN Effect(o, db, t)[n]
           /\ n \in DOMAIN db => Effect(o, db, t)[n].createdAt = db[n].createdAt
<1>1. CASE ~Writes(o, db)
  BY <1>1 DEF Effect
<1>2. CASE Writes(o, db) /\ o.kind = "upsert"
  <2>. DEFINE times == IF o.name \notin DOMAIN db THEN [createdAt |-> t, lastLoginAt |-> 0]
                       ELSE [createdAt |-> db[o.name].createdAt,
                             lastLoginAt |-> db[o.name].lastLoginAt]
              new == Assign(o.fields, times)
  <2>1. /\ "createdAt" \in DOMAIN new
        /\ o.name \in DOMAIN db => new.createdAt = db[o.name].createdAt
    BY DEF Assign
  <2>2. Effect(o, db, t) = [x \in DOMAIN db \cup {o.name} |-> IF x = o.name THEN new ELSE db[x]]
    BY <1>2 DEF Effect, upsert, With, Assign
  <2>. QED  BY <2>1, <2>2
<1>3. CASE Writes(o, db) /\ o.kind = "patch"
  <2>. DEFINE new == Assign(db[o.name], o.fields)
  <2>1. "createdAt" \in DOMAIN new /\ new.createdAt = db[o.name].createdAt
    BY <1>3 DEF Assign, Writes
  <2>2. Effect(o, db, t) = [x \in DOMAIN db \cup {o.name} |-> IF x = o.name THEN new ELSE db[x]]
    BY <1>3 DEF Effect, patch, With, Assign
  <2>. QED  BY <2>1, <2>2
<1>4. CASE Writes(o, db) /\ o.kind = "remove"
  BY <1>4 DEF Effect, Without
<1>. QED  BY <1>1, <1>2, <1>3, <1>4 DEF Writes

\* A step keeps the accounts' times of creation.
LEMMA DatesKept ==
  ASSUME IInv, IInv', clean', Dated, [Next]_vars
  PROVE  \A n \in DOMAIN Db' :
           /\ "createdAt" \in DOMAIN Db'[n]
           /\ n \in DOMAIN Db => Db'[n].createdAt = Db[n].createdAt
<1>1. clean
  BY DEF Next, vars, Tick, Request, Read, Truncate, Write, Second, Answer, Die, history, IInv, Shape
<1>2. CASE Db' = Db
  BY <1>1, <1>2 DEF Dated
<1>3. ASSUME NEW p \in Procs, Truncate(p), Db' = Effect(op[p], Db, now)
      PROVE  \A n \in DOMAIN Db' : /\ "createdAt" \in DOMAIN Db'[n]
                                   /\ n \in DOMAIN Db => Db'[n].createdAt = Db[n].createdAt
  <2>1. op[p] # None
    BY <1>3 DEF Truncate, IInv, InCall
  <2>. QED  BY <1>1, <1>3, <2>1, EffectDates DEF Dated
<1>. QED  BY <1>2, <1>3, DbSteps

\* Every step keeps Dated.
LEMMA DatedKept ==
  ASSUME IInv, IInv', Dated, [Next]_vars
  PROVE  Dated'
<1>. DEFINE Patches(q) == op[q] # None /\ op[q].kind = "patch" => "createdAt" \notin DOMAIN op[q].fields
            Updates(q) == pc[q] # "idle" =>
              /\ "kind" \in DOMAIN req[q]
              /\ req[q].kind = "update" =>
                   "fields" \in DOMAIN req[q] /\ "createdAt" \notin DOMAIN req[q].fields
<1>1. clean' => \A n \in DOMAIN Db' : "createdAt" \in DOMAIN Db'[n]
  BY DatesKept
<1>2. ASSUME NEW p \in Procs PROVE Patches(p)' /\ Updates(p)'
  <2>1. CASE /\ op'[p] \in {op[p], None}
             /\ pc'[p] = "idle" \/ (pc[p] # "idle" /\ req'[p] = req[p])
    BY <2>1 DEF Dated
  <2>2. CASE Request(p)
    <3>1. PICK r \in Requests[p] :
            /\ req' = [req EXCEPT ![p] = Assign(r, [second |-> FALSE])]
            /\ op' = [op EXCEPT ![p] = FirstCall(r)]
      BY <2>2 DEF Request
    <3>2. /\ req'[p] = Assign(r, [second |-> FALSE])
          /\ op'[p] = FirstCall(r)
      BY <3>1 DEF IInv, Shape
    <3>3. /\ r.kind \in Kinds /\ "kind" \in DOMAIN r
          /\ r.kind \in {"update", "patch"} => "fields" \in DOMAIN r /\ "createdAt" \notin DOMAIN r.fields
      BY RequestAssumption DEF Fields
    <3>4. Patches(p)'
      BY <3>2, <3>3 DEF FirstCall, Call, Kinds
    <3>5. /\ "kind" \in DOMAIN req'[p] /\ req'[p].kind = r.kind
          /\ r.kind = "update" => "fields" \in DOMAIN req'[p] /\ req'[p].fields = r.fields
      BY <3>2, <3>3, RequestAssumption DEF Assign
    <3>. QED  BY <3>3, <3>4, <3>5
  <2>3. CASE Second(p)
    <3>1. /\ op'[p] = SecondCall(req[p], ret[p]) /\ req'[p] = Assign(req[p], [second |-> TRUE])
          /\ pc[p] # "idle" /\ SecondCall(req[p], ret[p]) # None
      BY <2>3 DEF Second, IInv, Shape
    <3>2. Patches(p)'
      BY <3>1 DEF SecondCall, touchLogin, Call, Dated
    <3>3. Updates(p)'
      BY <3>1 DEF Assign, Dated
    <3>. QED  BY <3>2, <3>3
  <2>4. CASE ~Request(p) /\ ~Second(p)
    <3> DEFINE Same(q) == /\ op'[q] \in {op[q], None}
                          /\ pc'[q] = "idle" \/ (pc[q] # "idle" /\ req'[q] = req[q])
    <3>1. ASSUME UNCHANGED vars \/ Tick PROVE Same(p)
      BY <3>1 DEF vars, Tick
    <3>2. ASSUME NEW q \in Procs, Request(q) \/ Second(q) PROVE Same(p)
      BY <2>4, <3>2 DEF Request, Second, IInv, Shape
    <3>3. ASSUME NEW q \in Procs, Read(q) PROVE Same(p)
      BY <3>3 DEF Read, IInv, Shape
    <3>4. ASSUME NEW q \in Procs, Truncate(q) \/ Write(q) PROVE Same(p)
      BY <3>4 DEF Truncate, Write, IInv, Shape
    <3>5. ASSUME NEW q \in Procs, Answer(q) \/ Die(q) PROVE Same(p)
      BY <3>5 DEF Answer, Die, IInv, Shape
    <3>6. Same(p)
      BY <3>1, <3>2, <3>3, <3>4, <3>5 DEF Next
    <3>. QED  BY <2>1, <3>6
  <2>. QED  BY <2>2, <2>3, <2>4
<1>. QED  BY <1>1, <1>2 DEF Dated

\* While the store acts as one, an account keeps its time of creation through every
\* login, update and further add (users.js upsert).
THEOREM CreationKept == Spec => CreatedOnce
<1>1. Init => Dated
  BY FirstAssumption DEF Init, Dated, Db, Writing
<1>2. IInv /\ IInv' /\ Dated /\ [Next]_vars => Dated'
  BY DatedKept
<1>3. IInv /\ IInv' /\ Dated /\ [Next]_vars =>
        [clean' => \A n \in DOMAIN Db \cap DOMAIN Db' : Db'[n].createdAt = Db[n].createdAt]_Db
  BY DatesKept
<1>. QED  BY <1>1, <1>2, <1>3, Invariance, PTL DEF Spec, CreatedOnce

-----------------------------------------------------------------------------
(* A disabled account stays shut.                                          *)

Changing == {"add", "update", "patch"}

\* What a request in hand has; in particular the flag it sets is a Boolean.
Recorded(r) ==
  /\ {"kind", "name", "second"} \subseteq DOMAIN r
  /\ r.kind \in Kinds
  /\ r.kind \in Changing <=> "fields" \in DOMAIN r
  /\ "fields" \in DOMAIN r /\ "disabled" \in DOMAIN r.fields => r.fields.disabled \in BOOLEAN
  /\ r.kind = "add" => "disabled" \in DOMAIN r.fields

\* Process p is in the call that carries the fields of its request, or in the one
\* that looks at the account first.
Carries(p) == req[p].kind \in {"add", "patch"} \/ (req[p].kind = "update" /\ req[p].second)
Looks(p) == req[p].kind \in {"login", "update"} /\ ~req[p].second

\* A call under way changes the flag exactly as its request asks.
Faithful(p) ==
  /\ Carries(p) => /\ op[p].kind \in {"upsert", "patch"}
                   /\ op[p].name = req[p].name /\ op[p].fields = req[p].fields
  /\ Looks(p) => op[p].kind = "get" /\ op[p].name = req[p].name
  /\ op[p].kind = "upsert" => req[p].kind = "add"
  /\ ~Carries(p) /\ op[p].kind = "patch" => "disabled" \notin DOMAIN op[p].fields
Guarded(p) ==
  pc[p] # "idle" =>
    /\ Recorded(req[p])
    /\ pc[p] \in {"read", "truncate"} => Faithful(p)
    /\ Looks(p) => pc[p] \in {"read", "called"}

\* A late login has seen an account it has to refuse, and never comes to touchLogin.
Watched(p) ==
  p \in late /\ pc[p] # "idle" =>
    /\ req[p].name \in blocked
    /\ clean /\ pc[p] = "called" /\ Looks(p) => ret[p] = None \/ ret[p].disabled = TRUE
    /\ clean => ~(req[p].kind = "login" /\ req[p].second)
Flagged ==
  clean => \A n \in DOMAIN Db : /\ "disabled" \in DOMAIN Db[n]
                                /\ n \in blocked => Db[n].disabled = TRUE
Blocking == Flagged /\ Blocks /\ \A p \in Procs : Guarded(p) /\ Watched(p)

\* A call sets the flag of one account, if its fields have one, and keeps the others.
LEMMA EffectFlags ==
  ASSUME NEW o, NEW db, NEW t, \A n \in DOMAIN db : "disabled" \in DOMAIN db[n],
         o.kind = "upsert" => "disabled" \in DOMAIN o.fields
  PROVE  \A n \in DOMAIN Effect(o, db, t) :
           /\ "disabled" \in DOMAIN Effect(o, db, t)[n]
           /\ IF n = o.name /\ o.kind \in {"upsert", "patch"} /\ "disabled" \in DOMAIN o.fields
              THEN Effect(o, db, t)[n].disabled = o.fields.disabled
              ELSE n \in DOMAIN db /\ Effect(o, db, t)[n].disabled = db[n].disabled
<1>1. CASE ~Writes(o, db)
  BY <1>1 DEF Effect, Writes
<1>2. CASE Writes(o, db) /\ o.kind = "upsert"
  <2>. DEFINE times == IF o.name \notin DOMAIN db THEN [createdAt |-> t, lastLoginAt |-> 0]
                       ELSE [createdAt |-> db[o.name].createdAt,
                             lastLoginAt |-> db[o.name].lastLoginAt]
              new == Assign(o.fields, times)
  <2>1. "disabled" \in DOMAIN new /\ new.disabled = o.fields.disabled
    BY <1>2 DEF Assign
  <2>2. Effect(o, db, t) = [x \in DOMAIN db \cup {o.name} |-> IF x = o.name THEN new ELSE db[x]]
    BY <1>2 DEF Effect, upsert, With, Assign
  <2> HIDE DEF new
  <2>. QED  BY <1>2, <2>1, <2>2
<1>3. CASE Writes(o, db) /\ o.kind = "patch"
  <2>. DEFINE new == Assign(db[o.name], o.fields)
  <2>1. /\ "disabled" \in DOMAIN new /\ o.name \in DOMAIN db
        /\ new.disabled = IF "disabled" \in DOMAIN o.fields THEN o.fields.disabled
                          ELSE db[o.name].disabled
    BY <1>3 DEF Assign, Writes
  <2>2. Effect(o, db, t) = [x \in DOMAIN db \cup {o.name} |-> IF x = o.name THEN new ELSE db[x]]
    BY <1>3 DEF Effect, patch, With, Assign
  <2> HIDE DEF new
  <2>. QED  BY <1>3, <2>1, <2>2
<1>4. CASE Writes(o, db) /\ o.kind = "remove"
  BY <1>4 DEF Effect, Without
<1>. QED  BY <1>1, <1>2, <1>3, <1>4 DEF Writes

\* What went wrong stays wrong.
LEMMA CleanFalls ==
  ASSUME IInv, [Next]_vars
  PROVE  clean' => clean
BY DEF Next, vars, Tick, Request, Read, Truncate, Write, Second, Answer, Die, history, IInv, Shape

\* Only a truncation changes what is blocked, and only it and a request what is late.
LEMMA FlagsStay ==
  ASSUME IInv, [Next]_vars, ~\E p \in Procs : Truncate(p)
  PROVE  blocked' = blocked /\ \A q \in Procs : ~Request(q) => (q \in late' <=> q \in late)
<1>1. ASSUME NEW p \in Procs, Request(p)
      PROVE  blocked' = blocked /\ \A q \in Procs : ~Request(q) => (q \in late' <=> q \in late)
  <2>1. late' \in {late \cup {p}, late \ {p}} /\ blocked' = blocked
    BY <1>1 DEF Request
  <2>. QED  BY <1>1, <2>1
<1>2. ASSUME NEW p \in Procs, Read(p) \/ Write(p) \/ Second(p) \/ Answer(p) \/ Die(p)
      PROVE  UNCHANGED flags
  BY <1>2 DEF Read, Write, Second, Answer, Die, history
<1>3. CASE UNCHANGED vars \/ Tick
  BY <1>3 DEF vars, Tick, history, flags
<1>. QED  BY <1>1, <1>2, <1>3 DEF Next, flags

\* A request under way that is late in the end was late before, and its account is
\* still blocked.
LEMMA LateStays ==
  ASSUME IInv, Blocking, [Next]_vars, NEW q \in Procs, pc[q] # "idle", q \in late'
  PROVE  q \in late /\ req[q].name \in blocked'
<1>1. ASSUME NEW p \in Procs, Truncate(p) PROVE q \in late /\ req[q].name \in blocked'
  BY <1>1 DEF Truncate
<1>2. CASE ~\E p \in Procs : Truncate(p)
  <2>1. ~Request(q)
    BY DEF Request
  <2>. QED  BY <1>2, <2>1, FlagsStay DEF Blocking, Watched
<1>. QED  BY <1>1, <1>2

\* The flag of every account in the store is what the last change of it was.
LEMMA FlaggedKept ==
  ASSUME IInv, IInv', Blocking, [Next]_vars
  PROVE  Flagged'
<1>. SUFFICES ASSUME clean'
     PROVE  \A n \in DOMAIN Db' : /\ "disabled" \in DOMAIN Db'[n]
                                  /\ n \in blocked' => Db'[n].disabled = TRUE
  BY DEF Flagged
<1>1. clean
  BY CleanFalls
<1>2. CASE ~\E p \in Procs : Truncate(p)
  BY <1>1, <1>2, DbSteps, FlagsStay DEF Blocking, Flagged
<1>3. ASSUME NEW p \in Procs, Truncate(p)
      PROVE  \A n \in DOMAIN Db' : /\ "disabled" \in DOMAIN Db'[n]
                                   /\ n \in blocked' => Db'[n].disabled = TRUE
  <2>1. /\ op[p] # None /\ pc[p] = "truncate"
        /\ blocked' = IF Sets(req[p], TRUE) THEN blocked \cup {req[p].name}
                      ELSE IF Sets(req[p], FALSE) THEN blocked \ {req[p].name} ELSE blocked
    BY <1>3 DEF Truncate, IInv, InCall
  <2>2. Recorded(req[p]) /\ Faithful(p) /\ ~Looks(p)
    BY <2>1 DEF Blocking, Guarded
  <2>3. Db' = Effect(op[p], Db, now)
    BY <1>1, <1>3, TruncatePerforms, SameStore DEF Store!Perform
  <2>4. op[p].kind = "upsert" => "disabled" \in DOMAIN op[p].fields
    BY <2>2 DEF Faithful, Recorded, Carries
  <2>5. \A n \in DOMAIN Db' :
          /\ "disabled" \in DOMAIN Db'[n]
          /\ IF n = op[p].name /\ op[p].kind \in {"upsert", "patch"} /\ "disabled" \in DOMAIN op[p].fields
             THEN Db'[n].disabled = op[p].fields.disabled
             ELSE n \in DOMAIN Db /\ Db'[n].disabled = Db[n].disabled
    BY <1>1, <2>3, <2>4, EffectFlags DEF Blocking, Flagged
  <2>6. \A n \in DOMAIN Db : n \in blocked => Db[n].disabled = TRUE
    BY <1>1 DEF Blocking, Flagged
  <2>7. CASE Carries(p)
    <3>1. /\ op[p].kind \in {"upsert", "patch"} /\ op[p].name = req[p].name
          /\ op[p].fields = req[p].fields /\ "fields" \in DOMAIN req[p]
      BY <2>2, <2>7 DEF Faithful, Recorded, Carries, Changing
    <3>2. CASE "disabled" \in DOMAIN req[p].fields /\ req[p].fields.disabled = TRUE
      <4>1. blocked' = blocked \cup {req[p].name}
        BY <2>1, <3>1, <3>2 DEF Sets
      <4>. QED  BY <2>5, <2>6, <3>1, <3>2, <4>1
    <3>3. CASE "disabled" \in DOMAIN req[p].fields /\ req[p].fields.disabled = FALSE
      <4>1. blocked' = blocked \ {req[p].name}
        BY <2>1, <3>1, <3>3 DEF Sets
      <4>. QED  BY <2>5, <2>6, <3>1, <3>3, <4>1
    <3>4. CASE "disabled" \notin DOMAIN req[p].fields
      <4>1. blocked' = blocked
        BY <2>1, <3>1, <3>4 DEF Sets
      <4>. QED  BY <2>5, <2>6, <3>1, <3>4, <4>1
    <3>. QED  BY <2>2, <3>1, <3>2, <3>3, <3>4 DEF Recorded
  <2>8. CASE ~Carries(p)
    <3>1. "fields" \notin DOMAIN req[p] /\ op[p].kind # "upsert"
      BY <2>2, <2>8 DEF Faithful, Recorded, Carries, Looks, Changing
    <3>2. blocked' = blocked
      BY <2>1, <3>1 DEF Sets
    <3>3. op[p].kind = "patch" => "disabled" \notin DOMAIN op[p].fields
      BY <2>2, <2>8 DEF Faithful
    <3>. QED  BY <2>5, <2>6, <3>1, <3>2, <3>3
  <2>. QED  BY <2>7, <2>8
<1>. QED  BY <1>2, <1>3

\* A process whose own state stands still stays guarded.
LEMMA Standing ==
  ASSUME IInv, IInv', Blocking, [Next]_vars, NEW q \in Procs,
         pc'[q] = pc[q], req'[q] = req[q], op'[q] = op[q], ret'[q] = ret[q]
  PROVE  Guarded(q)' /\ Watched(q)'
<1>1. Carries(q)' = Carries(q) /\ Looks(q)' = Looks(q) /\ (clean' => clean)
  BY CleanFalls DEF Carries, Looks
<1>2. Guarded(q)'
  BY <1>1 DEF Blocking, Guarded, Faithful, Recorded
<1>3. Watched(q)'
  BY <1>1, LateStays DEF Blocking, Watched
<1>. QED  BY <1>2, <1>3

\* The record of a request, when it is made and in its second call.
LEMMA RequestNoted ==
  ASSUME NEW r, NEW flag \in BOOLEAN, NEW q, q = Assign(r, [second |-> flag]),
         {"kind", "name"} \subseteq DOMAIN r
  PROVE  /\ DOMAIN q = DOMAIN r \cup {"second"}
         /\ q.second = flag /\ q.kind = r.kind /\ q.name = r.name
         /\ "fields" \in DOMAIN r => q.fields = r.fields
BY DEF Assign

\* A request makes the call it should.
LEMMA RequestGuarded ==
  ASSUME IInv, IInv', Blocking, NEW p \in Procs, Request(p)
  PROVE  Guarded(p)' /\ Watched(p)'
<1>1. PICK r \in Requests[p] :
        /\ req' = [req EXCEPT ![p] = Assign(r, [second |-> FALSE])]
        /\ op' = [op EXCEPT ![p] = FirstCall(r)]
        /\ late' = IF r.name \in blocked THEN late \cup {p} ELSE late \ {p}
  BY DEF Request
<1>. DEFINE new == Assign(r, [second |-> FALSE])
<1>2. req'[p] = new /\ op'[p] = FirstCall(r) /\ pc'[p] = "read" /\ blocked' = blocked
  BY <1>1 DEF Request, IInv, Shape
<1>3. /\ {"kind", "name"} \subseteq DOMAIN r /\ "second" \notin DOMAIN r /\ r.kind \in Kinds
      /\ r.kind \in Changing <=> "fields" \in DOMAIN r
      /\ "fields" \in DOMAIN r /\ "disabled" \in DOMAIN r.fields => r.fields.disabled \in BOOLEAN
      /\ r.kind = "add" => "disabled" \in DOMAIN r.fields
  BY RequestAssumption DEF Changing, Fields
<1>4. /\ DOMAIN new = DOMAIN r \cup {"second"}
      /\ ~new.second /\ new.kind = r.kind /\ new.name = r.name
      /\ "fields" \in DOMAIN r => new.fields = r.fields
  BY <1>3, RequestNoted
<1> HIDE DEF new
<1>5. "fields" \in DOMAIN new <=> "fields" \in DOMAIN r
  BY <1>4
<1>6. Recorded(req[p])'
  BY <1>2, <1>3, <1>4, <1>5 DEF Recorded, Changing
<1>7. Faithful(p)'
  <2>1. CASE r.kind = "add"
    BY <1>2, <1>3, <1>4, <2>1 DEF FirstCall, Call, Faithful, Carries, Looks, Changing
  <2>2. CASE r.kind = "patch"
    BY <1>2, <1>3, <1>4, <2>2 DEF FirstCall, Call, Faithful, Carries, Looks, Changing
  <2>3. CASE r.kind \notin {"add", "patch"}
    <3>1. /\ op'[p].kind \in {"get", "all", "remove"}
          /\ r.kind \in {"login", "update"} => op'[p].kind = "get" /\ op'[p].name = r.name
      BY <1>2, <1>3, <2>3 DEF FirstCall, Call, Kinds
    <3>. QED  BY <1>2, <1>4, <2>3, <3>1 DEF Faithful, Carries, Looks
  <2>. QED  BY <2>1, <2>2, <2>3
<1>8. Watched(p)'
  <2>1. p \in late' => r.name \in blocked'
    BY <1>1, <1>2
  <2>. QED  BY <1>2, <1>4, <2>1 DEF Watched
<1>. QED  BY <1>2, <1>6, <1>7, <1>8 DEF Guarded

\* A look at the file sees every account shut that has to be.
LEMMA ReadGuarded ==
  ASSUME IInv, IInv', Blocking, [Next]_vars, NEW p \in Procs, Read(p)
  PROVE  Guarded(p)' /\ Watched(p)'
<1>1. /\ pc[p] = "read" /\ req'[p] = req[p] /\ UNCHANGED flags
      /\ Carries(p)' = Carries(p) /\ Looks(p)' = Looks(p)
  BY DEF Read, history, IInv, Shape, Carries, Looks
<1>2. /\ Guarded(p) /\ Watched(p) /\ Faithful(p) /\ Recorded(req[p])
      /\ Recorded(req[p])' = Recorded(req[p])
  BY <1>1 DEF Blocking, Recorded, Guarded
<1>3. CASE Writes(op[p], _read)
  <2>1. pc'[p] = "truncate" /\ op'[p] = op[p]
    BY <1>3 DEF Read, IInv, Shape
  <2>2. ~Looks(p)
    BY <1>2, <1>3 DEF Faithful, Writes
  <2>3. Guarded(p)'
    BY <1>1, <1>2, <2>1, <2>2 DEF Guarded, Faithful
  <2>4. Watched(p)'
    BY <1>1, <1>2, <2>1, <2>2, CleanFalls DEF Watched, flags
  <2>. QED  BY <2>3, <2>4
<1>4. CASE ~Writes(op[p], _read)
  <2>1. pc'[p] = "called" /\ ret'[p] = Result(op[p], _read, now)
    BY <1>4 DEF Read, IInv, Shape
  <2>2. Guarded(p)'
    BY <1>1, <1>2, <2>1 DEF Guarded
  <2>3. ASSUME clean' PROVE clean /\ _read = Db
    <3>1. clean /\ file # Broken
      BY <2>3 DEF Read, IInv, Shape
    <3>2. \A q \in Procs : ~Writing(q)
      BY <3>1 DEF IInv, OneWriter
    <3>. QED  BY <3>1, <3>2, DbIs DEF _read
  <2>4. ASSUME clean', Looks(p), p \in late
        PROVE  ret'[p] = None \/ ret'[p].disabled = TRUE
    <3>1. op[p].kind = "get" /\ op[p].name = req[p].name /\ req[p].name \in blocked
      BY <1>1, <1>2, <2>4 DEF Faithful, Watched
    <3>2. ret'[p] = get(Db, req[p].name)
      BY <2>1, <2>3, <2>4, <3>1 DEF Result
    <3>. QED  BY <2>3, <2>4, <3>1, <3>2 DEF get, Blocking, Flagged
  <2>5. Watched(p)'
    BY <1>1, <1>2, <2>1, <2>4, CleanFalls DEF Watched, flags
  <2>. QED  BY <2>2, <2>5
<1>. QED  BY <1>3, <1>4

\* A process that writes is neither looking nor in a late login.
LEMMA WriterGuarded ==
  ASSUME IInv, IInv', Blocking, [Next]_vars, NEW p \in Procs, Truncate(p) \/ Write(p)
  PROVE  Guarded(p)' /\ Watched(p)'
<1>1. /\ req'[p] = req[p] /\ pc[p] \in {"truncate", "write"} /\ pc'[p] \in {"write", "called"}
      /\ Looks(p)' = Looks(p)
  BY DEF Truncate, Write, IInv, Shape, Looks
<1>2. Guarded(p) /\ Watched(p) /\ Recorded(req[p])' = Recorded(req[p]) /\ ~Looks(p)
  BY <1>1 DEF Blocking, Recorded, Guarded
<1>3. Guarded(p)'
  BY <1>1, <1>2 DEF Guarded
<1>4. Watched(p)'
  BY <1>1, <1>2, LateStays, CleanFalls DEF Watched
<1>. QED  BY <1>3, <1>4

\* A second call is made of what the first returned: not in a late login.
LEMMA SecondGuarded ==
  ASSUME IInv, IInv', Blocking, [Next]_vars, NEW p \in Procs, Second(p)
  PROVE  Guarded(p)' /\ Watched(p)'
<1>. DEFINE new == Assign(req[p], [second |-> TRUE])
<1>1. /\ pc[p] = "called" /\ pc'[p] = "read" /\ ~req[p].second
      /\ req'[p] = new /\ op'[p] = SecondCall(req[p], ret[p]) /\ UNCHANGED <<flags, clean>>
      /\ SecondCall(req[p], ret[p]) # None
  BY DEF Second, history, IInv, Shape
<1>2. Guarded(p) /\ Watched(p) /\ Recorded(req[p])
  BY <1>1 DEF Blocking, Guarded
<1>3. /\ DOMAIN new = DOMAIN req[p]
      /\ new.kind = req[p].kind /\ new.name = req[p].name /\ new.second
      /\ "fields" \in DOMAIN req[p] => new.fields = req[p].fields
  <2>1. DOMAIN req[p] \cup {"second"} = DOMAIN req[p] /\ {"kind", "name"} \subseteq DOMAIN req[p]
    BY <1>2 DEF Recorded
  <2>2. /\ DOMAIN new = DOMAIN req[p] \cup {"second"}
        /\ new.second = TRUE /\ new.kind = req[p].kind /\ new.name = req[p].name
        /\ "fields" \in DOMAIN req[p] => new.fields = req[p].fields
    BY <2>1 DEF Assign
  <2>. QED  BY <2>1, <2>2
<1> HIDE DEF new
<1>4. Recorded(req[p])' /\ ~Looks(p)'
  BY <1>1, <1>2, <1>3 DEF Recorded, Looks, Changing
<1>5. CASE req[p].kind = "login" /\ Admits(req[p], ret[p])
  <2>1. op'[p] = Call("patch", req[p].name, [lastLoginAt |-> now])
    BY <1>1, <1>5 DEF SecondCall, touchLogin
  <2>2. ~Carries(p)'
    BY <1>1, <1>3, <1>5 DEF Carries
  <2>3. Faithful(p)'
    BY <1>4, <2>1, <2>2 DEF Faithful, Call
  <2>4. clean => p \notin late
    BY <1>1, <1>2, <1>5 DEF Watched, Looks, Admits
  <2>5. Watched(p)'
    BY <1>1, <1>2, <1>3, <2>4 DEF Watched, flags
  <2>. QED  BY <1>1, <1>4, <2>3, <2>5 DEF Guarded
<1>6. CASE req[p].kind = "update"
  <2>1. op'[p] = Call("patch", req[p].name, req[p].fields)
    BY <1>1, <1>6 DEF SecondCall
  <2>2. "fields" \in DOMAIN req[p] /\ Carries(p)'
    BY <1>1, <1>2, <1>3, <1>6 DEF Recorded, Changing, Carries
  <2>3. Faithful(p)'
    BY <1>1, <1>3, <1>4, <2>1, <2>2 DEF Faithful, Call
  <2>4. Watched(p)'
    BY <1>1, <1>2, <1>3, <1>6 DEF Watched, flags
  <2>. QED  BY <1>1, <1>4, <2>3, <2>4 DEF Guarded
<1>. QED  BY <1>1, <1>5, <1>6 DEF SecondCall

\* A process at rest promises nothing.
LEMMA EndGuarded ==
  ASSUME IInv, NEW p \in Procs, Answer(p) \/ Die(p)
  PROVE  Guarded(p)' /\ Watched(p)'
<1>1. pc'[p] = "idle"
  BY DEF Answer, Die, IInv, Shape
<1>. QED  BY <1>1 DEF Guarded, Watched

\* A late login is not answered with a success.
LEMMA AnswerTrue ==
  ASSUME IInv, Blocking, NEW p \in Procs, Answer(p)
  PROVE  Blocks'
<1>. DEFINE r == req[p]
            ok == Succeeds(r, ret[p])
<1>1. /\ pc[p] = "called" /\ UNCHANGED clean
      /\ answer' = [answer EXCEPT ![p] = [kind |-> r.kind, name |-> r.name, late |-> p \in late, ok |-> ok]]
  BY DEF Answer
<1>2. ASSUME clean', ok, r.kind = "login" PROVE p \notin late
  <2>1. r.second
    BY <1>2 DEF Succeeds
  <2>. QED  BY <1>1, <1>2, <2>1 DEF Blocking, Watched
<1> HIDE DEF ok
<1>3. /\ answer'[p].kind = r.kind /\ answer'[p].late = (p \in late) /\ answer'[p].ok = ok
      /\ \A q \in Procs : q # p => answer'[q] = answer[q]
  BY <1>1 DEF IInv, Shape
<1>. QED  BY <1>1, <1>2, <1>3 DEF Blocking, Blocks

\* Every step keeps the invariant.
LEMMA BlockingKept ==
  ASSUME IInv, IInv', Blocking, [Next]_vars
  PROVE  Blocking'
<1>1. CASE \E p \in Procs : Answer(p)
  BY <1>1, AnswerTrue, FlaggedKept, EndGuarded, Standing DEF Blocking, Answer, IInv, Shape
<1>2. CASE ~\E p \in Procs : Answer(p)
  <2>1. UNCHANGED answer /\ (clean' => clean)
    BY <1>2, CleanFalls DEF Next, vars, Tick, Request, Read, Truncate, Write, Second, Die, history
  <2>2. Flagged' /\ Blocks'
    BY <2>1, FlaggedKept DEF Blocking, Blocks
  <2>3. CASE UNCHANGED vars \/ Tick
    BY <2>2, <2>3, Standing DEF vars, Tick, Blocking
  <2>4. ASSUME NEW p \in Procs, Request(p) PROVE Blocking'
    BY <2>2, <2>4, RequestGuarded, Standing DEF Request, Blocking, IInv, Shape
  <2>5. ASSUME NEW p \in Procs, Read(p) PROVE Blocking'
    BY <2>2, <2>5, ReadGuarded, Standing DEF Read, Blocking, IInv, Shape
  <2>6. ASSUME NEW p \in Procs, Truncate(p) \/ Write(p) PROVE Blocking'
    BY <2>2, <2>6, WriterGuarded, Standing DEF Truncate, Write, Blocking, IInv, Shape
  <2>7. ASSUME NEW p \in Procs, Second(p) PROVE Blocking'
    BY <2>2, <2>7, SecondGuarded, Standing DEF Second, Blocking, IInv, Shape
  <2>8. ASSUME NEW p \in Procs, Die(p) PROVE Blocking'
    BY <2>2, <2>8, EndGuarded, Standing DEF Die, Blocking, IInv, Shape
  <2>. QED  BY <1>2, <2>3, <2>4, <2>5, <2>6, <2>7, <2>8 DEF Next
<1>. QED  BY <1>1, <1>2

\* A login is refused if its account was disabled from its start to its answer, as
\* long as the store acts as one: whatever is asked between its look and its
\* touchLogin (server.js /user/login), no login undoes a disabling, and nor does an
\* enabling or a further add that came before the disabling.
THEOREM DisabledBlocks == Spec => []Blocks
<1>1. Init => Blocking
  <2>1. Init => Flagged
    BY FirstAssumption DEF Init, Flagged, Db, Writing
  <2>. QED  BY <2>1 DEF Init, Blocking, Blocks, Guarded, Watched
<1>2. IInv /\ IInv' /\ Blocking /\ [Next]_vars => Blocking'
  BY BlockingKept
<1>3. Blocking => Blocks
  BY DEF Blocking
<1>. QED  BY <1>1, <1>2, <1>3, Invariance, PTL DEF Spec
=============================================================================
