-------------------------- MODULE RtmpServer_proofs --------------------------
(***************************************************************************)
(* Proofs about RtmpServer, for any number of threads, blocks, decoders,   *)
(* listeners and retries:                                                  *)
(*   TypeCorrect       the type invariant, with and without overlap        *)
(*   ServerIsOpen      g_tcpServer is nil, listening, or being destroyed,  *)
(*                     likewise                                            *)
(*   LifeCycle         the phase invariant, when switches do not overlap,  *)
(*   and from it OffIsQuiet, OffIsSilent, NeverCancelled                   *)
(*   NoFreedDecoder    no call through a released decoder, when moreover   *)
(*                     publishers never fall silent during sleep(1)        *)
(*   OneThread         when moreover accept() fails on closed listeners    *)
(*                     only: one thread on one socket, and from it         *)
(*                     OneAtATime and OkServes                             *)
(*                                                                         *)
(* The type invariant is proved in two halves: the Boolean flags, which    *)
(* Zenon handles, and the labels and values, which the SMT solver handles. *)
(***************************************************************************)
EXTENDS RtmpServer, TLAPS

Flags == /\ userWantsRunning \in BOOLEAN /\ deliversFrames \in BOOLEAN
         /\ watchdog \in BOOLEAN /\ intent \in BOOLEAN
         /\ vtSession \in BOOLEAN /\ saved \in BOOLEAN
Labels == /\ pc \in [Actors -> ThreadPC \cup JobPC \cup IpcPC \cup DogPC]
          /\ \A t \in Threads : pc[t] \in ThreadPC
          /\ \A j \in Jobs : pc[j] \in JobPC
          /\ pc[Ipc] \in IpcPC /\ pc[Dog] \in DogPC
Values ==
  /\ ref \in [Actors -> Decoders \cup {None}]
  /\ count \in [Actors -> Nat]
  /\ rtmpThread \in Threads \cup {None} /\ cancelled \subseteq Threads
  /\ tcpServer \in Listeners \cup {None}
  /\ allocated \subseteq Listeners /\ open \subseteq allocated /\ pending \subseteq open
  /\ lsn \in [Threads -> Listeners \cup {None}] /\ headed \subseteq Threads
  /\ decoder \in Decoders \cup {None}
  /\ report \in {"none", "ok", "fail"}
  /\ switches \in 0..MaxSwitches
  /\ fault \in {"none", "nullServer", "freedServer", "freedDecoder"}

\* The two halves and the switch count make up the type invariant.
LEMMA Halves == TypeOK <=> Flags /\ Labels /\ Values
  BY Zenon DEF TypeOK, Flags, Labels, Values

-----------------------------------------------------------------------------
(* What the shared operators leave alone.                                  *)

\* Closing a VT session keeps the decoder object and its parameter sets.
LEMMA EndDecodeKeeps == ASSUME NEW a, EndDecode(a) PROVE UNCHANGED <<decoder, saved>>
  BY DEF EndDecode

\* Opening a VT session keeps the decoder object.
LEMMA InitKeeps == ASSUME InitSession PROVE UNCHANGED decoder
  BY DEF InitSession

\* A new TCPServer is one of the listeners and open.
LEMMA BindTyped ==
  ASSUME Values, Bind
  PROVE  /\ tcpServer' \in Listeners \cup {None}
         /\ allocated' \subseteq Listeners /\ open' \subseteq allocated'
         /\ pending' \subseteq open'
  BY DEF Values, Bind

-----------------------------------------------------------------------------
(* The type invariant, the flags.                                         *)

\* Initially the flags are Boolean.
LEMMA InitFlags == Init => Flags
  BY Zenon DEF Init, Flags

\* The flags stay Boolean: the user and the IPC thread.
LEMMA IpcKeepsFlags == ASSUME Flags, UserStep \/ IpcWork PROVE Flags'
<1> USE Zenon DEF Flags, locals, run, life, net, streams, media, user, control, world
<1>1. CASE LiveOn
  BY <1>1 DEF LiveOn, Pause
<1>2. CASE LiveOff
  BY <1>2 DEF LiveOff
<1>3. CASE FaceSwitch
  BY <1>3 DEF FaceSwitch, Pause
<1>4. CASE FaceEndDecode
  BY <1>4 DEF FaceEndDecode, EndDecode, Crash
<1>5. CASE OnEndDecode
  BY <1>5 DEF OnEndDecode, EndDecode, Crash
<1>6. CASE OnCheck
  BY <1>6 DEF OnCheck, OnBound
<1>7. CASE OnNew
  BY <1>7 DEF OnNew, OnBound
<1> QED
  BY <1>1, <1>2, <1>3, <1>4, <1>5, <1>6, <1>7 DEF UserStep, IpcWork

\* The flags stay Boolean: startServerLoop.
LEMMA StartKeepsFlags == ASSUME Flags, NEW j \in Jobs, StartJob(j) PROVE Flags'
<1> USE Zenon DEF Flags, locals, run, life, net, streams, media, user, control, world
<1>1. CASE StartTest(j) \/ StartRead(j)
  BY <1>1 DEF StartTest, StartRead
<1>2. CASE StartCreate(j)
  BY <1>2 DEF StartCreate
<1>3. CASE StartReinit(j)
  BY <1>3 DEF StartReinit, Crash, InitSession
<1>4. CASE StartDeliver(j)
  BY <1>4 DEF StartDeliver
<1>5. CASE StartCheck(j)
  BY <1>5 DEF StartCheck
<1>6. CASE StartNew(j)
  BY <1>6 DEF StartNew
<1>7. CASE StartThread(j)
  BY <1>7 DEF StartThread
<1>8. CASE StartWants(j)
  BY <1>8 DEF StartWants
<1>9. CASE StartSpawn(j)
  BY <1>9 DEF StartSpawn, Spawn
<1>10. CASE StartArm(j)
  BY <1>10 DEF StartArm
<1> QED
  BY <1>1, <1>2, <1>3, <1>4, <1>5, <1>6, <1>7, <1>8, <1>9, <1>10 DEF StartJob

\* The flags stay Boolean: stopServer.
LEMMA StopKeepsFlags == ASSUME Flags, NEW j \in Jobs, StopJob(j) PROVE Flags'
<1> USE Zenon DEF Flags, locals, run, life, net, streams, media, user, control, world
<1>1. CASE StopFlags(j) \/ StopDelivery(j)
  BY <1>1 DEF StopFlags, StopDelivery
<1>2. CASE StopDog(j)
  BY <1>2 DEF StopDog
<1>3. CASE StopDestroy(j)
  BY <1>3 DEF StopDestroy, DestroyTest, DestroyClose, DestroyDelete, DestroyNull, Crash
<1>4. CASE StopSleep(j)
  BY <1>4 DEF StopSleep
<1>5. CASE StopThread(j)
  BY <1>5 DEF StopThread
<1>6. CASE StopEndDecode(j)
  BY <1>6 DEF StopEndDecode, EndDecode, Crash
<1>7. CASE StopRelease(j)
  BY <1>7 DEF StopRelease
<1> QED
  BY <1>1, <1>2, <1>3, <1>4, <1>5, <1>6, <1>7 DEF StopJob

\* The flags stay Boolean: the watchdog.
LEMMA DogKeepsFlags == ASSUME Flags, DogStep PROVE Flags'
<1> USE Zenon DEF Flags, locals, run, life, net, streams, media, user, control, world
<1>1. CASE DogTick
  BY <1>1 DEF DogTick
<1>2. CASE DogCheck
  BY <1>2 DEF DogCheck
<1>3. CASE DogNew
  BY <1>3 DEF DogNew
<1>4. CASE DogSpawn
  BY <1>4 DEF DogSpawn, Spawn
<1> QED
  BY <1>1, <1>2, <1>3, <1>4 DEF DogStep

\* The flags stay Boolean: a handleRTMP thread.
LEMMA ThreadKeepsFlags == ASSUME Flags, NEW t \in Threads, ThreadStep(t) PROVE Flags'
<1> USE Zenon DEF Flags, locals, run, life, net, streams, media, user, control, world
<1>1. CASE Top(t)
  BY <1>1 DEF Top
<1>2. CASE Check(t)
  BY <1>2 DEF Check
<1>3. CASE New(t)
  BY <1>3 DEF New
<1>4. CASE Loop(t)
  BY <1>4 DEF Loop
<1>5. CASE Accept(t)
  BY <1>5 DEF Accept, Crash
<1>6. CASE Rebuild(t)
  BY <1>6 DEF Rebuild, DestroyTest, DestroyClose, DestroyDelete, DestroyNull, Crash
<1>7. CASE Session(t)
  BY <1>7 DEF Session
<1>8. CASE Refresh(t)
  BY <1>8 DEF Refresh
<1>9. CASE InitDecoder(t)
  BY <1>9 DEF InitDecoder, Crash, InitSession
<1>10. CASE Decode(t)
  <2>1. vtSession' \in BOOLEAN
    BY <1>10 DEF Decode, Crash
  <2>2. UNCHANGED <<userWantsRunning, deliversFrames, watchdog, intent, saved>>
    BY <1>10 DEF Decode, Crash
  <2> QED
    BY <2>1, <2>2
<1>11. CASE Output(t)
  BY <1>11 DEF Output
<1>12. CASE Deliver(t)
  BY <1>12 DEF Deliver
<1>13. CASE Exit(t)
  BY <1>13 DEF Exit
<1> QED
  BY <1>1, <1>2, <1>3, <1>4, <1>5, <1>6, <1>7, <1>8, <1>9, <1>10, <1>11, <1>12, <1>13 DEF ThreadStep

\* The flags stay Boolean: the network.
LEMMA NetKeepsFlags == ASSUME Flags, NEW t \in Threads, NetStep(t) PROVE Flags'
<1> USE Zenon DEF Flags, locals, run, life, net, streams, media, user, control, world
<1>1. CASE Accepted(t)
  BY <1>1 DEF Accepted
<1>2. CASE AcceptFails(t)
  BY <1>2 DEF AcceptFails
<1>3. CASE Handshake(t)
  BY <1>3 DEF Handshake
<1>4. CASE RecvHeader(t)
  BY <1>4 DEF RecvHeader
<1>5. CASE RecvFrame(t)
  BY <1>5 DEF RecvFrame
<1>6. CASE RecvError(t)
  BY <1>6 DEF RecvError
<1> QED
  BY <1>1, <1>2, <1>3, <1>4, <1>5, <1>6 DEF NetStep

-----------------------------------------------------------------------------
(* The type invariant, labels and values.                                 *)

\* Initially labels and values have their types.
LEMMA InitTypes == Init => Labels /\ Values
  BY SlotsAssumption, BoundsAssumption
  DEF Init, Labels, Values, pcInit, refInit, lsnInit, countInit, Actors, ThreadPC, JobPC,
      IpcPC, DogPC

\* Labels and values keep their types: the user and the IPC thread.
LEMMA IpcKeepsTypes == ASSUME Labels, Values, UserStep \/ IpcWork PROVE Labels' /\ Values'
<1> USE SlotsAssumption, BoundsAssumption
    DEF Labels, Values, Actors, ThreadPC, JobPC, IpcPC, DogPC, Goto, At, locals, run, life,
        net, streams, media, user, control, world
<1>1. CASE LiveOn \/ FaceSwitch
  BY <1>1 DEF LiveOn, FaceSwitch, Pause, Switch, MaySwitch, Free
<1>2. CASE LiveOff
  BY <1>2 DEF LiveOff, Switch, MaySwitch, Free, Dispatch
<1>3. CASE FaceEndDecode
  BY <1>3, EndDecodeKeeps DEF FaceEndDecode, Crash
<1>4. CASE OnEndDecode
  BY <1>4, EndDecodeKeeps DEF OnEndDecode, Crash
<1>5. CASE OnCheck
  <2>1. CASE tcpServer = None
    BY <1>5, <2>1 DEF OnCheck
  <2>2. CASE tcpServer # None
    BY <1>5, <2>2 DEF OnCheck, OnBound, Dispatch, Free
  <2> QED
    BY <2>1, <2>2
<1>6. CASE OnNew
  <2>1. CASE Bind /\ OnBound /\ UNCHANGED count
    <3>1. PICK j \in Jobs : Dispatch(j, "start")
      BY <2>1 DEF OnBound
    <3> QED
      BY <1>6, <2>1, <3>1, BindTyped DEF OnNew, OnBound, Dispatch
  <2>2. CASE /\ count' = [count EXCEPT ![Ipc] = @ + 1] /\ Goto(Ipc, "onCheck")
             /\ UNCHANGED <<net, user>>
    BY <1>6, <2>2 DEF OnNew
  <2>3. CASE /\ report' = "fail" /\ Goto(Ipc, "idle")
                /\ UNCHANGED <<net, count, intent, switches>>
    BY <1>6, <2>3 DEF OnNew
  <2> QED
    BY Zenon, <1>6, <2>1, <2>2, <2>3 DEF OnNew
<1>7. QED
  BY <1>1, <1>2, <1>3, <1>4, <1>5, <1>6 DEF UserStep, IpcWork

\* Labels and values keep their types: startServerLoop.
LEMMA StartKeepsTypes == ASSUME Labels, Values, NEW j \in Jobs, StartJob(j) PROVE Labels' /\ Values'
<1> USE SlotsAssumption, BoundsAssumption
    DEF Labels, Values, Actors, ThreadPC, JobPC, IpcPC, DogPC, Goto, At, locals, run, life,
        net, streams, media, user, control, world
<1>1. CASE StartTest(j) \/ StartRead(j)
  BY <1>1 DEF StartTest, StartRead
<1>2. CASE StartCreate(j)
  BY <1>2 DEF StartCreate
<1>3. CASE StartReinit(j)
  BY <1>3, InitKeeps DEF StartReinit, Crash
<1>4. CASE StartDeliver(j)
  BY <1>4 DEF StartDeliver
<1>5. CASE StartCheck(j)
  BY <1>5 DEF StartCheck, CheckServer
<1>6. CASE StartNew(j)
  BY <1>6, BindTyped DEF StartNew
<1>7. CASE StartThread(j)
  BY <1>7 DEF StartThread
<1>8. CASE StartWants(j)
  BY <1>8 DEF StartWants
<1>9. CASE StartSpawn(j)
  BY <1>9 DEF StartSpawn, Spawn, Running
<1>10. CASE StartArm(j)
  BY <1>10 DEF StartArm
<1> QED
  BY <1>1, <1>2, <1>3, <1>4, <1>5, <1>6, <1>7, <1>8, <1>9, <1>10 DEF StartJob

\* Labels and values keep their types: stopServer.
LEMMA StopKeepsTypes == ASSUME Labels, Values, NEW j \in Jobs, StopJob(j) PROVE Labels' /\ Values'
<1> USE SlotsAssumption, BoundsAssumption
    DEF Labels, Values, Actors, ThreadPC, JobPC, IpcPC, DogPC, Goto, At, locals, run, life,
        net, streams, media, user, control, world
<1>1. CASE StopFlags(j) \/ StopDelivery(j)
  BY <1>1 DEF StopFlags, StopDelivery
<1>2. CASE StopDog(j)
  BY <1>2 DEF StopDog
<1>3. CASE StopDestroy(j)
  BY <1>3 DEF StopDestroy, DestroyTest, DestroyClose, DestroyDelete, DestroyNull, Shutdown, Crash
<1>4. CASE StopSleep(j)
  BY <1>4 DEF StopSleep
<1>5. CASE StopThread(j)
  BY <1>5 DEF StopThread
<1>6. CASE StopEndDecode(j)
  BY <1>6, EndDecodeKeeps DEF StopEndDecode, Crash
<1>7. CASE StopRelease(j)
  BY <1>7 DEF StopRelease
<1> QED
  BY <1>1, <1>2, <1>3, <1>4, <1>5, <1>6, <1>7 DEF StopJob

\* Labels and values keep their types: the watchdog.
LEMMA DogKeepsTypes == ASSUME Labels, Values, DogStep PROVE Labels' /\ Values'
<1> USE SlotsAssumption, BoundsAssumption
    DEF Labels, Values, Actors, ThreadPC, JobPC, IpcPC, DogPC, Goto, At, locals, run, life,
        net, streams, media, user, control, world
<1>1. CASE DogTick
  BY <1>1 DEF DogTick
<1>2. CASE DogCheck
  BY <1>2 DEF DogCheck, CheckServer
<1>3. CASE DogNew
  BY <1>3, BindTyped DEF DogNew
<1>4. CASE DogSpawn
  BY <1>4 DEF DogSpawn, Spawn, Running
<1> QED
  BY <1>1, <1>2, <1>3, <1>4 DEF DogStep

\* Labels and values keep their types: a handleRTMP thread.
LEMMA ThreadKeepsTypes == ASSUME Labels, Values, NEW t \in Threads, ThreadStep(t) PROVE Labels' /\ Values'
<1> USE SlotsAssumption, BoundsAssumption
    DEF Labels, Values, Actors, ThreadPC, JobPC, IpcPC, DogPC, Goto, At, locals, run, life,
        net, streams, media, user, control, world
<1>1. CASE Top(t)
  BY <1>1 DEF Top
<1>2. CASE Check(t)
  BY <1>2 DEF Check, CheckServer
<1>3. CASE New(t)
  BY <1>3, BindTyped DEF New
<1>4. CASE Loop(t)
  BY <1>4 DEF Loop
<1>5. CASE Accept(t)
  BY <1>5 DEF Accept, Crash
<1>6. CASE Rebuild(t)
  BY <1>6 DEF Rebuild, DestroyTest, DestroyClose, DestroyDelete, DestroyNull, Shutdown, Crash
<1>7. CASE Session(t)
  BY <1>7 DEF Session, Close
<1>8. CASE Refresh(t)
  BY <1>8 DEF Refresh
<1>9. CASE InitDecoder(t)
  BY <1>9, InitKeeps DEF InitDecoder, Crash, InitSession
<1>10. CASE Decode(t)
  <2>1. CASE Dangling(t)
    BY <1>10, <2>1 DEF Decode, Crash
  <2>2. CASE ~Dangling(t)
    <3>1. \E l \in {"output", "session"} : Goto(t, l)
      BY Zenon, <1>10, <2>2 DEF Decode
    <3>2. /\ ref' = [ref EXCEPT ![t] = None]
          /\ UNCHANGED <<count, control, net, streams, decoder, saved, user, fault>>
      BY Zenon, <1>10, <2>2 DEF Decode
    <3> QED
      BY <3>1, <3>2
  <2> QED
    BY <2>1, <2>2
<1>11. CASE Output(t)
  BY <1>11 DEF Output
<1>12. CASE Deliver(t)
  BY <1>12 DEF Deliver
<1>13. CASE Exit(t)
  BY <1>13 DEF Exit
<1> QED
  BY <1>1, <1>2, <1>3, <1>4, <1>5, <1>6, <1>7, <1>8, <1>9, <1>10, <1>11, <1>12, <1>13 DEF ThreadStep

\* Labels and values keep their types: the network.
LEMMA NetKeepsTypes == ASSUME Labels, Values, NEW t \in Threads, NetStep(t) PROVE Labels' /\ Values'
<1> USE SlotsAssumption, BoundsAssumption
    DEF Labels, Values, Actors, ThreadPC, JobPC, IpcPC, DogPC, Goto, At, locals, run, life,
        net, streams, media, user, control, world
<1>1. CASE Accepted(t)
  BY <1>1 DEF Accepted
<1>2. CASE AcceptFails(t)
  BY <1>2 DEF AcceptFails
<1>3. CASE Handshake(t)
  BY <1>3 DEF Handshake
<1>4. CASE RecvHeader(t)
  BY <1>4 DEF RecvHeader
<1>5. CASE RecvFrame(t)
  BY <1>5 DEF RecvFrame
<1>6. CASE RecvError(t)
  BY <1>6 DEF RecvError, Close
<1> QED
  BY <1>1, <1>2, <1>3, <1>4, <1>5, <1>6 DEF NetStep

\* A client queues up, a relaunch starts from the initial values.
LEMMA OutsideKeeps ==
  ASSUME Flags, Labels, Values, Relaunch \/ \E l \in Listeners : Connect(l)
  PROVE  Flags' /\ Labels' /\ Values'
<1> USE DEF locals, run, life, net, streams, media, user, control, world
<1>1. Flags'
  BY Zenon DEF Flags, Relaunch, Connect
<1>2. CASE Relaunch
  BY <1>1, <1>2, SlotsAssumption, BoundsAssumption
  DEF Relaunch, Labels, Values, pcInit, refInit, lsnInit, countInit, Actors, ThreadPC, JobPC,
      IpcPC, DogPC
<1>3. CASE \E l \in Listeners : Connect(l)
  BY <1>1, <1>3 DEF Connect, Labels, Values
<1> QED
  BY <1>2, <1>3

\* Every variable always has its type (RTMPServer.m, RTMPServerCXX.mm, the bridge):
\* no thread, block or handler ever runs off the path its code lays out.
THEOREM TypeCorrect == Spec => []TypeOK
<1>1. Init => TypeOK
  BY InitFlags, InitTypes, Halves
<1>2. ASSUME TypeOK, [Next]_vars PROVE TypeOK'
  <2>1. Flags /\ Labels /\ Values
    BY <1>2, Halves
  <2>2. Flags' /\ Labels' /\ Values'
    <3>1. CASE UserStep \/ IpcWork
      BY <2>1, <3>1, IpcKeepsFlags, IpcKeepsTypes
    <3>2. CASE DogStep
      BY <2>1, <3>2, DogKeepsFlags, DogKeepsTypes
    <3>3. CASE Relaunch \/ \E l \in Listeners : Connect(l)
      BY <2>1, <3>3, OutsideKeeps
    <3>4. CASE \E j \in Jobs : StartJob(j) \/ StopJob(j)
      BY <2>1, <3>4, StartKeepsFlags, StartKeepsTypes, StopKeepsFlags, StopKeepsTypes
    <3>5. CASE \E t \in Threads : ThreadStep(t) \/ NetStep(t)
      BY <2>1, <3>5, ThreadKeepsFlags, ThreadKeepsTypes, NetKeepsFlags, NetKeepsTypes
    <3>6. CASE UNCHANGED vars
      <4> USE DEF vars, locals, world, run, life, net, streams, media, user, control
      <4>1. Flags'
        BY Zenon, <2>1, <3>6 DEF Flags
      <4>2. Labels' /\ Values'
        BY <2>1, <3>6 DEF Labels, Values
      <4> QED
        BY <4>1, <4>2
    <3> QED
      BY <1>2, <3>1, <3>2, <3>3, <3>4, <3>5, <3>6 DEF Next
  <2> QED
    BY Zenon, <2>2, Halves DEF TypeOK, Flags, Labels, Values
<1> QED
  BY <1>1, <1>2, PTL DEF Spec

-----------------------------------------------------------------------------
(* The life cycle when switches do not overlap.                            *)

Kept == UNCHANGED <<userWantsRunning, deliversFrames, rtmpThread, cancelled, watchdog,
                    decoder, intent, report>>
\* A step that keeps the shared fields, the phases of the other actors, a live
\* thread and silence keeps the phase invariant.
LEMMA Unseen ==
  ASSUME Phases, Kept, \A a \in Jobs \cup {Ipc, Dog} : pc'[a] = pc[a],
         userWantsRunning /\ Alive => Alive', Silent => Silent'
  PROVE  Phases'
<1>1. /\ OneBlock' /\ Unbound' /\ pc'[Dog] = "idle"
      /\ pc'[Ipc] \in {"onCheck", "onNew"} => intent'
  BY DEF Phases, Kept, OneBlock, Unbound, Free
<1>2. Rest => Rest'
  BY DEF Kept, Rest
<1>3. (\A j \in Jobs : Free(j)') => Rest'
  BY <1>2 DEF Phases, Free
<1>4. ASSUME NEW j \in Jobs PROVE Starting(j)' /\ Stopping(j)'
  BY <1>2 DEF Phases, Kept, Starting, Stopping, Closing, Ending
<1> QED
  BY <1>1, <1>3, <1>4 DEF Phases, Free

\* A step of the one busy block keeps it if the block's own phase facts hold after.
LEMMA OneStep ==
  ASSUME Phases, NEW j \in Jobs, ~Free(j), UNCHANGED report,
         \A a \in Jobs \cup {Ipc, Dog} : a # j => pc'[a] = pc[a],
         Free(j)' => Rest', Starting(j)', Stopping(j)'
  PROVE  Phases'
<1>1. \A k \in Jobs : k # j => pc[k] = "free" /\ pc'[k] = "free"
  BY DEF Phases, OneBlock, Free
<1>2. pc[Ipc] = "idle" /\ pc'[Ipc] = "idle" /\ pc'[Dog] = "idle"
  BY SlotsAssumption DEF Phases, OneBlock, Free, Actors
<1>3. OneBlock' /\ Unbound'
  BY <1>1, <1>2 DEF Phases, OneBlock, Unbound, Free
<1>4. (\A k \in Jobs : Free(k)') => Rest'
  OBVIOUS
<1>5. ASSUME NEW k \in Jobs PROVE Starting(k)' /\ Stopping(k)'
  BY <1>1 DEF Starting, Stopping, Closing, Ending
<1> QED
  BY <1>2, <1>3, <1>4, <1>5 DEF Phases, Free

\* handleRTMP threads and the network never disturb a phase.
LEMMA ThreadPhases ==
  ASSUME Labels, Values, Phases, NEW t \in Threads, ThreadStep(t) \/ NetStep(t)
  PROVE  Phases'
<1> USE DEF Kept, Goto, At, locals, run, life, net, streams, media, user, control, world
<1>1. Kept
  BY Zenon, EndDecodeKeeps, InitKeeps DEF ThreadStep, NetStep, Top, Check, New, Loop, Accept, Rebuild, Session,
     Refresh, InitDecoder, Decode, Output, Deliver, Exit, Accepted, AcceptFails, Handshake,
     RecvHeader, RecvFrame, RecvError, DestroyTest, DestroyClose, DestroyDelete, DestroyNull, Crash
<1>2. pc' = pc \/ \E l \in ThreadPC : pc' = [pc EXCEPT ![t] = l]
  BY DEF ThreadPC, ThreadStep, NetStep, Top, Check, New, Loop, Accept, Rebuild, Session,
     Refresh, InitDecoder, Decode, Output, Deliver, Exit, Accepted, AcceptFails, Handshake,
     RecvHeader, RecvFrame, RecvError, DestroyTest, DestroyClose, DestroyDelete, DestroyNull, Crash, CheckServer, Close
<1>3. userWantsRunning => pc[t] \in {"exit", "free", "finished"} \/ pc'[t] \notin {"exit", "free", "finished"}
  BY DEF Labels, Actors, ThreadStep, NetStep, Top, Check, New, Loop, Accept, Rebuild, Session,
     Refresh, InitDecoder, Decode, Output, Deliver, Exit, Accepted, AcceptFails, Handshake,
     RecvHeader, RecvFrame, RecvError, DestroyTest, DestroyClose, DestroyDelete, DestroyNull, Crash, CheckServer, Close
<1>4. pc'[t] = "deliver" => pc[t] = "deliver" \/ deliversFrames
  BY DEF Labels, Actors, ThreadStep, NetStep, Top, Check, New, Loop, Accept, Rebuild, Session,
     Refresh, InitDecoder, Decode, Output, Deliver, Exit, Accepted, AcceptFails, Handshake,
     RecvHeader, RecvFrame, RecvError, DestroyTest, DestroyClose, DestroyDelete, DestroyNull, Crash, CheckServer, Close
<1>5. \A a \in Jobs \cup {Ipc, Dog} : pc'[a] = pc[a]
  BY <1>2, SlotsAssumption DEF Actors, Labels
<1>6. userWantsRunning /\ Alive => Alive'
  BY <1>1, <1>2, <1>3 DEF Alive, Labels, Values, Actors
<1>7. Silent => Silent'
  BY <1>1, <1>2, <1>4 DEF Silent, Labels, Actors
<1> QED
  BY <1>1, <1>5, <1>6, <1>7, Unseen

\* A crash changes nothing but fault.
LEMMA CrashPhases == ASSUME Phases, NEW why, Crash(why) PROVE Phases'
<1>1. UNCHANGED pc /\ Kept
  BY Zenon DEF Crash, Kept, locals, control, run, life, media, user
<1>2. userWantsRunning /\ Alive => Alive'
  BY <1>1 DEF Kept, Alive
<1>3. Silent => Silent'
  BY <1>1 DEF Kept, Silent
<1> QED
  BY <1>1, <1>2, <1>3, Unseen

\* startServerLoop keeps the phase invariant, step by step.
LEMMA StartPhases ==
  ASSUME Labels, Values, Phases, NEW j \in Jobs, StartJob(j)
  PROVE  Phases'
<1> USE SlotsAssumption DEF Labels, Values, Actors, Goto, At, locals, run, life, net, streams,
       media, user, control, world
<1> DEFINE After == /\ ~Free(j) /\ UNCHANGED report /\ (Free(j)' => Rest')
                    /\ Starting(j)' /\ Stopping(j)'
<1>1. CASE StartTest(j)
  <2>1. After
    BY <1>1 DEF StartTest, Phases, Starting, Stopping, Closing, Ending, Rest, Alive, Silent, Free
  <2>2. \A a \in Jobs \cup {Ipc, Dog} : a # j => pc'[a] = pc[a]
    BY <1>1 DEF StartTest
  <2> QED
    BY <2>1, <2>2, OneStep
<1>2. CASE StartCreate(j)
  <2>1. After
    BY <1>2 DEF StartCreate, Phases, Starting, Stopping, Closing, Ending, Rest, Alive, Silent, Free
  <2>2. \A a \in Jobs \cup {Ipc, Dog} : a # j => pc'[a] = pc[a]
    BY <1>2 DEF StartCreate
  <2> QED
    BY <2>1, <2>2, OneStep
<1>3. CASE StartRead(j)
  <2>1. After
    BY <1>3 DEF StartRead, Phases, Starting, Stopping, Closing, Ending, Rest, Alive, Silent, Free
  <2>2. \A a \in Jobs \cup {Ipc, Dog} : a # j => pc'[a] = pc[a]
    BY <1>3 DEF StartRead
  <2> QED
    BY <2>1, <2>2, OneStep
<1>4. CASE StartReinit(j)
  <2>1. CASE Dangling(j)
    <3>1. Crash("freedDecoder")
      BY <1>4, <2>1 DEF StartReinit
    <3> QED
      BY <3>1, Zenon, CrashPhases
  <2>2. CASE ~Dangling(j)
    <3>1. /\ pc[j] = "startReinit" /\ UNCHANGED <<run, life, decoder, intent, report>>
          /\ Goto(j, "startDeliver")
      BY Zenon, <1>4, <2>2, InitKeeps DEF StartReinit
    <3>2. After
      BY <3>1 DEF Phases, Starting, Stopping, Closing, Ending, Rest, Alive, Silent, Free
    <3>3. \A a \in Jobs \cup {Ipc, Dog} : a # j => pc'[a] = pc[a]
      BY <3>1
    <3> QED
      BY <3>2, <3>3, OneStep
  <2> QED
    BY <2>1, <2>2
<1>5. CASE StartDeliver(j)
  <2>1. After
    BY <1>5 DEF StartDeliver, Phases, Starting, Stopping, Closing, Ending, Rest, Alive, Silent, Free
  <2>2. \A a \in Jobs \cup {Ipc, Dog} : a # j => pc'[a] = pc[a]
    BY <1>5 DEF StartDeliver
  <2> QED
    BY <2>1, <2>2, OneStep
<1>6. CASE StartCheck(j)
  <2>1. After
    BY <1>6 DEF StartCheck, CheckServer, Phases, Starting, Stopping, Closing, Ending, Rest, Alive, Silent, Free
  <2>2. \A a \in Jobs \cup {Ipc, Dog} : a # j => pc'[a] = pc[a]
    BY <1>6 DEF StartCheck, CheckServer
  <2> QED
    BY <2>1, <2>2, OneStep
<1>7. CASE StartNew(j)
  <2>1. After
    BY <1>7 DEF StartNew, Phases, Starting, Stopping, Closing, Ending, Rest, Alive, Silent, Free
  <2>2. \A a \in Jobs \cup {Ipc, Dog} : a # j => pc'[a] = pc[a]
    BY <1>7 DEF StartNew
  <2> QED
    BY <2>1, <2>2, OneStep
<1>8. CASE StartThread(j)
  <2>1. After
    BY <1>8 DEF StartThread, ThreadAlive, Running, Phases, Starting, Stopping, Closing, Ending, Rest, Alive, Silent, Free
  <2>2. \A a \in Jobs \cup {Ipc, Dog} : a # j => pc'[a] = pc[a]
    BY <1>8 DEF StartThread, ThreadAlive, Running
  <2> QED
    BY <2>1, <2>2, OneStep
<1>9. CASE StartWants(j)
  <2>1. After
    BY <1>9 DEF StartWants, Phases, Starting, Stopping, Closing, Ending, Rest, Alive, Silent, Free
  <2>2. \A a \in Jobs \cup {Ipc, Dog} : a # j => pc'[a] = pc[a]
    BY <1>9 DEF StartWants
  <2> QED
    BY <2>1, <2>2, OneStep
<1>10. CASE StartSpawn(j)
  <2>1. After
    BY <1>10 DEF StartSpawn, Spawn, Running, Phases, Starting, Stopping, Closing, Ending, Rest, Alive, Silent, Free
  <2>2. \A a \in Jobs \cup {Ipc, Dog} : a # j => pc'[a] = pc[a]
    BY <1>10 DEF StartSpawn, Spawn, Running
  <2> QED
    BY <2>1, <2>2, OneStep
<1>11. CASE StartArm(j)
  <2>1. After
    BY <1>11 DEF StartArm, Phases, Starting, Stopping, Closing, Ending, Rest, Alive, Silent, Free
  <2>2. \A a \in Jobs \cup {Ipc, Dog} : a # j => pc'[a] = pc[a]
    BY <1>11 DEF StartArm
  <2> QED
    BY <2>1, <2>2, OneStep
<1> QED
  BY <1>1, <1>2, <1>3, <1>4, <1>5, <1>6, <1>7, <1>8, <1>9, <1>10, <1>11 DEF StartJob

\* stopServer keeps the phase invariant, step by step.
LEMMA StopPhases ==
  ASSUME Labels, Values, Phases, NEW j \in Jobs, StopJob(j)
  PROVE  Phases'
<1> USE SlotsAssumption DEF Labels, Values, Actors, Goto, At, locals, run, life, net, streams,
       media, user, control, world
<1> DEFINE After == /\ ~Free(j) /\ UNCHANGED report /\ (Free(j)' => Rest')
                    /\ Starting(j)' /\ Stopping(j)'
<1>1. CASE StopFlags(j)
  <2>1. After
    BY <1>1 DEF StopFlags, Phases, Starting, Stopping, Closing, Ending, Rest, Alive, Silent, Free
  <2>2. \A a \in Jobs \cup {Ipc, Dog} : a # j => pc'[a] = pc[a]
    BY <1>1 DEF StopFlags
  <2> QED
    BY <2>1, <2>2, OneStep
<1>2. CASE StopDog(j)
  <2>1. After
    BY <1>2 DEF StopDog, Phases, Starting, Stopping, Closing, Ending, Rest, Alive, Silent, Free
  <2>2. \A a \in Jobs \cup {Ipc, Dog} : a # j => pc'[a] = pc[a]
    BY <1>2 DEF StopDog
  <2> QED
    BY <2>1, <2>2, OneStep
<1>3. CASE StopDestroy(j)
  <2>1. CASE \E why : Crash(why)
    BY <2>1, CrashPhases
  <2>2. CASE ~ \E why : Crash(why)
    <3>1. PICK l \in Closing : pc[j] \in Closing /\ Goto(j, l)
      BY <1>3, <2>2 DEF StopDestroy, DestroyTest, DestroyClose, DestroyDelete, DestroyNull, Closing
    <3>2. Kept
      BY Zenon, <1>3, <2>2 DEF StopDestroy, DestroyTest, DestroyClose, DestroyDelete, DestroyNull, Kept
    <3>3. After
      BY <3>1, <3>2 DEF Kept, Phases, Starting, Stopping, Closing, Ending, Rest, Alive, Silent, Free
    <3>4. \A a \in Jobs \cup {Ipc, Dog} : a # j => pc'[a] = pc[a]
      BY <3>1
    <3> QED
      BY <3>2, <3>3, <3>4, OneStep DEF Kept
  <2> QED
    BY <2>1, <2>2
<1>4. CASE StopSleep(j)
  <2>1. After
    BY <1>4 DEF StopSleep, SleptEnough, Running, Phases, Starting, Stopping, Closing, Ending, Rest, Alive, Silent, Free
  <2>2. \A a \in Jobs \cup {Ipc, Dog} : a # j => pc'[a] = pc[a]
    BY <1>4 DEF StopSleep, SleptEnough, Running
  <2> QED
    BY <2>1, <2>2, OneStep
<1>5. CASE StopThread(j)
  <2>1. After
    BY <1>5 DEF StopThread, Phases, Starting, Stopping, Closing, Ending, Rest, Alive, Silent, Free
  <2>2. \A a \in Jobs \cup {Ipc, Dog} : a # j => pc'[a] = pc[a]
    BY <1>5 DEF StopThread
  <2> QED
    BY <2>1, <2>2, OneStep
<1>6. CASE StopEndDecode(j)
  <2>1. CASE Dangling(j)
    <3>1. Crash("freedDecoder")
      BY <1>6, <2>1 DEF StopEndDecode
    <3> QED
      BY <3>1, Zenon, CrashPhases
  <2>2. CASE ~Dangling(j)
    <3>1. /\ pc[j] = "stopEndDecode" /\ UNCHANGED <<userWantsRunning, rtmpThread, cancelled, watchdog, intent, report>>
          /\ Goto(j, "stopRelease") /\ UNCHANGED <<deliversFrames, decoder>>
      BY Zenon, <1>6, <2>2, EndDecodeKeeps DEF StopEndDecode
    <3>2. After
      BY <3>1 DEF Phases, Starting, Stopping, Closing, Ending, Rest, Alive, Silent, Free
    <3>3. \A a \in Jobs \cup {Ipc, Dog} : a # j => pc'[a] = pc[a]
      BY <3>1
    <3> QED
      BY <3>2, <3>3, OneStep
  <2> QED
    BY <2>1, <2>2
<1>7. CASE StopRelease(j)
  <2>1. After
    BY <1>7 DEF StopRelease, Phases, Starting, Stopping, Closing, Ending, Rest, Alive, Silent, Free
  <2>2. \A a \in Jobs \cup {Ipc, Dog} : a # j => pc'[a] = pc[a]
    BY <1>7 DEF StopRelease
  <2> QED
    BY <2>1, <2>2, OneStep
<1>8. CASE StopDelivery(j)
  <2>1. After
    BY <1>8 DEF StopDelivery, Phases, Starting, Stopping, Closing, Ending, Rest, Alive, Silent, Free
  <2>2. \A a \in Jobs \cup {Ipc, Dog} : a # j => pc'[a] = pc[a]
    BY <1>8 DEF StopDelivery
  <2> QED
    BY <2>1, <2>2, OneStep
<1> QED
  BY <1>1, <1>2, <1>3, <1>4, <1>5, <1>6, <1>7, <1>8 DEF StopJob

\* While no block runs, an IPC step that stays out of the queue keeps the phase
\* invariant if what it leaves behind is at rest.
LEMMA IpcStep ==
  ASSUME Phases, \A j \in Jobs : Free(j),
         \A a \in Jobs \cup {Dog} : pc'[a] = pc[a],
         Rest', Unbound', pc'[Ipc] \in {"onCheck", "onNew"} => intent'
  PROVE  Phases'
<1>1. \A j \in Jobs : Free(j)'
  BY DEF Free
<1>2. OneBlock' /\ pc'[Dog] = "idle"
  BY <1>1 DEF Phases, OneBlock, Free
<1>3. \A j \in Jobs : Starting(j)' /\ Stopping(j)'
  BY <1>1 DEF Free, Starting, Stopping, Closing, Ending
<1> QED
  BY <1>2, <1>3 DEF Phases

\* Dispatching a block while none runs keeps it if the block's entry facts hold.
LEMMA DispatchStep ==
  ASSUME Labels, Phases, \A j \in Jobs : Free(j),
         NEW j \in Jobs, NEW label \in JobPC \ {"free"}, Dispatch(j, label),
         Starting(j)', Stopping(j)', report' # "none"
  PROVE  Phases'
<1>1. \A k \in Jobs : k # j => pc'[k] = "free"
  BY SlotsAssumption DEF Dispatch, Free, Labels, Actors
<1>2. pc'[j] = label /\ label # "free" /\ pc'[Ipc] = "idle" /\ pc'[Dog] = "idle"
  BY SlotsAssumption DEF Dispatch, Free, Labels, Actors, Phases
<1>3. OneBlock' /\ Unbound'
  BY <1>1, <1>2 DEF OneBlock, Unbound, Free
<1>4. \A k \in Jobs : Starting(k)' /\ Stopping(k)'
  BY <1>1 DEF Starting, Stopping, Closing, Ending
<1>5. ~ \A k \in Jobs : Free(k)'
  BY <1>2 DEF Free
<1> QED
  BY <1>2, <1>3, <1>4, <1>5 DEF Phases, Free

\* Codes 1000, 1001 and 1005 keep the phase invariant, step by step.
LEMMA IpcPhases ==
  ASSUME Labels, Values, Phases, ~Overlap, UserStep \/ IpcWork
  PROVE  Phases'
<1> USE SlotsAssumption DEF Labels, Values, Actors, Goto, At, locals, run, life, net, streams,
       media, user, control, world
<1>1. \A j \in Jobs : Free(j)
  BY DEF Phases, OneBlock, UserStep, IpcWork, LiveOn, LiveOff, FaceSwitch, Pause, Switch,
     MaySwitch, FaceEndDecode, OnEndDecode, OnCheck, OnNew
<1>2. Rest /\ Unbound
  BY <1>1 DEF Phases
<1>3. ASSUME NEW l \in {"onEndDecode", "faceEndDecode"}, Pause(l) PROVE Phases'
  <2>1. /\ UNCHANGED <<userWantsRunning, life, decoder, intent, report>> /\ ~deliversFrames'
        /\ pc' = [pc EXCEPT ![Ipc] = l]
    BY <1>3 DEF Pause
  <2>2. \A a \in Jobs \cup Threads \cup {Dog} : pc'[a] = pc[a]
    BY <2>1
  <2>3. Rest' /\ Unbound' /\ pc'[Ipc] = l
    BY <1>2, <2>1, <2>2 DEF Rest, Unbound, Alive, Silent, Free
  <2> QED
    BY <1>1, <2>2, <2>3, IpcStep
<1>4. CASE LiveOff
  <2>1. PICK j \in Jobs : IF report = "none" THEN UNCHANGED pc ELSE Dispatch(j, "stop")
    BY <1>4 DEF LiveOff
  <2>2. ~intent' /\ UNCHANGED <<run, life, decoder, report>>
    BY Zenon, <1>4 DEF LiveOff
  <2>3. CASE report = "none"
    <3>1. /\ Rest' /\ Unbound' /\ pc'[Ipc] = "idle"
      BY <1>2, <1>4, <2>1, <2>2, <2>3 DEF LiveOff, Switch, Rest, Unbound, Alive, Silent, Free
    <3> QED
      BY <1>1, <2>1, <2>3, <3>1, IpcStep
  <2>4. CASE report # "none"
    <3>1. Dispatch(j, "stop") /\ pc'[j] = "stop" /\ \A t \in Threads : pc'[t] = pc[t]
      BY <2>1, <2>4 DEF Dispatch
    <3>2. Starting(j)' /\ Stopping(j)'
      BY <1>2, <2>2, <3>1 DEF Starting, Stopping, Closing, Ending, Rest, Alive
    <3>3. "stop" \in JobPC \ {"free"}
      BY DEF JobPC
    <3> QED
      BY <1>1, <2>2, <2>4, <3>1, <3>2, <3>3, DispatchStep
  <2> QED
    BY <2>3, <2>4
<1>5. CASE FaceEndDecode
  <2>1. CASE Dangling(Ipc)
    BY Zenon, <1>5, <2>1, CrashPhases DEF FaceEndDecode
  <2>2. CASE ~Dangling(Ipc)
    <3>1. /\ UNCHANGED <<run, life, decoder, intent, report>> /\ pc' = [pc EXCEPT ![Ipc] = "idle"]
      BY Zenon, <1>5, <2>2, EndDecodeKeeps DEF FaceEndDecode
    <3>2. \A a \in Jobs \cup Threads \cup {Dog} : pc'[a] = pc[a]
      BY <3>1
    <3>3. Rest' /\ Unbound' /\ (pc'[Ipc] \in {"onCheck", "onNew"} => intent')
      BY <1>2, <3>1, <3>2 DEF Rest, Unbound, Alive, Silent, Free
    <3> QED
      BY <1>1, <3>2, <3>3, IpcStep
  <2> QED
    BY <2>1, <2>2
<1>6. CASE OnEndDecode
  <2>1. CASE Dangling(Ipc)
    BY Zenon, <1>6, <2>1, CrashPhases DEF OnEndDecode
  <2>2. CASE ~Dangling(Ipc)
    <3>1. /\ UNCHANGED <<run, life, decoder, report>> /\ intent'
          /\ pc' = [pc EXCEPT ![Ipc] = "onCheck"]
      BY Zenon, <1>6, <2>2, EndDecodeKeeps DEF OnEndDecode
    <3>2. \A a \in Jobs \cup Threads \cup {Dog} : pc'[a] = pc[a]
      BY <3>1
    <3>3. Rest' /\ Unbound' /\ (pc'[Ipc] \in {"onCheck", "onNew"} => intent')
      BY <1>2, <3>1, <3>2 DEF Rest, Unbound, Alive, Silent, Free
    <3> QED
      BY <1>1, <3>2, <3>3, IpcStep
  <2> QED
    BY <2>1, <2>2
<1>7. ASSUME pc[Ipc] \in {"onCheck", "onNew"}, OnBound, UNCHANGED <<run, life, decoder>>
      PROVE  Phases'
  <2>1. PICK j \in Jobs : Dispatch(j, "start")
    BY <1>7 DEF OnBound
  <2>2. UNCHANGED intent /\ report' = "ok" /\ intent
    BY <1>7 DEF OnBound, Phases
  <2>3. pc'[j] = "start" /\ \A t \in Threads : pc'[t] = pc[t]
    BY <2>1 DEF Dispatch
  <2>4. Starting(j)' /\ Stopping(j)'
    BY <1>2, <1>7, <2>2, <2>3 DEF Starting, Stopping, Closing, Ending, Rest, Alive
  <2>5. "start" \in JobPC \ {"free"}
    BY DEF JobPC
  <2> QED
    BY <1>1, <2>1, <2>2, <2>4, <2>5, DispatchStep
<1>8. CASE OnCheck
  <2>1. CASE tcpServer = None
    <3>1. /\ UNCHANGED <<run, life, decoder, intent, report>>
          /\ pc' = [pc EXCEPT ![Ipc] = "onNew"] /\ intent
      BY <1>8, <2>1 DEF OnCheck, Phases
    <3>2. \A a \in Jobs \cup Threads \cup {Dog} : pc'[a] = pc[a]
      BY <3>1
    <3>3. Rest' /\ Unbound' /\ intent'
      BY <1>2, <3>1, <3>2 DEF Rest, Unbound, Alive, Silent, Free
    <3> QED
      BY <1>1, <3>2, <3>3, IpcStep
  <2>2. CASE tcpServer # None
    BY <1>7, <1>8, <2>2 DEF OnCheck
  <2> QED
    BY <2>1, <2>2
<1>9. CASE OnNew
  <2>1. CASE Bind /\ OnBound /\ UNCHANGED count
    BY <1>7, <1>9, <2>1 DEF OnNew
  <2>2. ASSUME NEW l \in {"onCheck", "idle"}, Goto(Ipc, l), UNCHANGED intent,
               report' \in {report, "fail"}
        PROVE  Phases'
    <3>1. UNCHANGED <<run, life, decoder>> /\ intent
      BY <1>9 DEF OnNew, Phases
    <3>2. \A a \in Jobs \cup Threads \cup {Dog} : pc'[a] = pc[a]
      BY <2>2
    <3>3. Rest' /\ Unbound' /\ intent'
      BY <1>2, <2>2, <3>1, <3>2 DEF Rest, Unbound, Alive, Silent, Free
    <3> QED
      BY <1>1, <3>2, <3>3, IpcStep
  <2>3. CASE Goto(Ipc, "onCheck") /\ UNCHANGED <<intent, report>>
    BY <2>2, <2>3
  <2>4. CASE report' = "fail" /\ Goto(Ipc, "idle") /\ UNCHANGED intent
    BY <2>2, <2>4
  <2> QED
    BY <1>9, <2>1, <2>3, <2>4 DEF OnNew
<1> QED
  BY <1>3, <1>4, <1>5, <1>6, <1>8, <1>9 DEF UserStep, IpcWork, LiveOn, FaceSwitch

\* The watchdog finds nothing to do: whenever it is armed and the server wants to
\* run, the recorded thread is alive.
LEMMA NoDogStep == ASSUME Labels, Phases, DogStep PROVE FALSE
<1>1. DogTick
  BY DEF DogStep, DogCheck, DogNew, DogSpawn, At, Phases
<1>2. PICK j \in Jobs : ~Free(j)
  BY <1>1 DEF DogTick, Phases, Rest, Alive, ThreadAlive, Running
<1> QED
  BY <1>1, <1>2 DEF DogTick, Phases, Starting, Stopping, Closing, Ending, Rest, Alive, ThreadAlive, Running,
     Free, Labels, JobPC

\* What happens outside disturbs no phase.
LEMMA OutsidePhases ==
  ASSUME Labels, Values, Phases, DogStep \/ Relaunch \/ (\E l \in Listeners : Connect(l))
         \/ UNCHANGED vars
  PROVE  Phases'
<1> USE DEF locals, run, life, net, streams, media, user, control, world
<1>1. CASE DogStep
  BY <1>1, NoDogStep
<1>2. CASE Relaunch
  <2>1. /\ \A j \in Jobs : pc'[j] = "free"
        /\ \A t \in Threads : pc'[t] = "free"
        /\ pc'[Ipc] = "idle" /\ pc'[Dog] = "idle"
    BY <1>2, SlotsAssumption DEF Relaunch, pcInit, Actors
  <2>2. /\ ~userWantsRunning' /\ ~deliversFrames' /\ ~watchdog' /\ ~intent'
        /\ rtmpThread' = None /\ decoder' = None
    BY <1>2 DEF Relaunch
  <2> QED
    BY <2>1, <2>2 DEF Phases, OneBlock, Unbound, Rest, Starting, Stopping, Closing, Ending, Silent, Free
<1>3. CASE (\E l \in Listeners : Connect(l)) \/ UNCHANGED vars
  <2>1. UNCHANGED pc /\ Kept
    BY <1>3 DEF Connect, Kept, vars
  <2>2. userWantsRunning /\ Alive => Alive'
    BY <2>1 DEF Kept, Alive
  <2>3. Silent => Silent'
    BY <2>1 DEF Kept, Silent
  <2> QED
    BY <2>1, <2>2, <2>3, Unseen
<1> QED
  BY <1>1, <1>2, <1>3

-----------------------------------------------------------------------------
(* The theorems about LIVE on and off.                                     *)

\* As long as the user waits for a switch to be carried out before the next one, the
\* blocks of startServerLoop and stopServer (RTMPServer.m) run one at a time and
\* find the server in the phase they expect, whatever publishers and sockets do.
THEOREM LifeCycle == ~Overlap /\ Spec => []Phases
<1> SUFFICES ASSUME ~Overlap PROVE Spec => []Phases
  OBVIOUS
<1>1. Init => Phases
  <2> SUFFICES ASSUME Init PROVE Phases
    OBVIOUS
  <2>1. /\ \A j \in Jobs : pc[j] = "free"
        /\ \A t \in Threads : pc[t] = "free"
        /\ pc[Ipc] = "idle" /\ pc[Dog] = "idle"
    BY SlotsAssumption DEF Init, pcInit, Actors
  <2> QED
    BY <2>1 DEF Init, Phases, OneBlock, Unbound, Rest, Starting, Stopping, Closing, Ending, Silent, Free
<1>2. ASSUME TypeOK, Phases, [Next]_vars PROVE Phases'
  <2>1. Labels /\ Values
    BY <1>2, Halves
  <2>2. CASE UserStep \/ IpcWork
    BY <1>2, <2>1, <2>2, IpcPhases
  <2>3. CASE \E j \in Jobs : StartJob(j) \/ StopJob(j)
    BY <1>2, <2>1, <2>3, StartPhases, StopPhases
  <2>4. CASE \E t \in Threads : ThreadStep(t) \/ NetStep(t)
    BY <1>2, <2>1, <2>4, ThreadPhases
  <2>5. CASE DogStep \/ Relaunch \/ (\E l \in Listeners : Connect(l)) \/ UNCHANGED vars
    BY <1>2, <2>1, <2>5, OutsidePhases
  <2> QED
    BY <1>2, <2>2, <2>3, <2>4, <2>5 DEF Next
<1> QED
  BY <1>1, <1>2, TypeCorrect, PTL DEF Spec

\* After LIVE off the server object is at rest (RTMPServer.m stopServer).
THEOREM OffIsQuiet == ~Overlap /\ Spec => []OffQuiet
<1>1. Phases => OffQuiet
  BY DEF Phases, OffQuiet, Settled, Rest, Silent, Free
<1> QED
  BY <1>1, LifeCycle, PTL

\* After LIVE off no thread is forwarding a frame (RTMPServer.m outputFrame).
THEOREM OffIsSilent == ~Overlap /\ Spec => []SilentAfterOff
<1>1. Phases => SilentAfterOff
  BY DEF Phases, SilentAfterOff, Settled, Rest, Silent, Free
<1> QED
  BY <1>1, LifeCycle, PTL

\* With no block in flight RTMPThread is no thread that was told to cancel.
THEOREM NeverCancelled == ~Overlap /\ Spec => []CurrentNotCancelled
<1>1. TypeOK /\ Phases => CurrentNotCancelled
  <2> SUFFICES ASSUME TypeOK, Phases, Settled PROVE rtmpThread \notin cancelled
    BY DEF CurrentNotCancelled
  <2>1. rtmpThread = None \/ Alive
    BY DEF Phases, Settled, Rest
  <2> QED
    BY <2>1, SlotsAssumption, Halves DEF Values, Alive, Actors
<1>2. Spec => []TypeOK
  BY TypeCorrect
<1> QED
  BY <1>1, <1>2, LifeCycle, PTL

\* What a step may do to g_tcpServer and its socket: leave both alone, with whoever is
\* destroying still at it; leave an open one or nil; or be a step of a destroyer.
ServerSteps ==
  \/ /\ UNCHANGED <<tcpServer, open>>
     /\ \A a \in Threads \cup Jobs : Destroying(a) => Destroying(a)'
  \/ tcpServer' \in open' \cup {None}
  \/ \E a \in Threads \cup Jobs : Destroying(a)'

\* destroyActiveTCPServer, whoever calls it.
LEMMA DestroySteps ==
  ASSUME Labels, (\E j \in Jobs : StopDestroy(j)) \/ (\E t \in Threads : Rebuild(t))
  PROVE  ServerSteps
<1> USE SlotsAssumption DEF Labels, Actors, Goto, At, Destroying, Shutdown, Crash, locals, net, world
<1>1. CASE \E j \in Jobs : StopDestroy(j)
  BY <1>1 DEF StopDestroy, DestroyTest, DestroyClose, DestroyDelete, DestroyNull, ServerSteps
<1>2. CASE \E t \in Threads : Rebuild(t)
  BY <1>2 DEF Rebuild, DestroyTest, DestroyClose, DestroyDelete, DestroyNull, ServerSteps
<1> QED
  BY <1>1, <1>2

\* A step that leaves the labels of destroyers alone and the server alone or bound.
LEMMA PlainSteps ==
  ASSUME \A a \in Threads \cup Jobs : Destroying(a) => pc'[a] = pc[a],
         UNCHANGED <<tcpServer, open>> \/ Bind
  PROVE  ServerSteps
  BY DEF ServerSteps, Destroying, Bind

\* Every other step of the threads.
LEMMA ThreadServer ==
  ASSUME Labels, NEW t \in Threads, ThreadStep(t) \/ NetStep(t), ~Rebuild(t)
  PROVE  ServerSteps
<1> USE SlotsAssumption DEF Goto, At, locals, net, world
<1>1. UNCHANGED <<tcpServer, open>> \/ Bind
  BY Zenon DEF ThreadStep, Top, Check, New, Loop, Accept, Session, Refresh, InitDecoder, Decode,
     Output, Deliver, Exit, NetStep, Accepted, AcceptFails, Handshake, RecvHeader, RecvFrame,
     RecvError, Crash
<1>2. /\ pc' = pc \/ \E l \in ThreadPC : pc' = [pc EXCEPT ![t] = l]
      /\ ~Destroying(t)
  BY DEF ThreadPC, Destroying, ThreadStep, NetStep, Top, Check, New, Loop, Accept, Session,
     Refresh, InitDecoder, Decode, Output, Deliver, Exit, Accepted, AcceptFails, Handshake,
     RecvHeader, RecvFrame, RecvError, Crash, CheckServer, Close
<1>3. \A a \in Threads \cup Jobs : Destroying(a) => pc'[a] = pc[a]
  BY <1>2 DEF Labels, Actors, Destroying
<1> QED
  BY <1>1, <1>3, PlainSteps

\* Every other step of the blocks, the watchdog and the IPC thread.
LEMMA BlockServer ==
  ASSUME Labels, DogStep \/ UserStep \/ IpcWork
           \/ \E j \in Jobs : (StartJob(j) \/ StopJob(j)) /\ ~StopDestroy(j)
  PROVE  ServerSteps
<1> USE SlotsAssumption DEF Goto, At, locals, net, world
<1>1. UNCHANGED <<tcpServer, open>> \/ Bind
  BY Zenon DEF UserStep, IpcWork, LiveOn, FaceSwitch, Pause, LiveOff, FaceEndDecode,
     OnEndDecode, OnCheck, OnNew, StartJob, StartTest, StartCreate, StartRead, StartReinit,
     StartDeliver, StartCheck, StartNew, StartThread, StartWants, StartSpawn, StartArm, StopJob,
     StopFlags, StopDelivery, StopDog, StopSleep, StopThread, StopEndDecode, StopRelease,
     DogStep, DogTick, DogCheck, DogNew, DogSpawn, Crash
<1>2. ASSUME NEW a \in Threads \cup Jobs, Destroying(a) PROVE pc'[a] = pc[a]
  <2>1. CASE DogStep
    BY <1>2, <2>1 DEF Labels, Actors, Destroying, DogStep, DogTick, DogCheck, DogNew, DogSpawn,
       Spawn, Running, CheckServer
  <2>2. CASE UserStep \/ IpcWork
    BY <1>2, <2>2 DEF Labels, Actors, Destroying, UserStep, IpcWork, LiveOn, FaceSwitch, Pause,
       LiveOff, FaceEndDecode, OnEndDecode, OnCheck, OnNew, OnBound, Dispatch, Free, Crash
  <2>3. ASSUME NEW j \in Jobs, (StartJob(j) \/ StopJob(j)) /\ ~StopDestroy(j)
        PROVE  pc'[a] = pc[a]
    <3>1. CASE StartSpawn(j)
      BY <1>2, <3>1 DEF Labels, Actors, Destroying, StartSpawn, Spawn, Running
    <3>2. CASE ~StartSpawn(j)
      <4>1. ~Destroying(j) /\ (pc' = pc \/ \E l \in JobPC : pc' = [pc EXCEPT ![j] = l])
        BY <2>3, <3>2 DEF JobPC, Destroying, StartJob, StartTest, StartCreate, StartRead,
           StartReinit, StartDeliver, StartCheck, StartNew, StartThread, StartWants, StartArm,
           StopJob, StopFlags, StopDelivery, StopDog, StopSleep, StopThread, StopEndDecode,
           StopRelease, CheckServer, Crash
      <4> QED
        BY <1>2, <4>1 DEF Labels, Actors
    <3> QED
      BY <3>1, <3>2
  <2> QED
    BY <2>1, <2>2, <2>3
<1> QED
  BY <1>1, <1>2, PlainSteps

\* g_tcpServer (RTMPServerCXX.mm) is nil, or listening, or being destroyed by somebody who
\* will set it to nil, also when switches overlap and accept() fails.
THEOREM ServerIsOpen == Spec => []ServerOpen
<1>1. Init => ServerOpen
  BY DEF Init, ServerOpen
<1>2. ASSUME TypeOK, ServerOpen, [Next]_vars PROVE ServerOpen'
  <2>1. Labels
    BY <1>2, Halves
  <2>2. ServerSteps
    <3>1. CASE \E j \in Jobs : StopDestroy(j)
      BY <2>1, <3>1, DestroySteps
    <3>2. CASE \E t \in Threads : Rebuild(t)
      BY <2>1, <3>2, DestroySteps
    <3>3. CASE \E t \in Threads : (ThreadStep(t) \/ NetStep(t)) /\ ~Rebuild(t)
      BY <2>1, <3>3, ThreadServer
    <3>4. CASE \/ DogStep \/ UserStep \/ IpcWork
               \/ \E j \in Jobs : (StartJob(j) \/ StopJob(j)) /\ ~StopDestroy(j)
      BY <2>1, <3>4, BlockServer
    <3>5. CASE Relaunch
      BY <3>5 DEF Relaunch, ServerSteps
    <3>6. CASE (\E l \in Listeners : Connect(l)) \/ UNCHANGED vars
      BY <3>6 DEF Connect, vars, locals, world, net, ServerSteps, Destroying
    <3> QED
      BY <1>2, <3>1, <3>2, <3>3, <3>4, <3>5, <3>6 DEF Next
  <2> QED
    BY <1>2, <2>2 DEF ServerOpen, ServerSteps
<1> QED
  BY <1>1, <1>2, TypeCorrect, PTL DEF Spec

-----------------------------------------------------------------------------
(* The decoder object outlives every pointer to it, if publishers do not   *)
(* stall: whoever holds a pointer holds the current one and is about to    *)
(* use it, and once sleep(1) is over no thread is past its last test of    *)
(* userWantsRunning.                                                       *)

Holding ==
  /\ \A a \in Actors : ref[a] # None =>
       /\ ref[a] = decoder
       /\ pc[a] \in {"init", "decode", "startReinit", "stopEndDecode", "onEndDecode",
                     "faceEndDecode"}
  /\ \A j \in Jobs : pc[j] = "startCreate" => decoder = None
Drained ==
  \A j \in Jobs : pc[j] \in {"stopThread", "stopEndDecode", "stopRelease"} =>
    \A t \in Threads : pc[t] \notin {"recv", "gotHeader", "gotFrame", "init", "decode"}
Owned == Holding /\ Drained /\ DecoderOwned

\* Whoever holds a pointer holds a live object.
LEMMA NoneDangles == ASSUME Holding, NEW a \in Actors PROVE ~Dangling(a)
  BY DEF Holding, Dangling

\* The threads keep ownership.
LEMMA ThreadOwned ==
  ASSUME Labels, Values, Phases, Owned, NEW t \in Threads, ThreadStep(t) \/ NetStep(t)
  PROVE  Owned'
<1> USE SlotsAssumption DEF Labels, Values, Actors, Goto, At, locals, run, life, net, streams,
       media, user, control, world
<1>1. ~Dangling(t)
  BY NoneDangles DEF Owned
<1>2. UNCHANGED decoder
  BY Zenon, <1>1, InitKeeps DEF ThreadStep, NetStep, Top, Check, New, Loop, Accept, Rebuild, DestroyTest, DestroyClose, DestroyDelete, DestroyNull,
     Session, Refresh, InitDecoder, Decode, Output, Deliver, Exit, Accepted, AcceptFails,
     Handshake, RecvHeader, RecvFrame, RecvError, Crash
<1>3. CASE Refresh(t)
  <2>1. Holding'
    BY <1>2, <1>3 DEF Refresh, Owned, Holding
  <2>2. Drained'
    BY <1>3 DEF Refresh, Owned, Drained
  <2> QED
    BY <1>3, <2>1, <2>2 DEF Refresh, Owned, DecoderOwned
<1>4. CASE InitDecoder(t) \/ Decode(t)
  <2>1. /\ ref' = [ref EXCEPT ![t] = None] /\ UNCHANGED fault
        /\ \E l \in {"output", "session"} : pc' = [pc EXCEPT ![t] = l]
    BY Zenon, <1>1, <1>4 DEF InitDecoder, Decode
  <2> QED
    BY <1>2, <2>1 DEF Owned, Holding, Drained, DecoderOwned
<1>5. CASE ~(Refresh(t) \/ InitDecoder(t) \/ Decode(t))
  <2>1. UNCHANGED ref /\ fault' # "freedDecoder"
    BY <1>5 DEF Owned, DecoderOwned, ThreadStep, NetStep, Top, Check, New, Loop, Accept, Rebuild, DestroyTest, DestroyClose, DestroyDelete, DestroyNull,
       Session, Output, Deliver, Exit, Accepted, AcceptFails,
       Handshake, RecvHeader, RecvFrame, RecvError, Crash
  <2>2. pc' = pc \/ (ref[t] = None /\ \E l \in ThreadPC : pc' = [pc EXCEPT ![t] = l])
    BY <1>5 DEF ThreadPC, Owned, Holding, ThreadStep, NetStep, Top, Check, New, Loop, Accept,
       Rebuild, DestroyTest, DestroyClose, DestroyDelete, DestroyNull, Session, Output, Deliver, Exit, Accepted, AcceptFails, Handshake, RecvHeader,
       RecvFrame, RecvError, Crash, CheckServer, Close
  <2>3. Holding'
    BY <1>2, <2>1, <2>2 DEF Owned, Holding
  <2>4. pc'[t] \in {"recv", "gotHeader", "gotFrame", "init", "decode"} =>
          userWantsRunning \/ pc[t] \in {"recv", "gotHeader", "gotFrame", "init", "decode"}
    BY <1>5 DEF ThreadStep, NetStep, Top, Check, New, Loop, Accept,
       Rebuild, DestroyTest, DestroyClose, DestroyDelete, DestroyNull, Session, Output, Deliver, Exit, Accepted, AcceptFails, Handshake, RecvHeader,
       RecvFrame, RecvError, Crash, CheckServer, Close
  <2>5. Drained'
    BY <2>2, <2>4 DEF Owned, Drained, Phases, Stopping, Closing, Ending
  <2> QED
    BY <2>1, <2>3, <2>5 DEF Owned, DecoderOwned
<1> QED
  BY <1>3, <1>4, <1>5

\* startServerLoop and stopServer keep ownership; sleep(1) drains the threads.
LEMMA BlockOwned ==
  ASSUME Labels, Values, Phases, Owned, ~Stall, NEW j \in Jobs, StartJob(j) \/ StopJob(j)
  PROVE  Owned'
<1> USE SlotsAssumption DEF Labels, Values, Actors, Goto, At, locals, run, life, net, streams,
       media, user, control, world
<1>1. ~Dangling(j)
  BY NoneDangles DEF Owned
<1>2. /\ \A k \in Jobs : k # j => Free(k)
      /\ pc[Ipc] = "idle" /\ pc[Dog] = "idle"
  BY DEF Phases, OneBlock, Free, StartJob, StartTest, StartCreate, StartRead, StartReinit, StartDeliver, StartCheck,
     StartNew, StartThread, StartWants, StartSpawn, StartArm, StopJob, StopFlags, StopDelivery, StopDog,
     StopDestroy, DestroyTest, DestroyClose, DestroyDelete, DestroyNull, StopSleep, StopThread,
     StopEndDecode, StopRelease, At
<1>3. CASE StartTest(j) \/ StartRead(j)
  BY <1>3 DEF StartTest, StartRead, Owned, Holding, Drained, DecoderOwned
<1>4. CASE StartCreate(j)
  <2>1. /\ pc[j] = "startCreate" /\ Goto(j, "startDeliver") /\ UNCHANGED <<ref, fault>>
    BY <1>4 DEF StartCreate
  <2>2. \A a \in Actors : ref'[a] = None
    BY <2>1 DEF Owned, Holding
  <2> QED
    BY <1>2, <2>1, <2>2 DEF Free, Owned, Holding, Drained, DecoderOwned
<1>12. CASE StartReinit(j)
  <2>1. /\ pc[j] = "startReinit" /\ Goto(j, "startDeliver") /\ UNCHANGED <<decoder, fault>>
        /\ ref' = [ref EXCEPT ![j] = None]
    BY Zenon, <1>1, <1>12, InitKeeps DEF StartReinit
  <2> QED
    BY <1>2, <2>1 DEF Free, Owned, Holding, Drained, DecoderOwned
<1>5. CASE StartSpawn(j)
  BY <1>5 DEF StartSpawn, Spawn, Running, Owned, Holding, Drained, DecoderOwned
<1>6. CASE StartDeliver(j) \/ StartCheck(j) \/ StartNew(j) \/ StartThread(j) \/ StartWants(j) \/ StartArm(j)
  <2>1. /\ UNCHANGED <<ref, decoder, fault>> /\ ref[j] = None
        /\ \E l \in {"startCheck", "startThread", "startNew", "startKeep", "startWants", "startSpawn",
                     "free"} : Goto(j, l)
    BY <1>6 DEF StartDeliver, StartCheck, StartNew, StartThread, StartWants, StartArm, CheckServer,
       Owned, Holding
  <2> QED
    BY <2>1 DEF Owned, Holding, Drained, DecoderOwned
<1>7. CASE StopFlags(j) \/ StopDelivery(j) \/ StopDog(j) \/ StopDestroy(j)
  <2>1. /\ UNCHANGED <<ref, decoder>> /\ ref[j] = None /\ fault' # "freedDecoder"
        /\ UNCHANGED pc \/ \E l \in {"stopDelivery", "stopDog"} \cup Closing : Goto(j, l)
    BY <1>7 DEF StopFlags, StopDelivery, StopDog, StopDestroy, DestroyTest, DestroyClose,
       DestroyDelete, DestroyNull, Crash, Closing, Owned, Holding, DecoderOwned
  <2> QED
    BY <2>1 DEF Closing, Owned, Holding, Drained, DecoderOwned
<1>8. CASE StopSleep(j)
  BY <1>8 DEF StopSleep, SleptEnough, Running, Phases, Stopping, Closing, Ending, Owned, Holding, Drained, DecoderOwned
<1>9. CASE StopThread(j)
  BY <1>9 DEF StopThread, Owned, Holding, Drained, DecoderOwned
<1>10. CASE StopEndDecode(j)
  <2>1. /\ pc[j] = "stopEndDecode" /\ Goto(j, "stopRelease") /\ UNCHANGED <<decoder, fault>>
        /\ ref' = [ref EXCEPT ![j] = None]
    BY Zenon, <1>1, <1>10, EndDecodeKeeps DEF StopEndDecode
  <2> QED
    BY <2>1 DEF Owned, Holding, Drained, DecoderOwned
<1>11. CASE StopRelease(j)
  <2>1. /\ pc[j] = "stopRelease" /\ decoder' = None /\ Goto(j, "free")
        /\ UNCHANGED <<ref, fault>>
    BY <1>11 DEF StopRelease
  <2>2. \A t \in Threads : ref[t] = None
    BY <2>1 DEF ThreadPC, Owned, Holding, Drained
  <2>3. \A k \in Jobs : ref[k] = None
    BY <1>2, <2>1 DEF Free, Owned, Holding
  <2>4. ref[Ipc] = None /\ ref[Dog] = None
    BY <1>2 DEF Owned, Holding
  <2> QED
    BY <1>2, <2>1, <2>2, <2>3, <2>4 DEF Free, Owned, Holding, Drained, DecoderOwned
<1> QED
  BY <1>3, <1>4, <1>5, <1>6, <1>7, <1>8, <1>9, <1>10, <1>11, <1>12 DEF StartJob, StopJob

\* The IPC thread closes the current decoder and keeps ownership.
LEMMA IpcOwned ==
  ASSUME Labels, Values, Phases, Owned, ~Overlap, UserStep \/ IpcWork
  PROVE  Owned'
<1> USE SlotsAssumption DEF Labels, Values, Actors, Goto, At, locals, run, life, net, streams,
       media, user, control, world
<1>1. ~Dangling(Ipc)
  BY NoneDangles DEF Owned
<1>2. UNCHANGED <<decoder, fault>>
  BY Zenon, <1>1, EndDecodeKeeps DEF UserStep, IpcWork, LiveOn, LiveOff, FaceSwitch, Pause,
     FaceEndDecode, OnEndDecode, OnCheck, OnNew
<1>3. CASE LiveOn \/ FaceSwitch
  <2>1. /\ ref' = [ref EXCEPT ![Ipc] = decoder]
        /\ \E l \in {"onEndDecode", "faceEndDecode"} : Goto(Ipc, l)
    BY <1>3 DEF LiveOn, FaceSwitch, Pause
  <2> QED
    BY <1>2, <2>1 DEF Owned, Holding, Drained, DecoderOwned
<1>4. CASE FaceEndDecode \/ OnEndDecode
  <2>1. /\ ref' = [ref EXCEPT ![Ipc] = None]
        /\ \E l \in {"idle", "onCheck"} : Goto(Ipc, l)
    BY Zenon, <1>1, <1>4 DEF FaceEndDecode, OnEndDecode
  <2> QED
    BY <1>2, <2>1 DEF Owned, Holding, Drained, DecoderOwned
<1>5. CASE LiveOff \/ OnCheck \/ OnNew
  <2>1. UNCHANGED ref /\ ref[Ipc] = None
    BY <1>5 DEF LiveOff, Switch, OnCheck, OnNew, Owned, Holding
  <2>2. \/ UNCHANGED pc
        \/ \E l \in {"onCheck", "onNew", "idle"} : Goto(Ipc, l)
        \/ \E j \in Jobs, l \in {"start", "stop"} : Dispatch(j, l)
    BY <1>5 DEF LiveOff, OnCheck, OnNew, OnBound
  <2> QED
    BY <1>2, <2>1, <2>2 DEF Dispatch, Free, Owned, Holding, Drained, DecoderOwned
<1> QED
  BY <1>3, <1>4, <1>5 DEF UserStep, IpcWork

\* No call ever goes through a pointer to a released H264Decoder (H264Decoder.m,
\* RTMPServerCXX.mm keep raw pointers), if the user waits for a switch to be carried
\* out and publishers do not stay silent through the sleep(1) of stopServer.
THEOREM NoFreedDecoder == ~Overlap /\ ~Stall /\ Spec => []DecoderOwned
<1> SUFFICES ASSUME ~Overlap, ~Stall PROVE Spec => []DecoderOwned
  OBVIOUS
<1>1. Init => Owned
  BY SlotsAssumption DEF Init, Owned, Holding, Drained, DecoderOwned, refInit, pcInit, Actors
<1>2. ASSUME TypeOK, Phases, Owned, [Next]_vars PROVE Owned'
  <2>1. Labels /\ Values
    BY <1>2, Halves
  <2>2. CASE UserStep \/ IpcWork
    BY <1>2, <2>1, <2>2, IpcOwned
  <2>3. CASE \E j \in Jobs : StartJob(j) \/ StopJob(j)
    BY <1>2, <2>1, <2>3, BlockOwned
  <2>4. CASE \E t \in Threads : ThreadStep(t) \/ NetStep(t)
    BY <1>2, <2>1, <2>4, ThreadOwned
  <2>5. CASE DogStep
    BY <1>2, <2>1, <2>5, NoDogStep
  <2>6. CASE Relaunch
    BY <2>6, SlotsAssumption DEF Relaunch, Owned, Holding, Drained, DecoderOwned, refInit,
       pcInit, Actors
  <2>7. CASE (\E l \in Listeners : Connect(l)) \/ UNCHANGED vars
    BY <1>2, <2>7 DEF Connect, vars, locals, world, media, Owned, Holding, Drained, DecoderOwned
  <2> QED
    BY <1>2, <2>2, <2>3, <2>4, <2>5, <2>6, <2>7 DEF Next
<1>3. Spec => []TypeOK
  BY TypeCorrect
<1>4. Spec => []Phases
  BY LifeCycle
<1>5. Owned => DecoderOwned
  BY DEF Owned
<1> QED
  BY <1>1, <1>2, <1>3, <1>4, <1>5, PTL DEF Spec

-----------------------------------------------------------------------------
(* One thread on one socket.  If moreover accept() fails only on a closed  *)
(* listener, no thread ever rebuilds the socket, so a server that wants to *)
(* run has one; a thread that sees none is on its way out of a stopServer, *)
(* and stopServer leaves sleep(1) with no thread at all.                   *)

Alone == \A t \in Threads : Running(t) => t = rtmpThread
Closed == \E j \in Jobs : pc[j] \in {"stopDelete", "stopNull"}
Asleep == \E j \in Jobs : pc[j] = "stopSleep"
OneSocket ==
  /\ open = IF Closed THEN {} ELSE {tcpServer} \ {None}
  /\ userWantsRunning => tcpServer # None
  /\ pc[Ipc] = "onNew" => tcpServer = None
  /\ \A t \in Threads : pc[t] = "new" => tcpServer = None
  /\ \A j \in Jobs : pc[j] \in {"stopClose", "stopDelete", "stopNull"} => tcpServer # None
Draining(j) == pc[j] \in {"stopDelivery", "stopDog"} \cup Closing
Gone == ~userWantsRunning /\ (\A j \in Jobs : ~Draining(j)) =>
          \A t \in Threads : ~Running(t)
Listening ==
  \A t \in Threads :
    /\ pc[t] \notin {"rebuild", "rebuildClose", "rebuildDelete", "rebuildNull"}
    /\ pc[t] = "blocked" => (lsn[t] \in open <=> ~Closed /\ ~Asleep)
    /\ pc[t] = "accept" /\ Asleep => tcpServer = None
Early == {"start", "startCreate", "startRead", "startReinit", "startDeliver", "startCheck",
          "startThread", "startKeep", "startWants"}
Bound ==
  \A j \in Jobs : /\ pc[j] # "startNew"
                  /\ pc[j] \in Early => tcpServer # None
Served ==
  intent /\ report = "ok" /\ pc[Ipc] \notin {"onCheck", "onNew"} /\ (\A j \in Jobs : Free(j)) =>
    userWantsRunning
Sole == Alone /\ OneSocket /\ Gone /\ Listening /\ Bound /\ Served

\* A running thread keeps the socket's invariant if what it does to the socket fits.
LEMMA ThreadMoves ==
  ASSUME Labels, Values, Phases, Sole, NEW t \in Threads, Running(t), NEW l \in ThreadPC \ {"rebuild", "rebuildClose", "rebuildDelete", "rebuildNull"},
         pc' = [pc EXCEPT ![t] = l],
         UNCHANGED <<userWantsRunning, rtmpThread, intent, report>>,
         UNCHANGED <<tcpServer, open>> \/ (tcpServer = None /\ open' = {tcpServer'} \ {None}),
         l = "new" => tcpServer' = None,
         l = "accept" => ~Asleep,
         l = "blocked" => (lsn'[t] \in open' <=> ~Closed /\ ~Asleep)
  PROVE  Sole'
<1> USE SlotsAssumption DEF Labels, Values, Actors
<1>1. \A a \in Jobs \cup {Ipc, Dog} : pc'[a] = pc[a]
  OBVIOUS
<1>2. pc[Ipc] # "onNew"
  BY DEF Sole, Gone, OneSocket, Phases, OneBlock, Draining, Closing, Free
<1>3. Alone' /\ Gone' /\ Asleep' = Asleep /\ Closed' = Closed
  BY <1>1 DEF Sole, Alone, Gone, Draining, Running, Asleep, Closed
<1>4. \A u \in Threads \ {t} : pc'[u] \in {"free", "finished"}
  BY DEF Sole, Alone, Running
<1>5. tcpServer = None => ~Closed
  BY DEF Sole, OneSocket, Closed
<1>7. OneSocket' /\ Listening'
  BY <1>1, <1>2, <1>3, <1>4, <1>5 DEF Sole, OneSocket, Listening
<1>6. Bound' /\ Served'
  BY <1>1, <1>2 DEF Sole, Bound, Early, Served, Free
<1> QED
  BY <1>3, <1>6, <1>7 DEF Sole

\* A crash changes nothing but fault.
LEMMA CrashSole == ASSUME Sole, NEW why, Crash(why) PROVE Sole'
<1>1. UNCHANGED <<pc, userWantsRunning, rtmpThread, tcpServer, open, lsn, intent, report>>
  BY Zenon DEF Crash, locals, control, run, life, net, streams, user
<1> QED
  BY <1>1 DEF Sole, Alone, Running, OneSocket, Gone, Draining, Listening, Asleep, Closed, Bound,
     Served, Free

\* The threads keep it.
LEMMA ThreadSole ==
  ASSUME Labels, Values, Phases, Sole, ~Flaky, NEW t \in Threads, ThreadStep(t) \/ NetStep(t)
  PROVE  Sole'
<1> USE SlotsAssumption DEF Goto, At, locals, run, life, net, streams, media, user, control, world
<1>1. UNCHANGED <<userWantsRunning, rtmpThread, intent, report>>
  BY Zenon DEF ThreadStep, NetStep, Top, Check, New, Loop, Accept, Rebuild, DestroyTest, DestroyClose,
     DestroyDelete, DestroyNull, Session, Refresh,
     InitDecoder, Decode, Output, Deliver, Exit, Accepted, AcceptFails, Handshake, RecvHeader,
     RecvFrame, RecvError, Crash
<1>2. Running(t)
  BY DEF Running, ThreadStep, NetStep, Top, Check, New, Loop, Accept, Rebuild, DestroyTest, DestroyClose,
     DestroyDelete, DestroyNull, Session, Refresh,
     InitDecoder, Decode, Output, Deliver, Exit, Accepted, AcceptFails, Handshake, RecvHeader,
     RecvFrame, RecvError
<1>3. Asleep \/ Closed => ~userWantsRunning
  BY DEF Asleep, Closed, Phases, Stopping, Closing, Ending
<1>4. CASE Check(t)
  <2>1. /\ UNCHANGED <<tcpServer, open, lsn>>
        /\ \E l \in {"loop", "new"} : Goto(t, l) /\ (l = "new" => tcpServer = None)
    BY <1>4 DEF Check, CheckServer
  <2> QED
    BY <1>1, <1>2, <2>1, ThreadMoves DEF ThreadPC
<1>5. CASE New(t)
  <2>1. tcpServer = None /\ open = {}
    BY <1>5 DEF New, Sole, OneSocket, Closed
  <2>2. CASE Bind /\ Goto(t, "loop")
    <3>1. open' = {tcpServer'} \ {None}
      BY <2>1, <2>2 DEF Bind, Actors
    <3> QED
      BY <1>1, <1>2, <2>1, <2>2, <3>1, ThreadMoves DEF ThreadPC
  <2>3. CASE UNCHANGED net /\ Goto(t, "top")
    BY <1>1, <1>2, <2>1, <2>3, ThreadMoves DEF ThreadPC
  <2> QED
    BY <1>5, <2>2, <2>3 DEF New
<1>6. CASE Loop(t)
  <2>1. /\ UNCHANGED <<tcpServer, open, lsn>>
        /\ \E l \in {"accept", "top"} : Goto(t, l) /\ (l = "accept" => userWantsRunning)
    BY <1>6 DEF Loop
  <2> QED
    BY <1>1, <1>2, <1>3, <2>1, ThreadMoves DEF ThreadPC
<1>7. CASE Accept(t)
  <2>1. CASE \E why : Crash(why)
    BY <2>1, CrashSole
  <2>2. CASE ~ \E why : Crash(why)
    <3>1. tcpServer # None /\ ~Asleep
      BY <1>7, <2>2 DEF Accept, Sole, Listening
    <3>2. UNCHANGED <<tcpServer, open>> /\ Goto(t, "blocked") /\ (lsn'[t] \in open' <=> ~Closed)
      BY <1>7, <2>2, <3>1 DEF Accept, Values, Sole, OneSocket
    <3> QED
      BY <1>1, <1>2, <3>1, <3>2, ThreadMoves DEF ThreadPC
  <2> QED
    BY <2>1, <2>2
<1>8. CASE AcceptFails(t)
  <2>1. ~userWantsRunning
    BY <1>3, <1>8 DEF AcceptFails, Sole, Listening
  <2>2. UNCHANGED <<tcpServer, open>> /\ Goto(t, "top")
    BY <1>8, <2>1 DEF AcceptFails
  <2> QED
    BY <1>1, <1>2, <2>2, ThreadMoves DEF ThreadPC
<1>9. CASE Rebuild(t)
  BY <1>9 DEF Rebuild, DestroyTest, DestroyClose, DestroyDelete, DestroyNull, Sole, Listening
<1>10. CASE \E why : Crash(why)
  BY <1>10, CrashSole
<1>11. CASE ~(Check(t) \/ New(t) \/ Loop(t) \/ Accept(t) \/ AcceptFails(t) \/ Rebuild(t))
            /\ ~ \E why : Crash(why)
  <2>1. UNCHANGED <<tcpServer, open>>
    BY Zenon, <1>11 DEF ThreadStep, NetStep, Top, Session, Refresh, InitDecoder, Decode, Output,
       Deliver, Exit, Accepted, Handshake, RecvHeader, RecvFrame, RecvError
  <2>2. \E l \in ThreadPC \ {"rebuild", "rebuildClose", "rebuildDelete", "rebuildNull", "new",
                            "accept", "blocked"} : Goto(t, l)
    BY <1>11 DEF ThreadPC, ThreadStep, NetStep, Top, Session, Refresh, InitDecoder, Decode,
       Output, Deliver, Exit, Accepted, Handshake, RecvHeader, RecvFrame, RecvError, Close
  <2> QED
    BY <1>1, <1>2, <2>1, <2>2, ThreadMoves DEF ThreadPC
<1> QED
  BY <1>4, <1>5, <1>6, <1>7, <1>8, <1>9, <1>10, <1>11

\* startServerLoop keeps it: the socket is there, and the thread slot was empty.
LEMMA StartSole ==
  ASSUME Labels, Values, Phases, Sole, NEW j \in Jobs, StartJob(j)
  PROVE  Sole'
<1> USE SlotsAssumption DEF Labels, Values, Actors, Goto, At, locals, run, life, net, streams,
       media, user, control, world
<1>1. /\ \A k \in Jobs : k # j => Free(k)
      /\ pc[Ipc] = "idle" /\ ~Free(j)
  BY DEF Phases, OneBlock, Free, StartJob, StartTest, StartCreate, StartRead, StartReinit, StartDeliver, StartCheck,
     StartNew, StartThread, StartWants, StartSpawn, StartArm
<1>2. /\ \A k \in Jobs : ~Draining(k) /\ ~Asleep /\ ~Closed
      /\ pc[Ipc] # "onNew"
  BY <1>1 DEF Draining, Closing, Asleep, Closed, Free, StartJob, StartTest, StartCreate, StartRead, StartReinit, StartDeliver, StartCheck,
     StartNew, StartThread, StartWants, StartSpawn, StartArm
<1>3. CASE StartSpawn(j)
  <2>1. PICK t \in Threads : /\ rtmpThread' = t
                             /\ pc' = [pc EXCEPT ![t] = "top", ![j] = "startArm"]
    BY <1>3 DEF StartSpawn, Spawn
  <2>2. userWantsRunning /\ rtmpThread = None /\ \A u \in Threads : ~Running(u)
    BY <1>3 DEF StartSpawn, Phases, Starting, Sole, Alone
  <2>3. \A u \in Threads \ {t} : pc'[u] \in {"free", "finished"}
    BY <2>1, <2>2 DEF Running
  <2>4. /\ UNCHANGED <<userWantsRunning, tcpServer, open, lsn, intent, report>>
        /\ \A k \in Jobs : k # j => Free(k)'
        /\ pc'[j] = "startArm" /\ pc'[t] = "top" /\ pc'[Ipc] = "idle"
    BY <1>1, <1>3, <2>1 DEF StartSpawn, Free
  <2>5. ~Closed' /\ ~Asleep'
    BY <2>4 DEF Closed, Asleep, Free
  <2>7. OneSocket'
    BY <1>2, <2>2, <2>3, <2>4, <2>5 DEF Sole, OneSocket, Free
  <2>8. Alone' /\ Gone' /\ Listening'
    BY <2>1, <2>2, <2>3, <2>4, <2>5 DEF Alone, Gone, Listening, Running
  <2>6. Bound' /\ Served'
    BY <2>2, <2>4 DEF Bound, Early, Served, Free
  <2> QED
    BY <2>6, <2>7, <2>8 DEF Sole
<1>4. CASE ~StartSpawn(j) /\ ~ \E why : Crash(why)
  <2>1. /\ UNCHANGED <<tcpServer, open>>
    BY <1>4 DEF StartJob, StartTest, StartCreate, StartRead, StartReinit, StartDeliver, StartCheck, StartNew, StartThread, StartWants, StartArm,
       Sole, Bound, Early
  <2>2. UNCHANGED <<rtmpThread, lsn, intent, report>>
    BY Zenon, <1>4 DEF StartJob, StartTest, StartCreate, StartRead, StartReinit, StartDeliver, StartCheck, StartNew, StartThread, StartWants, StartArm
  <2>3. PICK l \in Early \cup {"startSpawn", "startArm", "free"} :
          pc' = [pc EXCEPT ![j] = l]
    BY <1>4 DEF StartJob, StartTest, StartCreate, StartRead, StartReinit, StartDeliver, StartCheck, StartNew, StartThread, StartWants, StartArm,
       CheckServer, Sole, Bound, Early
  <2>4. /\ pc[j] \in Early \/ userWantsRunning
        /\ userWantsRunning => userWantsRunning'
        /\ l \in {"startSpawn", "startArm", "free"} => userWantsRunning'
        /\ userWantsRunning' => tcpServer # None
    BY <1>4, <2>3 DEF StartJob, StartTest, StartCreate, StartRead, StartReinit, StartDeliver, StartCheck, StartNew, StartThread, StartWants, StartArm,
       CheckServer, Sole, Bound, Early, OneSocket, Phases, Starting
  <2>5. tcpServer # None
    BY <2>4 DEF Sole, Bound, OneSocket
  <2>6. /\ \A a \in Threads \cup {Ipc} : pc'[a] = pc[a]
        /\ \A k \in Jobs : k # j => Free(k)' /\ Free(k)
        /\ pc'[j] = l
    BY <1>1, <2>3 DEF Free
  <2>7. Alone' /\ OneSocket' /\ Listening'
    BY <1>2, <2>1, <2>2, <2>4, <2>5, <2>6
    DEF Early, Sole, Alone, OneSocket, Listening, Running, Asleep, Closed, Free
  <2>8. Gone'
    BY <1>2, <2>4, <2>6 DEF Early, Sole, Gone, Running
  <2>9. Bound' /\ Served'
    BY <2>1, <2>4, <2>5, <2>6 DEF Bound, Early, Served, Free
  <2> QED
    BY <2>7, <2>8, <2>9 DEF Sole
<1> QED
  BY <1>3, <1>4, CrashSole

\* stopServer keeps it: it closes the socket first and sleeps until the thread is gone.
LEMMA StopSole ==
  ASSUME Labels, Values, Phases, Sole, ~Stall, NEW j \in Jobs, StopJob(j)
  PROVE  Sole'
<1> USE SlotsAssumption DEF Labels, Values, Actors, Goto, At, locals, run, life, net, streams,
       media, user, control, world
<1>1. /\ \A k \in Jobs : k # j => Free(k)
      /\ pc[Ipc] = "idle" /\ ~Free(j)
  BY DEF Phases, OneBlock, Free, StopJob, StopFlags, StopDelivery, StopDog,
     StopDestroy, DestroyTest,
       DestroyClose, DestroyDelete, DestroyNull, StopSleep, StopThread, StopEndDecode, StopRelease
<1>2. ~intent /\ UNCHANGED <<lsn, intent, report>>
  BY Zenon DEF Phases, Stopping, Closing, Ending, StopJob, StopFlags, StopDelivery, StopDog, StopDestroy, DestroyTest,
       DestroyClose, DestroyDelete, DestroyNull, StopSleep, StopThread,
     StopEndDecode, StopRelease, Crash
<1>3. CASE \E why : Crash(why)
  BY <1>3, CrashSole
<1>4. CASE ~ \E why : Crash(why)
  <2>1. PICK l \in {"stopDelivery", "stopDog", "free"} \cup Closing \cup Ending : pc' = [pc EXCEPT ![j] = l]
    BY <1>4 DEF Closing, Ending, StopJob, StopFlags, StopDelivery, StopDog, StopDestroy,
       DestroyTest, DestroyClose, DestroyDelete, DestroyNull, StopSleep, StopThread,
       StopEndDecode, StopRelease
  <2>2. /\ \A a \in Threads \cup {Ipc} : pc'[a] = pc[a]
        /\ \A k \in Jobs : k # j => Free(k)' /\ Free(k)
        /\ pc'[j] = l
    BY <1>1, <2>1 DEF Free
  <2>3. ~userWantsRunning'
    BY <1>4 DEF Phases, Stopping, Closing, Ending, StopJob, StopFlags, StopDelivery, StopDog, StopDestroy, DestroyTest,
       DestroyClose, DestroyDelete, DestroyNull, StopSleep, StopThread,
       StopEndDecode, StopRelease
  <2>4. CASE StopDestroy(j)
    <3>1. /\ l \in Closing \ {"stopDestroy"} /\ UNCHANGED rtmpThread
          /\ open' = IF l \in {"stopDelete", "stopNull"} THEN {} ELSE {tcpServer'} \ {None}
          /\ tcpServer' \in {tcpServer, None}
          /\ tcpServer' = None <=> l = "stopSleep"
          /\ \A t \in Threads : pc[t] = "blocked" => (lsn[t] \in open' <=> l = "stopClose")
      BY <1>1, <1>4, <2>2, <2>4 DEF Closing, Free, StopDestroy, DestroyTest, DestroyClose,
         DestroyDelete, DestroyNull, Shutdown, Sole, OneSocket, Listening, Closed, Asleep
    <3>2. (Closed' <=> l \in {"stopDelete", "stopNull"}) /\ (Asleep' <=> l = "stopSleep")
      BY <2>2 DEF Closed, Asleep, Free
    <3>3. Alone' /\ Gone'
      BY <2>2, <3>1 DEF Sole, Alone, Gone, Draining, Running
    <3>4. OneSocket' /\ Listening'
      <4>1. \A k \in Jobs : pc'[k] \in {"stopClose", "stopDelete", "stopNull"} => tcpServer' # None
        BY <2>2, <3>1 DEF Free, Closing
      <4>2. \A t \in Threads : pc'[t] = "new" => tcpServer' = None
        BY <2>2, <3>1 DEF Sole, OneSocket
      <4>3. OneSocket'
        BY <1>1, <2>2, <2>3, <3>1, <3>2, <4>1, <4>2 DEF OneSocket
      <4>4. Listening'
        BY <1>2, <2>2, <3>1, <3>2 DEF Closing, Sole, Listening
      <4> QED
        BY <4>3, <4>4
    <3>5. Bound' /\ Served'
      BY <1>2, <2>2, <3>1 DEF Closing, Bound, Early, Served, Free
    <3> QED
      BY <3>3, <3>4, <3>5 DEF Sole
  <2>5. CASE ~StopDestroy(j)
    <3>1. /\ UNCHANGED <<tcpServer, open>> /\ l \notin Closing \ {"stopDestroy"}
          /\ pc[j] \notin Closing \ {"stopDestroy", "stopSleep"}
      BY <1>4, <2>2, <2>5 DEF Closing, StopJob, StopFlags, StopDelivery, StopDog, StopSleep, StopThread,
         StopEndDecode, StopRelease
    <3>2. l \in {"stopThread", "stopEndDecode", "stopRelease", "free"} =>
            \A t \in Threads : ~Running(t)
      <4>1. CASE StopSleep(j)
        BY <4>1 DEF StopSleep, SleptEnough, Phases, Stopping, Closing, Ending, Sole, Listening, Asleep
      <4>2. CASE pc[j] \in {"stopThread", "stopEndDecode", "stopRelease"}
        BY <1>1, <4>2 DEF Phases, Stopping, Closing, Ending, Sole, Gone, Draining, Free
      <4> QED
        BY <1>4, <2>2, <2>5, <4>1, <4>2 DEF StopJob, StopFlags, StopDelivery, StopDog, StopThread, StopEndDecode,
           StopRelease
    <3>3. UNCHANGED rtmpThread \/ \A t \in Threads : ~Running(t)
      BY <1>4, <2>2, <3>2 DEF StopJob, StopFlags, StopDelivery, StopDog, StopDestroy, DestroyTest,
       DestroyClose, DestroyDelete, DestroyNull, StopSleep, StopThread,
         StopEndDecode, StopRelease
    <3>4. Alone' /\ Gone'
      BY <2>2, <3>2, <3>3 DEF Closing, Ending, Sole, Alone, Gone, Draining, Running
    <3>5. OneSocket'
      BY <1>1, <2>2, <2>3, <3>1 DEF Closing, Free, Sole, OneSocket, Closed
    <3>6. Listening'
      <4>1. ~Asleep' /\ ~Closed /\ ~Closed'
        BY <1>1, <2>2, <3>1 DEF Closing, Asleep, Closed, Free
      <4>2. Asleep => \A t \in Threads : ~Running(t)
        BY <1>1, <2>2, <3>2, <1>4 DEF Asleep, Free, StopJob, StopFlags, StopDelivery, StopDog, StopDestroy, DestroyTest,
       DestroyClose, DestroyDelete, DestroyNull, StopSleep,
           StopThread, StopEndDecode, StopRelease
      <4> QED
        BY <1>2, <2>2, <3>1, <4>1, <4>2 DEF Sole, Listening, Running
    <3>7. Bound' /\ Served'
      BY <1>2, <2>2 DEF Closing, Ending, Bound, Early, Served, Free
    <3> QED
      BY <3>4, <3>5, <3>6, <3>7 DEF Sole
  <2> QED
    BY <2>4, <2>5
<1> QED
  BY <1>3, <1>4

\* The IPC thread keeps it: it binds only when there is neither socket nor thread.
LEMMA IpcSole ==
  ASSUME Labels, Values, Phases, Sole, ~Overlap, UserStep \/ IpcWork
  PROVE  Sole'
<1> USE SlotsAssumption DEF Labels, Values, Actors, Goto, At, locals, run, life, net, streams,
       media, user, control, world
<1>1. \A j \in Jobs : Free(j)
  BY DEF Phases, OneBlock, UserStep, IpcWork, LiveOn, LiveOff, FaceSwitch, Pause, Switch,
     MaySwitch, FaceEndDecode, OnEndDecode, OnCheck, OnNew
<1>2. CASE \E why : Crash(why)
  BY <1>2, CrashSole
<1>3. CASE ~ \E why : Crash(why)
  <2>1. UNCHANGED <<userWantsRunning, rtmpThread, lsn>>
    BY Zenon, <1>3 DEF UserStep, IpcWork, LiveOn, LiveOff, FaceSwitch, Pause, FaceEndDecode,
       OnEndDecode, OnCheck, OnNew
  <2>2. \/ UNCHANGED pc
        \/ \E l \in IpcPC : Goto(Ipc, l)
        \/ \E j \in Jobs, l \in {"start", "stop"} : Dispatch(j, l)
    BY <1>3 DEF IpcPC, UserStep, IpcWork, LiveOn, LiveOff, FaceSwitch, Pause, FaceEndDecode,
       OnEndDecode, OnCheck, OnNew, OnBound
  <2>3. /\ \A t \in Threads : pc'[t] = pc[t]
        /\ \A j \in Jobs : pc'[j] \in {"free", "start", "stop"}
    BY <1>1, <2>2 DEF Dispatch, Free
  <2>4. ~Asleep /\ ~Asleep' /\ ~Closed /\ ~Closed' /\ \A j \in Jobs : ~Draining(j)
    BY <1>1, <2>3 DEF Asleep, Closed, Draining, Closing, Free
  <2>5. \/ UNCHANGED <<tcpServer, open>>
        \/ /\ Bind /\ pc[Ipc] = "onNew" /\ tcpServer = None /\ tcpServer' # None
           /\ open' = {tcpServer'} /\ pc'[Ipc] = "idle" /\ \A t \in Threads : ~Running(t)
    <3>1. CASE OnNew /\ Bind
      <4>1. pc[Ipc] = "onNew" /\ tcpServer = None /\ open = {} /\ ~userWantsRunning
        BY <3>1 DEF OnNew, Sole, OneSocket
      <4>2. pc'[Ipc] = "idle"
        BY <3>1, <4>1, <2>2 DEF OnNew, Dispatch, OnBound, Bind
      <4> QED
        BY <2>4, <3>1, <4>1, <4>2 DEF Bind, Sole, Gone
    <3>2. CASE ~(OnNew /\ Bind)
      BY Zenon, <1>3, <3>2 DEF UserStep, IpcWork, LiveOn, LiveOff, FaceSwitch, Pause, FaceEndDecode,
         OnEndDecode, OnCheck, OnNew
    <3> QED
      BY <3>1, <3>2
  <2>6. /\ pc'[Ipc] = "onNew" => tcpServer' = None
        /\ \A j \in Jobs : pc'[j] = "start" => tcpServer' # None
    <3>1. CASE UserStep \/ FaceEndDecode \/ OnEndDecode
      <4>1. \/ \E l \in {"onEndDecode", "faceEndDecode", "idle", "onCheck"} : Goto(Ipc, l)
            \/ UNCHANGED pc /\ pc[Ipc] = "idle"
            \/ \E j \in Jobs : Dispatch(j, "stop")
        BY Zenon, <1>3, <3>1 DEF UserStep, LiveOn, LiveOff, FaceSwitch, Pause, Switch, FaceEndDecode,
           OnEndDecode
      <4> QED
        BY <1>1, <4>1 DEF Free, Dispatch
    <3>2. CASE OnCheck
      <4>1. UNCHANGED tcpServer /\ IF tcpServer # None THEN \E j \in Jobs : Dispatch(j, "start")
                                                       ELSE Goto(Ipc, "onNew")
        BY <3>2 DEF OnCheck, OnBound
      <4> QED
        BY <1>1, <4>1 DEF Free, Dispatch
    <3>3. CASE OnNew
      <4>1. \/ tcpServer' # None /\ \E j \in Jobs : Dispatch(j, "start")
            \/ \E l \in {"onCheck", "idle"} : Goto(Ipc, l)
        BY <3>3 DEF OnNew, OnBound, Bind
      <4> QED
        BY <1>1, <4>1 DEF Free, Dispatch
    <3> QED
      BY <3>1, <3>2, <3>3 DEF IpcWork
  <2>7. Alone' /\ Gone'
    BY <2>1, <2>3, <2>4 DEF Sole, Alone, Gone, Running
  <2>8. OneSocket' /\ Listening'
    BY <2>1, <2>3, <2>4, <2>5, <2>6 DEF Sole, OneSocket, Listening, Running
  <2>9. Bound'
    BY <2>3, <2>6 DEF Bound, Early
  <2>10. Served'
    <3>1. CASE UserStep \/ FaceEndDecode \/ OnEndDecode
      BY <1>1, <1>3, <2>1, <3>1 DEF Sole, Served, Free, UserStep, LiveOn, LiveOff, FaceSwitch, Pause,
         Switch, FaceEndDecode, OnEndDecode
    <3>2. CASE OnCheck \/ OnNew
      BY <3>2, <2>1 DEF Served, Free, OnCheck, OnNew, OnBound, Dispatch
    <3> QED
      BY <3>1, <3>2 DEF IpcWork
  <2> QED
    BY <2>7, <2>8, <2>9, <2>10 DEF Sole
<1> QED
  BY <1>2, <1>3

\* As long as the user waits for a switch to be carried out, publishers do not fall
\* silent during sleep(1) and accept() fails on closed listeners only, there is at
\* most one handleRTMP thread, on one listening socket (RTMPServer.m, TCPServer.cpp).
THEOREM OneThread == ~Overlap /\ ~Stall /\ ~Flaky /\ Spec => []Sole
<1> SUFFICES ASSUME ~Overlap, ~Stall, ~Flaky PROVE Spec => []Sole
  OBVIOUS
<1>1. Init => Sole
  BY SlotsAssumption DEF Init, Sole, Alone, OneSocket, Gone, Listening, Asleep, Closed, Bound, Early, Served,
     Running, pcInit, Actors
<1>2. ASSUME TypeOK, Phases, Sole, [Next]_vars PROVE Sole'
  <2>1. Labels /\ Values
    BY <1>2, Halves
  <2>2. CASE UserStep \/ IpcWork
    BY <1>2, <2>1, <2>2, IpcSole
  <2>3. CASE \E j \in Jobs : StartJob(j) \/ StopJob(j)
    BY <1>2, <2>1, <2>3, StartSole, StopSole
  <2>4. CASE \E t \in Threads : ThreadStep(t) \/ NetStep(t)
    BY <1>2, <2>1, <2>4, ThreadSole
  <2>5. CASE DogStep
    BY <1>2, <2>1, <2>5, NoDogStep
  <2>6. CASE Relaunch
    BY <2>6, SlotsAssumption DEF Relaunch, Sole, Alone, OneSocket, Gone, Listening, Asleep, Closed, Bound, Early,
       Served, Running, pcInit, Actors
  <2>7. CASE (\E l \in Listeners : Connect(l)) \/ UNCHANGED vars
    BY <1>2, <2>7 DEF Connect, vars, locals, world, control, run, life, net, streams, user, Sole,
       Alone, OneSocket, Gone, Draining, Listening, Asleep, Closed, Bound, Served, Running, Free
  <2> QED
    BY <1>2, <2>2, <2>3, <2>4, <2>5, <2>6, <2>7 DEF Next
<1>3. Spec => []TypeOK
  BY TypeCorrect
<1>4. ~Overlap /\ Spec => []Phases
  BY LifeCycle
<1> QED
  BY <1>1, <1>2, <1>3, <1>4, PTL DEF Spec

\* Under the same conditions two handleRTMP threads are never at work at once, so no
\* two publishers feed the decoder (TCPServer.cpp).
THEOREM OneAtATime == ~Overlap /\ ~Stall /\ ~Flaky /\ Spec => []OneAcceptor
<1>1. Sole => OneAcceptor
  BY DEF Sole, Alone, OneAcceptor
<1> QED
  BY <1>1, OneThread, PTL

\* Under the same conditions a LIVE on answered with 1935:ok ends with the server
\* running (VCamBridge.m code 1000, RTMPServer.m startServerLoop).
THEOREM OkServes == ~Overlap /\ ~Stall /\ ~Flaky /\ Spec => []OnServes
<1>1. Sole => OnServes
  BY DEF Sole, Served, OnServes, Settled
<1> QED
  BY <1>1, OneThread, PTL
=============================================================================
