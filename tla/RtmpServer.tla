----------------------------- MODULE RtmpServer -----------------------------
(***************************************************************************)
(* The life cycle of the RTMP ingest server inside mediaserverd:           *)
(*   VCamBridge.m      codes 1000 / 1001 / 1005 of -parse:socketHandle:    *)
(*   RTMPServer.m      startServerLoop, stopDecoding, stopServer,          *)
(*                     handleRTMP, the watchdog                            *)
(*   RTMPServerCXX.mm  the global g_tcpServer and runRTMPAcceptLoop:       *)
(*                                                                         *)
(* Four kinds of actors share the server object without a lock: the run    *)
(* loop thread that parses the IPC packets (Ipc), the blocks it dispatches *)
(* to a CONCURRENT global queue (Jobs), the watchdog timer handler (Dog)   *)
(* and the handleRTMP threads (Threads).  Every test and the act that      *)
(* follows it are two steps, and so are two writes to shared fields.  What *)
(* is one step is a single access, two reads with nothing between them, or *)
(* a write and the read of another field right behind it.                  *)
(***************************************************************************)
EXTENDS Naturals, FiniteSets

CONSTANTS
  Threads,      \* slots for handleRTMP threads
  Jobs,         \* slots for blocks on the global queue
  Decoders,     \* identities of H264Decoder objects
  Listeners,    \* identities of TCPServer objects
  Ipc, Dog,     \* the IPC thread and the watchdog handler
  None,         \* nil
  BindTries,    \* 5 in -parse:, attempts of code 1000 to bind the port
  AcceptTries,  \* 5 in runRTMPAcceptLoop, failures survived by accept()
  RecvTries,    \* 10 in runRTMPAcceptLoop, failures survived by a session
  Overlap,      \* may the user switch again while a job is still running?
  Stall,        \* may a publisher stay silent for the whole of sleep(1)?
  MaxSwitches,  \* bound on the user's switches when they may overlap
  Flaky         \* may accept() fail on a listener that is still open?

Actors == Threads \cup Jobs \cup {Ipc, Dog}

ASSUME SlotsAssumption ==
  /\ Threads \cap Jobs = {} /\ Ipc # Dog
  /\ {Ipc, Dog} \cap (Threads \cup Jobs) = {}
  /\ None \notin Actors \cup Decoders \cup Listeners
ASSUME BoundsAssumption ==
  /\ BindTries \in Nat \ {0} /\ AcceptTries \in Nat /\ RecvTries \in Nat
  /\ MaxSwitches \in Nat
  /\ Overlap \in BOOLEAN /\ Stall \in BOOLEAN /\ Flaky \in BOOLEAN

VARIABLES
  pc, ref, count,               \* control, decoder pointer, retry counter of an actor
  userWantsRunning, deliversFrames, rtmpThread, cancelled, watchdog,
  tcpServer,                    \* g_tcpServer, which may dangle
  allocated, open, pending,     \* TCPServer objects, those listening, with queued clients
  lsn, headed,                  \* listener a thread accepts on, sessions past SPS/PPS
  decoder, vtSession, saved,    \* h264Decoder, its _session, its _savedSPS/_savedPPS
  intent, report,               \* _userIntentLive, last 2001 diagnostic sent
  switches,                     \* the user's switches so far, counted when they may overlap
  fault                         \* what the process died of

locals  == <<pc, ref, count>>
run     == <<userWantsRunning, deliversFrames>>
life    == <<rtmpThread, cancelled, watchdog>>
net     == <<tcpServer, allocated, open, pending>>
streams == <<lsn, headed>>
media   == <<decoder, vtSession, saved>>
user    == <<intent, report, switches>>
control == <<run, life>>
world   == <<control, net, streams, media, user, fault>>
vars    == <<locals, world>>

ThreadPC == {"free", "top", "check", "new", "loop", "accept", "blocked",
             "rebuild", "rebuildClose", "rebuildDelete", "rebuildNull",
             "handshake", "session", "recv", "gotHeader", "gotFrame",
             "init", "decode", "output", "deliver", "exit", "finished"}
JobPC == {"free", "start", "startCreate", "startRead", "startReinit", "startDeliver",
          "startCheck", "startNew", "startThread", "startKeep", "startWants",
          "startSpawn", "startArm", "stop", "stopDelivery", "stopDog",
          "stopDestroy", "stopClose", "stopDelete", "stopNull",
          "stopSleep", "stopThread", "stopEndDecode", "stopRelease"}
IpcPC == {"idle", "onEndDecode", "onCheck", "onNew", "faceEndDecode"}
DogPC == {"idle", "check", "new", "spawn"}

TypeOK ==
  /\ pc \in [Actors -> ThreadPC \cup JobPC \cup IpcPC \cup DogPC]
  /\ \A t \in Threads : pc[t] \in ThreadPC
  /\ \A j \in Jobs : pc[j] \in JobPC
  /\ pc[Ipc] \in IpcPC /\ pc[Dog] \in DogPC
  /\ ref \in [Actors -> Decoders \cup {None}]
  /\ count \in [Actors -> Nat]
  /\ userWantsRunning \in BOOLEAN /\ deliversFrames \in BOOLEAN
  /\ rtmpThread \in Threads \cup {None} /\ cancelled \subseteq Threads
  /\ watchdog \in BOOLEAN
  /\ tcpServer \in Listeners \cup {None}
  /\ allocated \subseteq Listeners /\ open \subseteq allocated /\ pending \subseteq open
  /\ lsn \in [Threads -> Listeners \cup {None}] /\ headed \subseteq Threads
  /\ decoder \in Decoders \cup {None} /\ vtSession \in BOOLEAN /\ saved \in BOOLEAN
  /\ intent \in BOOLEAN /\ report \in {"none", "ok", "fail"}
  /\ switches \in 0..MaxSwitches
  /\ fault \in {"none", "nullServer", "freedServer", "freedDecoder"}

pcInit  == [a \in Actors |-> IF a \in {Ipc, Dog} THEN "idle" ELSE "free"]
refInit == [a \in Actors |-> None]
lsnInit == [t \in Threads |-> None]
countInit == [a \in Actors |-> 0]

Init ==
  /\ pc = pcInit /\ ref = refInit /\ count = countInit
  /\ userWantsRunning = FALSE /\ deliversFrames = FALSE
  /\ rtmpThread = None /\ cancelled = {} /\ watchdog = FALSE
  /\ tcpServer = None /\ allocated = {} /\ open = {} /\ pending = {}
  /\ lsn = lsnInit /\ headed = {}
  /\ decoder = None /\ vtSession = FALSE /\ saved = FALSE
  /\ intent = FALSE /\ report = "none" /\ switches = 0
  /\ fault = "none"

-----------------------------------------------------------------------------
(* Operators shared by the actors.                                         *)

Goto(a, label) == pc' = [pc EXCEPT ![a] = label]
At(a, label)   == fault = "none" /\ pc[a] = label

\* [NSThread isFinished] / isCancelled as startServerLoop and the watchdog read them
Running(t) == pc[t] \notin {"free", "finished"}
\* mutant: an existing thread is never recognised
ThreadUnseen == FALSE
ThreadAlive == rtmpThread # None /\ Running(rtmpThread) /\ rtmpThread \notin cancelled

\* an actor calls through its decoder pointer: only self.h264Decoder owns the object
Dangling(a) == ref[a] # None /\ ref[a] # decoder
Crash(why)  == fault' = why /\ UNCHANGED <<locals, control, net, streams, media, user>>

\* +createActiveTCPServer, first half: "if (g_tcpServer) return YES"
CheckServer(a, found, missing) ==
  Goto(a, IF tcpServer # None THEN found ELSE missing)
\* +createActiveTCPServer, second half: g_tcpServer = new TCPServer(RTMP_PORT)
Bind == \E l \in Listeners \ allocated :
          /\ \A t \in Threads : lsn[t] # l
          /\ tcpServer' = l /\ allocated' = allocated \cup {l} /\ open' = open \cup {l}
          /\ UNCHANGED pending

(* +destroyActiveTCPServer by actor a: the test, destroy(), delete and the   *)
(* assignment of nullptr each read g_tcpServer again, and nothing is locked. *)
Dead == tcpServer \notin allocated \cup {None}
DestroyTest(a, label, found, missing) ==
  /\ At(a, label) /\ Goto(a, IF tcpServer # None THEN found ELSE missing)
  /\ UNCHANGED <<ref, count, world>>

\* mutant: queued clients of the socket survive
ShutdownKeepsQueue == open' = open \ {tcpServer} /\ UNCHANGED pending
\* TCPServer::destroy() shuts the socket down and closes it, once
Shutdown == open' = open \ {tcpServer} /\ pending' = pending \ {tcpServer}

\* g_tcpServer->destroy(): fatal through nullptr; on a freed object it may be
\* fatal, or find _destroyed set and do nothing
DestroyClose(a, label, next) ==
  /\ At(a, label)
  /\ \/ tcpServer = None /\ Crash("nullServer")
     \/ Dead /\ Crash("freedServer")
     \/ /\ tcpServer # None /\ Shutdown /\ Goto(a, next)
        /\ UNCHANGED <<ref, count, control, tcpServer, allocated, streams, media, user, fault>>

\* delete g_tcpServer: nothing for nullptr, fatal the second time; the destructor
\* calls destroy()
DestroyDelete(a, label, next) ==
  /\ At(a, label)
  /\ IF Dead THEN Crash("freedServer")
     ELSE /\ Shutdown /\ allocated' = allocated \ {tcpServer} /\ Goto(a, next)
          /\ UNCHANGED <<ref, count, control, tcpServer, streams, media, user, fault>>

\* mutant: g_tcpServer keeps the address of the deleted object
DestroyForgets(a, label, done) ==
  At(a, label) /\ Goto(a, done) /\ UNCHANGED <<ref, count, world>>
\* g_tcpServer = nullptr
DestroyNull(a, label, done) ==
  /\ At(a, label) /\ tcpServer' = None /\ Goto(a, done)
  /\ UNCHANGED <<ref, count, control, allocated, open, pending, streams, media, user, fault>>

\* -[H264Decoder endDecode] through the pointer of actor a (nil is a no-op)
EndDecode(a) == /\ vtSession' = IF ref[a] = None THEN vtSession ELSE FALSE
                /\ UNCHANGED <<decoder, saved>>
\* -[H264Decoder initDecoder:...]: VT may refuse; SPS/PPS are kept only on success
InitSession == /\ vtSession' \in BOOLEAN
               /\ saved' = (saved \/ vtSession') /\ UNCHANGED decoder

\* -_spawnHandleRTMPThread by actor a: a new thread takes any slot nobody refers to
Spawn(a, label) ==
  \E t \in Threads :
    /\ ~Running(t) /\ rtmpThread # t
    /\ rtmpThread' = t /\ cancelled' = cancelled \ {t}
    /\ pc' = [pc EXCEPT ![t] = "top", ![a] = label]
-----------------------------------------------------------------------------
(* The IPC thread: -parse:socketHandle: on codes 1000, 1001 and 1005.      *)

Free(j) == pc[j] = "free"
MaySwitch == IF Overlap THEN switches < MaxSwitches /\ \E j \in Jobs : Free(j)
                        ELSE \A j \in Jobs : Free(j)
Switch == /\ At(Ipc, "idle") /\ MaySwitch
          /\ switches' = IF Overlap THEN switches + 1 ELSE switches

\* -stop -> -stopDecoding, up to the call of endDecode
Pause(label) ==
  /\ Switch /\ UNCHANGED <<intent, report>>
  /\ deliversFrames' = FALSE
  /\ ref' = [ref EXCEPT ![Ipc] = decoder]
  /\ Goto(Ipc, label)
  /\ UNCHANGED <<count, userWantsRunning, life, net, streams, media, fault>>
LiveOn     == Pause("onEndDecode")       \* code 1000
FaceSwitch == Pause("faceEndDecode")     \* code 1005 with value 1

FaceEndDecode ==
  /\ At(Ipc, "faceEndDecode")
  /\ IF Dangling(Ipc) THEN Crash("freedDecoder")
     ELSE /\ EndDecode(Ipc)
          /\ ref' = [ref EXCEPT ![Ipc] = None] /\ Goto(Ipc, "idle")
          /\ UNCHANGED <<count, control, net, streams, user, fault>>

OnEndDecode ==
  /\ At(Ipc, "onEndDecode")
  /\ IF Dangling(Ipc) THEN Crash("freedDecoder")
     ELSE /\ EndDecode(Ipc)
          /\ intent' = TRUE /\ UNCHANGED <<report, switches>>
          /\ ref' = [ref EXCEPT ![Ipc] = None]
          /\ count' = [count EXCEPT ![Ipc] = 0] /\ Goto(Ipc, "onCheck")
          /\ UNCHANGED <<control, net, streams, fault>>

\* bound: report 1935:ok and dispatch startServerLoop
Dispatch(j, label) == Free(j) /\ pc' = [pc EXCEPT ![j] = label, ![Ipc] = "idle"]
\* mutant: bound and reported, but startServerLoop is not dispatched
OnBoundOnly == report' = "ok" /\ UNCHANGED <<intent, switches>> /\ Goto(Ipc, "idle")
OnBound == report' = "ok" /\ UNCHANGED <<intent, switches>> /\ \E j \in Jobs : Dispatch(j, "start")

OnCheck ==
  /\ At(Ipc, "onCheck")
  /\ IF tcpServer # None THEN OnBound ELSE Goto(Ipc, "onNew") /\ UNCHANGED user
  /\ UNCHANGED <<ref, count, control, net, streams, media, fault>>

OnNew ==
  /\ At(Ipc, "onNew")
  /\ \/ Bind /\ OnBound /\ UNCHANGED count
     \/ /\ count[Ipc] + 1 < BindTries
        /\ count' = [count EXCEPT ![Ipc] = @ + 1] /\ Goto(Ipc, "onCheck")
        /\ UNCHANGED <<net, user>>
     \/ /\ count[Ipc] + 1 = BindTries
        /\ report' = "fail" /\ Goto(Ipc, "idle") /\ UNCHANGED <<net, count, intent, switches>>
  /\ UNCHANGED <<ref, control, streams, media, fault>>

\* code 1001; nothing is dispatched while there is no server object (no 1000 yet)
LiveOff ==
  /\ Switch /\ intent' = FALSE /\ UNCHANGED report
  /\ \E j \in Jobs : IF report = "none" THEN UNCHANGED pc ELSE Dispatch(j, "stop")
  /\ UNCHANGED <<ref, count, control, net, streams, media, fault>>

-----------------------------------------------------------------------------
(* startServerLoop, a block on the concurrent queue.                       *)

\* if (!self.h264Decoder)
StartTest(j) ==
  /\ At(j, "start") /\ Goto(j, IF decoder = None THEN "startCreate" ELSE "startRead")
  /\ UNCHANGED <<ref, count, world>>

\* a new decoder; assigning self.h264Decoder releases the one another block may have put there
StartCreate(j) ==
  /\ At(j, "startCreate")
  /\ \E d \in Decoders \ {decoder} : (\A a \in Actors : ref[a] # d) /\ decoder' = d
  /\ vtSession' = FALSE /\ saved' = FALSE /\ Goto(j, "startDeliver")
  /\ UNCHANGED <<ref, count, control, net, streams, user, fault>>

\* dec = self.h264Decoder, a second read of the field
StartRead(j) ==
  /\ At(j, "startRead") /\ ref' = [ref EXCEPT ![j] = decoder] /\ Goto(j, "startReinit")
  /\ UNCHANGED <<count, world>>

\* [dec reinitFromSaved]
StartReinit(j) ==
  /\ At(j, "startReinit")
  /\ IF Dangling(j) THEN Crash("freedDecoder")
     ELSE /\ IF ref[j] # None /\ saved THEN InitSession ELSE UNCHANGED media
          /\ ref' = [ref EXCEPT ![j] = None] /\ Goto(j, "startDeliver")
          /\ UNCHANGED <<count, control, net, streams, user, fault>>

StartDeliver(j) ==
  /\ At(j, "startDeliver") /\ deliversFrames' = TRUE /\ Goto(j, "startCheck")
  /\ UNCHANGED <<ref, count, userWantsRunning, life, net, streams, media, user, fault>>

StartCheck(j) ==
  /\ At(j, "startCheck") /\ CheckServer(j, "startThread", "startNew")
  /\ UNCHANGED <<ref, count, world>>

StartNew(j) ==
  /\ At(j, "startNew")
  /\ \/ Bind /\ Goto(j, "startThread")
     \/ UNCHANGED net /\ Goto(j, "free")
  /\ UNCHANGED <<ref, count, control, streams, media, user, fault>>

StartThread(j) ==
  /\ At(j, "startThread") /\ Goto(j, IF ThreadAlive THEN "startKeep" ELSE "startWants")
  /\ UNCHANGED <<ref, count, world>>

\* self.userWantsRunning = YES, in both branches
StartWants(j) ==
  /\ fault = "none" /\ pc[j] \in {"startKeep", "startWants"} /\ userWantsRunning' = TRUE
  /\ Goto(j, IF pc[j] = "startKeep" THEN "free" ELSE "startSpawn")
  /\ UNCHANGED <<ref, count, deliversFrames, life, net, streams, media, user, fault>>

StartSpawn(j) ==
  /\ At(j, "startSpawn") /\ Spawn(j, "startArm")
  /\ UNCHANGED <<ref, count, run, watchdog, net, streams, media, user, fault>>

\* mutant: the watchdog is left disarmed
StartUnarmed(j) ==
  /\ At(j, "startArm") /\ Goto(j, "free") /\ UNCHANGED <<ref, count, world>>

StartArm(j) ==
  /\ At(j, "startArm") /\ watchdog' = TRUE /\ Goto(j, "free")
  /\ UNCHANGED <<ref, count, run, rtmpThread, cancelled, net, streams, media, user, fault>>
-----------------------------------------------------------------------------
(* stopServer, a block on the concurrent queue.                            *)

StopFlags(j) ==
  /\ At(j, "stop") /\ userWantsRunning' = FALSE /\ Goto(j, "stopDelivery")
  /\ UNCHANGED <<ref, count, deliversFrames, life, net, streams, media, user, fault>>

\* mutant: deliversFrames is forgotten
StopKeepsDelivery(j) ==
  /\ At(j, "stopDelivery") /\ Goto(j, "stopDog") /\ UNCHANGED <<ref, count, world>>

StopDelivery(j) ==
  /\ At(j, "stopDelivery") /\ deliversFrames' = FALSE /\ Goto(j, "stopDog")
  /\ UNCHANGED <<ref, count, userWantsRunning, life, net, streams, media, user, fault>>

StopDog(j) ==
  /\ At(j, "stopDog") /\ watchdog' = FALSE /\ Goto(j, "stopDestroy")
  /\ UNCHANGED <<ref, count, run, rtmpThread, cancelled, net, streams, media, user, fault>>

StopDestroy(j) ==
  \/ DestroyTest(j, "stopDestroy", "stopClose", "stopSleep")
  \/ DestroyClose(j, "stopClose", "stopDelete")
  \/ DestroyDelete(j, "stopDelete", "stopNull")
  \/ DestroyNull(j, "stopNull", "stopSleep")

\* mutant: no sleep at all
NoSleep == TRUE
\* sleep(1) waits for nobody, but a second is enough for every thread that sees
\* userWantsRunning = NO to return, except one that waits in accept() on a
\* listener nobody closed or, if publishers may stall, for bytes from the network.
SleptEnough ==
  \/ userWantsRunning
  \/ \A t \in Threads : Running(t) =>
       \/ pc[t] = "blocked" /\ lsn[t] \in open
       \/ Stall /\ pc[t] \in {"handshake", "recv"}

StopSleep(j) ==
  /\ At(j, "stopSleep") /\ SleptEnough /\ cancelled' = cancelled \cup ({rtmpThread} \ {None})
  /\ Goto(j, "stopThread")
  /\ UNCHANGED <<ref, count, run, rtmpThread, watchdog, net, streams, media, user, fault>>

\* mutant: RTMPThread is kept
StopKeepsThread(j) ==
  /\ At(j, "stopThread") /\ ref' = [ref EXCEPT ![j] = decoder] /\ Goto(j, "stopEndDecode")
  /\ UNCHANGED <<count, world>>

\* self.RTMPThread = nil; dec = self.h264Decoder
StopThread(j) ==
  /\ At(j, "stopThread") /\ rtmpThread' = None
  /\ ref' = [ref EXCEPT ![j] = decoder] /\ Goto(j, "stopEndDecode")
  /\ UNCHANGED <<count, run, cancelled, watchdog, net, streams, media, user, fault>>

StopEndDecode(j) ==
  /\ At(j, "stopEndDecode")
  /\ IF Dangling(j) THEN Crash("freedDecoder")
     ELSE /\ EndDecode(j)
          /\ ref' = [ref EXCEPT ![j] = None] /\ Goto(j, "stopRelease")
          /\ UNCHANGED <<count, control, net, streams, user, fault>>

\* self.h264Decoder = nil frees the object
StopRelease(j) ==
  /\ At(j, "stopRelease")
  /\ decoder' = None /\ vtSession' = FALSE /\ saved' = FALSE /\ Goto(j, "free")
  /\ UNCHANGED <<ref, count, control, net, streams, user, fault>>

-----------------------------------------------------------------------------
(* The watchdog handler.  Cancelling the source does not stop a handler    *)
(* that is already running.                                                *)

DogTick ==
  /\ At(Dog, "idle") /\ watchdog /\ userWantsRunning /\ ~ThreadAlive
  /\ Goto(Dog, "check")
  /\ UNCHANGED <<ref, count, world>>

DogCheck ==
  /\ At(Dog, "check") /\ CheckServer(Dog, "spawn", "new")
  /\ UNCHANGED <<ref, count, world>>

DogNew ==
  /\ At(Dog, "new")
  /\ \/ Bind /\ Goto(Dog, "spawn")
     \/ UNCHANGED net /\ Goto(Dog, "idle")
  /\ UNCHANGED <<ref, count, control, streams, media, user, fault>>

DogSpawn ==
  /\ At(Dog, "spawn") /\ Spawn(Dog, "idle")
  /\ UNCHANGED <<ref, count, run, watchdog, net, streams, media, user, fault>>

-----------------------------------------------------------------------------
(* handleRTMP and runRTMPAcceptLoop:, one thread t.                        *)

Top(t) ==
  /\ At(t, "top") /\ Goto(t, IF userWantsRunning THEN "check" ELSE "exit")
  /\ UNCHANGED <<ref, count, world>>

\* runRTMPAcceptLoop: starts with acceptFailCount = 0
Check(t) ==
  /\ At(t, "check") /\ CheckServer(t, "loop", "new") /\ count' = [count EXCEPT ![t] = 0]
  /\ UNCHANGED <<ref, world>>

New(t) ==
  /\ At(t, "new")
  /\ \/ Bind /\ Goto(t, "loop")
     \/ UNCHANGED net /\ Goto(t, "top")
  /\ UNCHANGED <<ref, count, control, streams, media, user, fault>>

Loop(t) ==
  /\ At(t, "loop") /\ Goto(t, IF userWantsRunning /\ tcpServer # None THEN "accept" ELSE "top")
  /\ UNCHANGED <<ref, count, world>>

\* g_tcpServer->accept(): the pointer is read again, after the test in Loop; on a
\* freed object the call may be fatal, or fail on the closed descriptor
Accept(t) ==
  /\ At(t, "accept")
  /\ \/ tcpServer = None /\ Crash("nullServer")
     \/ Dead /\ Crash("freedServer")
     \/ /\ tcpServer # None
        /\ lsn' = [lsn EXCEPT ![t] = tcpServer] /\ Goto(t, "blocked")
        /\ UNCHANGED <<ref, count, control, net, headed, media, user, fault>>

Accepted(t) ==
  /\ At(t, "blocked") /\ lsn[t] \in pending
  /\ pending' = pending \ {lsn[t]} /\ UNCHANGED <<tcpServer, allocated, open>>
  /\ lsn' = [lsn EXCEPT ![t] = None] /\ UNCHANGED headed
  /\ count' = [count EXCEPT ![t] = 0] /\ Goto(t, "handshake")
  /\ UNCHANGED <<ref, control, media, user, fault>>

\* accept() throws: the listener was shut down, or a transient error
AcceptFails(t) ==
  /\ At(t, "blocked") /\ (Flaky \/ lsn[t] \notin open)
  /\ lsn' = [lsn EXCEPT ![t] = None] /\ UNCHANGED headed
  /\ IF userWantsRunning
     THEN /\ count' = [count EXCEPT ![t] = IF @ < AcceptTries THEN @ + 1 ELSE 0]
          /\ Goto(t, IF count[t] < AcceptTries THEN "loop" ELSE "rebuild")
     ELSE Goto(t, "top") /\ UNCHANGED count
  /\ UNCHANGED <<ref, control, net, media, user, fault>>

Rebuild(t) ==
  \/ DestroyTest(t, "rebuild", "rebuildClose", "top")
  \/ DestroyClose(t, "rebuildClose", "rebuildDelete")
  \/ DestroyDelete(t, "rebuildDelete", "rebuildNull")
  \/ DestroyNull(t, "rebuildNull", "top")

\* doHandshake and the session constructor: done, or thrown out of
Handshake(t) ==
  /\ At(t, "handshake") /\ \E l \in {"session", "loop"} : Goto(t, l)
  /\ UNCHANGED <<ref, count, world>>

\* delete session / endpoint / layer, back to the accept loop
Close(t) == /\ Goto(t, "loop") /\ headed' = headed \ {t} /\ UNCHANGED lsn
            /\ count' = [count EXCEPT ![t] = 0]

\* mutant: the session loop ends on errors only
SessionUnchecked(t) ==
  /\ At(t, "session") /\ Goto(t, "recv")
  /\ UNCHANGED <<ref, count, streams, control, net, media, user, fault>>
Session(t) ==
  /\ At(t, "session")
  /\ IF userWantsRunning THEN Goto(t, "recv") /\ UNCHANGED <<count, streams>>
                         ELSE Close(t)
  /\ UNCHANGED <<ref, control, net, media, user, fault>>

\* GetRTMPMessage returns: a publisher sends SPS/PPS once, then frames
RecvHeader(t) ==
  /\ At(t, "recv") /\ t \notin headed /\ headed' = headed \cup {t} /\ UNCHANGED lsn
  /\ count' = [count EXCEPT ![t] = 0] /\ Goto(t, "gotHeader")
  /\ UNCHANGED <<ref, control, net, media, user, fault>>

RecvFrame(t) ==
  /\ At(t, "recv") /\ t \in headed /\ count' = [count EXCEPT ![t] = 0] /\ Goto(t, "gotFrame")
  /\ UNCHANGED <<ref, world>>

\* GetRTMPMessage throws: retried up to RecvTries times in a row
RecvError(t) ==
  /\ At(t, "recv")
  /\ IF count[t] < RecvTries /\ userWantsRunning
     THEN /\ count' = [count EXCEPT ![t] = @ + 1]
          /\ Goto(t, "session") /\ UNCHANGED streams
     ELSE Close(t)
  /\ UNCHANGED <<ref, control, net, media, user, fault>>

\* decoder = server.h264Decoder, a raw pointer
Refresh(t) ==
  /\ fault = "none" /\ pc[t] \in {"gotHeader", "gotFrame"}
  /\ ref' = [ref EXCEPT ![t] = decoder]
  /\ Goto(t, IF decoder = None THEN "session"
             ELSE IF pc[t] = "gotHeader" THEN "init" ELSE "decode")
  /\ UNCHANGED <<count, world>>

InitDecoder(t) ==
  /\ At(t, "init")
  /\ IF Dangling(t) THEN Crash("freedDecoder")
     ELSE /\ InitSession
          /\ ref' = [ref EXCEPT ![t] = None] /\ Goto(t, "session")
          /\ UNCHANGED <<count, control, net, streams, user, fault>>

\* -decode:size:pts: has a session, or the parameter sets to open one
\* mutant: a lost session is not reopened from the saved parameter sets
Unrecoverable == vtSession
Recoverable == vtSession \/ saved

\* -decode:size:pts: reopens a closed session from the saved SPS/PPS (or is held
\* back by the 0.2 s limit, or by VT); a frame comes out, or not yet, or the
\* session turns out to be invalid and is closed by the next call
Decode(t) ==
  /\ At(t, "decode")
  /\ IF Dangling(t) THEN Crash("freedDecoder")
     ELSE /\ vtSession' \in IF Recoverable THEN BOOLEAN ELSE {FALSE}
          /\ \E l \in IF vtSession' THEN {"output", "session"} ELSE {"session"} : Goto(t, l)
          /\ ref' = [ref EXCEPT ![t] = None]
          /\ UNCHANGED <<count, control, net, streams, decoder, saved, user, fault>>

\* -outputFrame: tests deliversFrames ...
Output(t) ==
  /\ At(t, "output") /\ Goto(t, IF deliversFrames THEN "deliver" ELSE "session")
  /\ UNCHANGED <<ref, count, world>>

\* ... and forwards to the delegate afterwards
Deliver(t) ==
  /\ At(t, "deliver") /\ Goto(t, "session") /\ UNCHANGED <<ref, count, world>>

Exit(t) ==
  /\ At(t, "exit") /\ Goto(t, "finished") /\ UNCHANGED <<ref, count, world>>

-----------------------------------------------------------------------------
(* The outside: a publisher connects; a crashed mediaserverd is relaunched *)

Connect(l) ==
  /\ fault = "none" /\ l \in open \ pending
  /\ pending' = pending \cup {l} /\ UNCHANGED <<tcpServer, allocated, open>>
  /\ UNCHANGED <<locals, control, streams, media, user, fault>>

Relaunch ==
  /\ fault # "none" /\ fault' = "none"
  /\ pc' = pcInit /\ ref' = refInit /\ count' = countInit
  /\ userWantsRunning' = FALSE /\ deliversFrames' = FALSE
  /\ rtmpThread' = None /\ cancelled' = {} /\ watchdog' = FALSE
  /\ tcpServer' = None /\ allocated' = {} /\ open' = {} /\ pending' = {}
  /\ lsn' = lsnInit /\ headed' = {}
  /\ decoder' = None /\ vtSession' = FALSE /\ saved' = FALSE
  /\ intent' = FALSE /\ report' = "none" /\ UNCHANGED switches

UserStep == LiveOn \/ LiveOff \/ FaceSwitch
IpcWork == FaceEndDecode \/ OnEndDecode \/ OnCheck \/ OnNew
StartJob(j) == StartTest(j) \/ StartCreate(j) \/ StartRead(j) \/ StartReinit(j)
               \/ StartDeliver(j) \/ StartCheck(j) \/ StartNew(j)
               \/ StartThread(j) \/ StartWants(j) \/ StartSpawn(j) \/ StartArm(j)
StopJob(j) == StopFlags(j) \/ StopDelivery(j) \/ StopDog(j) \/ StopDestroy(j) \/ StopSleep(j)
              \/ StopThread(j) \/ StopEndDecode(j) \/ StopRelease(j)
DogStep == DogTick \/ DogCheck \/ DogNew \/ DogSpawn
ThreadStep(t) == Top(t) \/ Check(t) \/ New(t) \/ Loop(t) \/ Accept(t) \/ Rebuild(t)
                 \/ Session(t) \/ Refresh(t) \/ InitDecoder(t) \/ Decode(t)
                 \/ Output(t) \/ Deliver(t) \/ Exit(t)
NetStep(t) == Accepted(t) \/ AcceptFails(t) \/ Handshake(t)
              \/ RecvHeader(t) \/ RecvFrame(t) \/ RecvError(t)

Next ==
  \/ UserStep \/ IpcWork \/ DogStep \/ Relaunch
  \/ \E j \in Jobs : StartJob(j) \/ StopJob(j)
  \/ \E t \in Threads : ThreadStep(t) \/ NetStep(t)
  \/ \E l \in Listeners : Connect(l)

Spec == Init /\ [][Next]_vars

(* Fairness.  Threads, blocks and timers are scheduled; a relaunch happens;   *)
(* publishers connect, and a session either brings a message or fails.       *)
(* Failures that the code retries are transient: a handshake, a message, a   *)
(* bind, a VT session that is possible again and again succeeds in the end.  *)
(* Nothing is assumed of the user.                                           *)
Scheduled ==
  /\ WF_vars(IpcWork) /\ WF_vars(DogStep) /\ WF_vars(Relaunch)
  /\ \A j \in Jobs : WF_vars(StartJob(j) \/ StopJob(j))
  /\ \A t \in Threads : WF_vars(ThreadStep(t)) /\ WF_vars(NetStep(t))
  /\ \A l \in Listeners : WF_vars(Connect(l))
Transient ==
  \A t \in Threads :
    /\ SF_vars(Accepted(t)) /\ SF_vars(RecvHeader(t)) /\ SF_vars(RecvFrame(t))
    /\ SF_vars(Handshake(t) /\ pc'[t] = "session")
    /\ SF_vars(New(t) /\ pc'[t] = "loop")
    /\ SF_vars(Decode(t) /\ pc'[t] = "output")

FairSpec == Spec /\ Scheduled /\ Transient
-----------------------------------------------------------------------------
(* Properties.                                                             *)

\* nothing is in flight: the IPC thread and the watchdog are idle, no block runs
Settled == /\ fault = "none" /\ pc[Ipc] = "idle" /\ pc[Dog] = "idle"
           /\ \A j \in Jobs : Free(j)

\* After LIVE off has been carried out the server object is at rest: it neither
\* wants to run nor delivers, holds no decoder and no thread, no watchdog is armed.
OffQuiet ==
  Settled /\ ~intent =>
    /\ ~userWantsRunning /\ ~deliversFrames /\ ~watchdog
    /\ decoder = None /\ rtmpThread = None

\* RTMPServer.m calls stopServer a "full teardown": after LIVE off no socket listens.
\* The code does not keep this; see README.md, Findings.
PortClosed == Settled /\ ~intent => open = {}

\* LIVE on that was reported as bound (1935:ok) ends with the server running.
OnServes == Settled /\ intent /\ report = "ok" => userWantsRunning

\* TCPServer.cpp: one publisher at a time, the next accept() only after the
\* previous session is gone, hence never two handleRTMP threads at work.
OneAcceptor == \A t, u \in Threads : Running(t) /\ Running(u) => t = u

\* Once LIVE off has been carried out no thread is forwarding a frame.
SilentAfterOff ==
  Settled /\ ~intent => \A t \in Threads : pc[t] # "deliver"

\* The life cycle when switches do not overlap, phase by phase: one block at a time
\* and only while the IPC thread is idle, a watchdog with nothing to do, and what
\* each phase of startServerLoop and stopServer finds and leaves behind.
Alive == /\ rtmpThread # None /\ rtmpThread \notin cancelled
         /\ pc[rtmpThread] \notin {"free", "exit", "finished"}
Silent == ~deliversFrames /\ \A t \in Threads : pc[t] # "deliver"
Rest == IF userWantsRunning
        THEN intent /\ watchdog /\ Alive /\ decoder # None
        ELSE /\ ~watchdog /\ rtmpThread = None
             /\ ~intent => decoder = None /\ Silent
OneBlock == /\ \A j, k \in Jobs : ~Free(j) /\ ~Free(k) => j = k
            /\ pc[Ipc] # "idle" => \A j \in Jobs : Free(j)
Unbound == report = "none" =>
             ~userWantsRunning /\ decoder = None /\ Silent /\ \A j \in Jobs : Free(j)
Starting(j) ==
  /\ pc[j] \in {"start", "startCreate", "startRead", "startReinit", "startDeliver",
                "startCheck", "startNew", "startThread", "startKeep", "startWants"} =>
       intent /\ Rest
  /\ pc[j] \in {"startRead", "startReinit", "startDeliver", "startCheck", "startNew",
                "startThread", "startKeep", "startWants", "startSpawn", "startArm"} =>
       decoder # None
  /\ pc[j] = "startKeep" => userWantsRunning
  /\ pc[j] = "startWants" => ~watchdog /\ rtmpThread = None
  /\ pc[j] = "startSpawn" => intent /\ userWantsRunning /\ ~watchdog /\ rtmpThread = None
  /\ pc[j] = "startArm" => intent /\ userWantsRunning /\ Alive
Closing == {"stopDestroy", "stopClose", "stopDelete", "stopNull", "stopSleep"}
Ending == {"stopThread", "stopEndDecode", "stopRelease"}
Stopping(j) ==
  /\ pc[j] = "stop" => ~intent /\ (userWantsRunning => Alive)
  /\ pc[j] \in {"stopDelivery", "stopDog"} \cup Closing \cup Ending =>
       ~intent /\ ~userWantsRunning
  /\ pc[j] \in {"stopDog"} \cup Closing \cup Ending => ~deliversFrames
  /\ pc[j] \in Closing \cup Ending => ~watchdog
  /\ pc[j] \in Ending => Silent
  /\ pc[j] \in {"stopEndDecode", "stopRelease"} => rtmpThread = None
Phases ==
  /\ OneBlock /\ Unbound /\ pc[Dog] = "idle"
  /\ pc[Ipc] \in {"onCheck", "onNew"} => intent
  /\ (\A j \in Jobs : Free(j)) => Rest
  /\ \A j \in Jobs : Starting(j) /\ Stopping(j)

\* No actor calls through a pointer to a decoder that was released.
DecoderOwned == fault # "freedDecoder"

\* Actor a is past destroy() and has not set g_tcpServer to nullptr yet.
Destroying(a) == pc[a] \in {"stopDelete", "stopNull", "rebuildDelete", "rebuildNull"}

\* g_tcpServer may be the address of a closed or freed server only while somebody is
\* in the middle of destroyActiveTCPServer, however many create and destroy servers
\* at once: nobody leaves an address behind that createActiveTCPServer would take
\* for a server for good.
ServerOpen == \/ tcpServer \in open \cup {None}
              \/ \E a \in Threads \cup Jobs : Destroying(a)

\* With no block in flight RTMPThread is never a thread that was told to cancel.
CurrentNotCancelled == Settled => rtmpThread \notin cancelled

\* The actors inside a method of the decoder object they hold.
InDecoder(a) == /\ ref[a] # None
                /\ pc[a] \in {"onEndDecode", "faceEndDecode", "startReinit",
                              "stopEndDecode", "init", "decode"}

\* H264Decoder.m: "All s_rb* accesses are single-threaded": no two threads are
\* ever inside the decoder, which owns the VT session and the reorder ring.
SingleThreaded == \A a, b \in Actors : InDecoder(a) /\ InDecoder(b) => a = b

\* RTMPServer.m on stopServer: the loops "both exit cleanly", so nobody calls through
\* nullptr or into a freed server.  The code does not keep this; see README.md, Findings.
CleanExit == fault \notin {"nullServer", "freedServer"}

\* While LIVE stays on and the decoder knows the stream's SPS/PPS, frames reach
\* the delegate again and again, across lost sessions, lost VT sessions
\* and repeated LIVE on commands.
Streams == <>[](deliversFrames /\ saved) => []<>(\E t \in Threads : pc[t] = "deliver")

\* Once stopServer has begun, every handleRTMP thread comes to its end.
StopDrains ==
  \A j \in Jobs : pc[j] = "stop" ~> \A t \in Threads : ~Running(t)
=============================================================================
