----------------------------- MODULE LiveFrames -----------------------------
(***************************************************************************)
(* The frame store between the RTMP thread and the camera threads of       *)
(* mediaserverd:                                                           *)
(*   VCamLiveManager.m   setYUVSampleBuffer:, modifyImageBuffer:, setLive:,*)
(*                       setLiveUserIntent:, setRTMPRotation:              *)
(*   VCamBridge.m        outputFrame:..., codes 1000, 1001, 1005, 1019     *)
(*   MediaServerHooks.m  hook_emitSampleBuffer                             *)
(*                                                                         *)
(* Decoded frames come from the RTMP thread, camera frames from Cameras;   *)
(* both hold _lock for all their work on buffers, which is one step here:  *)
(* the only field they read inside that is written without the lock,       *)
(* _rtmpRotation, is read once.  bLive and _userIntentLive are read and    *)
(* written outside the lock, each access a step of its own.                *)
(***************************************************************************)
EXTENDS Naturals, Integers, Sequences, SequencesExt

CONSTANTS
  Cameras,      \* camera threads
  Rotations,    \* the angles the menu sends, out of {-1, 0, 90, 180, 270}
  DedupMax,     \* VCAM_DEDUP_MAX
  Spread,       \* camera frames in circulation at a time
  MaxShots,     \* bound on camera frames
  MaxFrames     \* bound on decoded frames

ASSUME LiveAssumption ==
  /\ Rotations \subseteq {-1, 0, 90, 180, 270}
  /\ DedupMax \in Nat \ {0} /\ Spread \in Nat \ {0}
  /\ MaxShots \in Nat /\ MaxFrames \in Nat

Shots == 1..MaxShots
NoFrame == [n |-> 0, wide |-> TRUE, angle |-> 0]

VARIABLES
  ipc, job,               \* the IPC thread, the dispatched block
  feeder,                 \* the RTMP thread
  shot,                   \* camera frame a camera thread is at work on, or 0
  bLive, intent, delivers,
  rotation, effective,    \* _rtmpRotation, g_effectiveRTMPRotation
  sample, turned,         \* _liveYUVSampleBuffer, _pixelYUVBuffer90
  dedup,                  \* keys of _dedup
  frames, newest,         \* decoded frames, camera frames so far
  times,                  \* injections of each camera frame in circulation
  injected, settled       \* angle of the last injection; has the current angle been stored?

vars == <<ipc, job, feeder, shot, bLive, intent, delivers, rotation, effective,
          sample, turned, dedup, frames, newest, times, injected, settled>>
flags   == <<bLive, intent, delivers>>
buffers == <<sample, turned, dedup, effective>>
history == <<frames, newest, times, injected>>

Init ==
  /\ ipc = "idle" /\ job = "none" /\ feeder = "idle" /\ shot = [c \in Cameras |-> 0]
  /\ bLive = FALSE /\ intent = FALSE /\ delivers = FALSE
  /\ rotation = -1 /\ effective = 0
  /\ sample = NoFrame /\ turned = NoFrame /\ dedup = <<>>
  /\ frames = 0 /\ newest = 0 /\ times = [k \in Shots |-> 0]
  /\ injected = 0
  /\ settled = TRUE

-----------------------------------------------------------------------------
(* The IPC thread; the user waits for a block before the next switch       *)
(* (RtmpServer is about blocks that overlap).                              *)

Command(label) == ipc = "idle" /\ job = "none" /\ ipc' = label
IpcOnly == UNCHANGED <<feeder, shot, rotation, buffers, history, settled>>

\* code 1000: stop, then _userIntentLive = YES, then bLive = YES
On == /\ Command("onIntent") /\ delivers' = FALSE
      /\ UNCHANGED <<job, bLive, intent>> /\ IpcOnly
OnIntent == /\ ipc = "onIntent" /\ intent' = TRUE /\ ipc' = "onLive"
            /\ UNCHANGED <<job, bLive, delivers>> /\ IpcOnly
OnLive == /\ ipc = "onLive" /\ bLive' = TRUE /\ ipc' = "idle"
          /\ job' \in {"start", "none"}                     \* none: 1935 cannot be bound
          /\ UNCHANGED <<intent, delivers>> /\ IpcOnly

\* code 1001: setLiveUserIntent:NO clears the intent, then bLive (and setLive:NO again)
Off == /\ Command("offLive") /\ intent' = FALSE /\ UNCHANGED <<job, bLive, delivers>> /\ IpcOnly
OffLive == /\ ipc = "offLive" /\ bLive' = FALSE /\ ipc' = "idle" /\ job' = "stop"
           /\ UNCHANGED <<intent, delivers>> /\ IpcOnly

\* code 1005 with value 1: setLive:NO, then stop
Face == /\ Command("facePause") /\ bLive' = FALSE /\ UNCHANGED <<job, intent, delivers>> /\ IpcOnly
FacePause == /\ ipc = "facePause" /\ delivers' = FALSE /\ ipc' = "idle"
             /\ UNCHANGED <<job, bLive, intent>> /\ IpcOnly

\* code 1019
Rotate(r) == /\ Command("idle") /\ r # rotation /\ rotation' = r /\ settled' = FALSE
             /\ UNCHANGED <<job, feeder, shot, flags, buffers, history>>

\* the block: startServerLoop or stopServer, as far as deliveries go; stopServer's
\* sleep(1) outlasts a delivery that is under way
Start == /\ job = "start" /\ delivers' = TRUE /\ job' = "none"
         /\ UNCHANGED <<ipc, bLive, intent>> /\ IpcOnly
Stop == /\ job = "stop" /\ delivers' = FALSE /\ job' = "sleep"
        /\ UNCHANGED <<ipc, bLive, intent>> /\ IpcOnly
Slept == /\ job = "sleep" /\ feeder = "idle" /\ job' = "none"
         /\ UNCHANGED <<ipc, flags>> /\ IpcOnly

-----------------------------------------------------------------------------
(* The RTMP thread: outputFrame: of RTMPServer and of VCamBridge.          *)

FeedOnly == UNCHANGED <<ipc, job, shot, intent, delivers, rotation, newest, times, injected>>

\* "if (!self.deliversFrames) return"; a frame may fail to be wrapped
Frame == /\ feeder = "idle" /\ delivers /\ frames < MaxFrames
         /\ frames' = frames + 1
         /\ feeder' \in {"store", "idle"}
         /\ UNCHANGED <<bLive, buffers, settled>> /\ FeedOnly

\* mutant: always 90, as before the menu had angles
AngleAlways90 == 90
\* the angle the frame is rotated by in advance
Angle == IF rotation = -1 THEN 90 ELSE rotation

\* mutant: a copy that cannot be made leaves the old one in place
CopiesKept(f) == IF Angle = 0 THEN {NoFrame}
                 ELSE {[f EXCEPT !.angle = Angle], turned}
\* what _pixelYUVBuffer90 may become: the old copy is released first
Copies(f) == IF Angle = 0 THEN {NoFrame}
             ELSE {[f EXCEPT !.angle = Angle], NoFrame}

\* the locked part of setYUVSampleBuffer:
Store ==
  /\ feeder = "store" /\ feeder' = "intent"
  /\ \E wide \in BOOLEAN :
       LET f == [n |-> frames, wide |-> wide, angle |-> 0]
       IN /\ sample' \in {f, NoFrame}
          /\ turned' \in Copies(f)
  /\ settled' = (Angle = 0 \/ turned' # NoFrame)
  /\ UNCHANGED <<bLive, dedup, effective, frames>> /\ FeedOnly

\* "if (_userIntentLive && !self.bLive) self.bLive = YES", after the unlock
TestIntent == /\ feeder = "intent" /\ feeder' = IF intent THEN "live" ELSE "idle"
              /\ UNCHANGED <<bLive, buffers, frames, settled>> /\ FeedOnly
TestLive   == /\ feeder = "live" /\ feeder' = IF bLive THEN "idle" ELSE "resume"
              /\ UNCHANGED <<bLive, buffers, frames, settled>> /\ FeedOnly
Resume     == /\ feeder = "resume" /\ bLive' = TRUE /\ feeder' = "idle"
              /\ UNCHANGED <<buffers, frames, settled>> /\ FeedOnly

-----------------------------------------------------------------------------
(* The camera threads.  Camera frame k is a buffer with a timestamp, which *)
(* several nodes may emit; the pool reuses a buffer when nobody holds it,  *)
(* and what was injected into it is forgotten with that.                   *)

Expose == /\ newest < MaxShots /\ newest' = newest + 1
          /\ \A c \in Cameras : shot[c] = 0 \/ shot[c] > newest + 1 - Spread
          /\ times' = [times EXCEPT ![newest' - Spread] = 0]
          /\ UNCHANGED <<ipc, job, feeder, shot, flags, rotation, buffers, frames, injected,
                         settled>>

\* hook_emitSampleBuffer and the unlocked guard of modifyImageBuffer:
Emit(c, k) ==
  /\ shot[c] = 0 /\ k <= newest /\ k > newest - Spread
  /\ bLive /\ sample # NoFrame
  /\ shot' = [shot EXCEPT ![c] = k]
  /\ UNCHANGED <<ipc, job, feeder, flags, rotation, buffers, history, settled>>

\* mutant: Auto reports the angle of the menu instead of the one it chose
ChoiceSaysAuto ==
  [f |-> IF rotation = 0 \/ (rotation = -1 /\ sample.wide) THEN sample ELSE turned,
   said |-> rotation]
\* the frame and angle to inject, and g_effectiveRTMPRotation
Choice ==
  IF rotation = 0 THEN [f |-> sample, said |-> 0]
  ELSE IF rotation > 0 THEN [f |-> turned, said |-> rotation]
  ELSE IF sample.wide THEN [f |-> sample, said |-> 0]        \* same orientation
  ELSE [f |-> turned, said |-> 90]

\* mutant: the oldest entry is evicted before the ring is full
RememberOneLess(k) == dedup' = Append(IF Len(dedup) >= DedupMax - 1 THEN Tail(dedup) ELSE dedup, k)
Remember(k) == dedup' = Append(IF Len(dedup) = DedupMax THEN Tail(dedup) ELSE dedup, k)

\* the locked part of modifyImageBuffer:
Seen(c) == /\ shot[c] # 0 /\ Contains(dedup, shot[c])
           /\ shot' = [shot EXCEPT ![c] = 0]
           /\ UNCHANGED <<ipc, job, feeder, flags, rotation, buffers, history, settled>>
NoSource(c) == /\ shot[c] # 0 /\ ~Contains(dedup, shot[c]) /\ sample = NoFrame
               /\ Remember(shot[c]) /\ shot' = [shot EXCEPT ![c] = 0]
               /\ UNCHANGED <<ipc, job, feeder, flags, rotation, sample, turned, effective,
                              history, settled>>
Inject(c) ==
  /\ shot[c] # 0 /\ ~Contains(dedup, shot[c]) /\ sample # NoFrame
  /\ Remember(shot[c]) /\ shot' = [shot EXCEPT ![c] = 0]
  /\ effective' = Choice.said
  /\ \E ok \in BOOLEAN :
       LET done == ok /\ Choice.f # NoFrame
       IN /\ injected' = IF done THEN Choice.f.angle ELSE injected
          /\ times' = IF done THEN [times EXCEPT ![shot[c]] = @ + 1] ELSE times
  /\ UNCHANGED <<ipc, job, feeder, flags, rotation, sample, turned, frames, newest, settled>>

Next ==
  \/ On \/ OnIntent \/ OnLive \/ Off \/ OffLive
  \/ Face \/ FacePause \/ \E r \in Rotations : Rotate(r)
  \/ Start \/ Stop \/ Slept
  \/ Frame \/ Store \/ TestIntent \/ TestLive \/ Resume
  \/ Expose \/ \E c \in Cameras, k \in Shots : Emit(c, k)
  \/ \E c \in Cameras : Seen(c) \/ NoSource(c) \/ Inject(c)

Spec == Init /\ [][Next]_vars
-----------------------------------------------------------------------------
(* Properties.                                                             *)

Settled == ipc = "idle" /\ job = "none" /\ feeder = "idle"

TypeOK ==
  /\ ipc \in {"idle", "onIntent", "onLive", "offLive", "facePause"}
  /\ job \in {"none", "start", "stop", "sleep"}
  /\ feeder \in {"idle", "store", "intent", "live", "resume"}
  /\ shot \in [Cameras -> Shots \cup {0}]
  /\ {bLive, intent, delivers, settled} \subseteq BOOLEAN
  /\ rotation \in Rotations \cup {-1} /\ effective \in {0, 90, 180, 270}
  /\ sample.n \in 0..MaxFrames /\ turned.n \in 0..MaxFrames
  /\ Len(dedup) <= DedupMax /\ \A i \in 1..Len(dedup) : dedup[i] \in Shots

\* A camera frame that several nodes emit is injected into once, whatever the two
\* camera threads do, as long as _dedup has 2 * Spread - 1 slots: while frame k is in
\* circulation, Spread - 1 older and Spread - 1 newer ones may be entered behind it.
Once == \A k \in Shots : times[k] <= 1

\* The rotated copy is a copy of the current frame: the two are replaced together.
Paired == turned # NoFrame /\ sample # NoFrame => turned.n = sample.n

\* The step injects a frame.
InjectsNow == \E k \in Shots : times'[k] > times[k]

\* Once a frame and its copy were stored under the current angle, what is injected has
\* the angle that g_effectiveRTMPRotation reports to the pixel effects.
Agrees == [][InjectsNow /\ settled => injected' = effective']_vars

\* VCamLiveManager.m, setLiveUserIntent: "User explicitly turned off — clear bLive
\* immediately (no auto-resume for this frame)".
OffStaysOff == Settled /\ ~intent => ~bLive
=============================================================================
