------------------------- MODULE LiveFrames_proofs -------------------------
(***************************************************************************)
(* What LiveFrames guarantees for every number of camera threads, frames   *)
(* and angles, whichever copies, rotations and transfers fail: the rotated *)
(* copy belongs to the current frame (Paired), and injections agree with   *)
(* g_effectiveRTMPRotation once a frame and its copy were stored (Agrees). *)
(***************************************************************************)
EXTENDS LiveFrames, SequenceTheorems, FiniteSetTheorems, TLAPS

\* Actions that leave the two buffers and the requested angle alone.
Elsewhere ==
  \/ On \/ OnIntent \/ OnLive \/ Off \/ OffLive \/ Face \/ FacePause \/ Start \/ Stop \/ Slept
  \/ Frame \/ TestIntent \/ TestLive \/ Resume
  \/ Expose \/ \E c \in Cameras, k \in Shots : Emit(c, k)
  \/ \E c \in Cameras : Seen(c) \/ NoSource(c)

\* Every step stores a frame, changes the angle, injects, or is elsewhere.
LEMMA Kinds ==
  ASSUME [Next]_vars
  PROVE  Store \/ (\E r \in Rotations : Rotate(r)) \/ (\E c \in Cameras : Inject(c))
         \/ Elsewhere \/ UNCHANGED vars
BY Zenon DEF Next, Elsewhere

LEMMA ElsewhereKeeps ==
  ASSUME Elsewhere
  PROVE  UNCHANGED <<sample, turned, rotation, settled, injected>>
<1>1. CASE On \/ OnIntent \/ OnLive \/ Off \/ OffLive \/ Face \/ FacePause
  BY <1>1 DEF On, OnIntent, OnLive, Off, OffLive, Face, FacePause, Command, IpcOnly, buffers,
              history
<1>2. CASE Start \/ Stop \/ Slept
  BY <1>2 DEF Start, Stop, Slept, IpcOnly, buffers, history
<1>3. CASE Frame \/ TestIntent \/ TestLive \/ Resume
  BY <1>3 DEF Frame, TestIntent, TestLive, Resume, FeedOnly, buffers
<1>4. CASE Expose \/ \E c \in Cameras, k \in Shots : Emit(c, k)
  BY <1>4 DEF Expose, Emit, buffers, history
<1>5. CASE \E c \in Cameras : Seen(c) \/ NoSource(c)
  BY <1>5 DEF Seen, NoSource, buffers, history
<1>. QED  BY <1>1, <1>2, <1>3, <1>4, <1>5 DEF Elsewhere

-----------------------------------------------------------------------------
(* The rotated copy and the frame.                                         *)

\* setYUVSampleBuffer: releases the old copy before it stores a new frame, so
\* _pixelYUVBuffer90 never belongs to a frame older than _liveYUVSampleBuffer.
THEOREM CopyOfCurrent == Spec => []Paired
<1>1. Init => Paired
  BY DEF Init, Paired
<1>2. Paired /\ [Next]_vars => Paired'
  <2>. SUFFICES ASSUME Paired, [Next]_vars PROVE Paired'
    OBVIOUS
  <2>1. CASE Store
    <3>1. PICK f \in [n : {frames}, wide : BOOLEAN, angle : {0}] :
            sample' \in {f, NoFrame} /\ turned' \in Copies(f)
      <4>1. PICK wide \in BOOLEAN :
              LET f == [n |-> frames, wide |-> wide, angle |-> 0]
              IN /\ sample' \in {f, NoFrame}
                 /\ turned' \in Copies(f)
        BY <2>1 DEF Store
      <4>. QED  BY <4>1
    <3>2. turned' # NoFrame => turned'.n = frames
      BY <3>1 DEF Copies
    <3>3. sample' # NoFrame => sample'.n = frames
      BY <3>1
    <3>. QED  BY <3>2, <3>3 DEF Paired, NoFrame
  <2>2. CASE \E r \in Rotations : Rotate(r)
    BY <2>2 DEF Rotate, buffers, Paired
  <2>3. CASE \E c \in Cameras : Inject(c)
    BY <2>3 DEF Inject, Paired
  <2>4. CASE Elsewhere
    BY <2>4, ElsewhereKeeps DEF Paired
  <2>5. CASE UNCHANGED vars
    BY <2>5 DEF vars, Paired
  <2>. QED  BY <2>1, <2>2, <2>3, <2>4, <2>5, Kinds
<1>. QED  BY <1>1, <1>2, PTL DEF Spec

-----------------------------------------------------------------------------
(* The angle of an injection.                                              *)

\* The angles are those of the menu, the frame itself is never rotated, and once a
\* frame was stored under the current angle its copy is there and has that angle.
Fresh ==
  /\ rotation \in {-1, 0, 90, 180, 270}
  /\ sample.angle = 0
  /\ settled /\ sample # NoFrame /\ rotation # 0 =>
       turned # NoFrame /\ turned.angle = Angle

LEMMA InitFresh == Init => Fresh
BY DEF Init, Fresh, NoFrame

LEMMA StoreFresh ==
  ASSUME Fresh, Store
  PROVE  Fresh'
<1>1. rotation' = rotation /\ Angle' = Angle
  BY DEF Store, FeedOnly, Angle
<1>2. PICK f \in [n : {frames}, wide : BOOLEAN, angle : {0}] :
        sample' \in {f, NoFrame} /\ turned' \in Copies(f)
  <2>1. PICK wide \in BOOLEAN :
          LET f == [n |-> frames, wide |-> wide, angle |-> 0]
          IN sample' \in {f, NoFrame} /\ turned' \in Copies(f)
    BY DEF Store
  <2>. QED  BY <2>1
<1>3. sample'.angle = 0
  BY <1>2 DEF NoFrame
<1>4. turned' # NoFrame => turned'.angle = Angle
  BY <1>2 DEF Copies
<1>5. rotation # 0 => Angle # 0
  BY DEF Angle
<1>6. settled' => Angle = 0 \/ turned' # NoFrame
  BY DEF Store
<1>. QED  BY <1>1, <1>3, <1>4, <1>5, <1>6 DEF Fresh

LEMMA StepFresh == Fresh /\ [Next]_vars => Fresh'
<1>. SUFFICES ASSUME Fresh, [Next]_vars PROVE Fresh'
  OBVIOUS
<1>1. CASE Store
  BY <1>1, StoreFresh
<1>2. CASE \E r \in Rotations : Rotate(r)
  BY <1>2, LiveAssumption DEF Rotate, buffers, Fresh
<1>3. CASE \E c \in Cameras : Inject(c)
  BY <1>3 DEF Inject, Fresh, Angle
<1>4. CASE Elsewhere
  BY <1>4, ElsewhereKeeps DEF Fresh, Angle
<1>5. CASE UNCHANGED vars
  BY <1>5 DEF vars, Fresh, Angle
<1>. QED  BY <1>1, <1>2, <1>3, <1>4, <1>5, Kinds

\* An injection after a settled store is rotated as modifyImageBuffer: reports it in
\* g_effectiveRTMPRotation.
LEMMA InjectAgrees ==
  ASSUME Fresh, settled, NEW c \in Cameras, Inject(c), times' # times
  PROVE  injected' = effective'
<1>1. sample # NoFrame /\ effective' = Choice.said
  BY DEF Inject
<1>2. injected' = Choice.f.angle
  BY DEF Inject
<1>3. Choice.f.angle = Choice.said
  <2>1. CASE rotation = 0
    BY <2>1, <1>1 DEF Choice, Fresh
  <2>2. CASE rotation > 0
    <3>1. rotation # 0 /\ rotation # -1
      BY <2>2
    <3>. QED  BY <2>2, <3>1, <1>1 DEF Choice, Fresh, Angle
  <2>3. CASE rotation = -1
    <3>1. ~(rotation > 0) /\ rotation # 0
      BY <2>3
    <3>2. turned # NoFrame /\ turned.angle = 90
      BY <2>3, <3>1, <1>1 DEF Fresh, Angle
    <3>. QED  BY <3>1, <3>2, <1>1 DEF Choice, Fresh
  <2>. QED  BY <2>1, <2>2, <2>3 DEF Fresh
<1>. QED  BY <1>1, <1>2, <1>3

-----------------------------------------------------------------------------
(* The ring of camera frames worked on.                                    *)

LiveTypeOK ==
  /\ TypeOK
  /\ dedup \in Seq(Shots)
  /\ frames \in 0..MaxFrames /\ newest \in 0..MaxShots
  /\ times \in [Shots -> Nat]

\* The entries of ring d are distinct and none is newer than n; one entered after
\* another is not older than it by Spread frames.
Ring(d, n) ==
  /\ \A i \in 1..Len(d) : d[i] <= n
  /\ \A i, j \in 1..Len(d) : i < j => d[i] # d[j] /\ d[j] > d[i] - Spread

\* Frame k may still be in circulation when n is the newest.
Recent(k, n) == k > n - Spread
Circulates(k, n) == k <= n /\ Recent(k, n)

\* A frame in circulation that was injected is in the ring, and only frames in
\* circulation are worked on.
OnceInv ==
  /\ Ring(dedup, newest)
  /\ \A c \in Cameras : shot[c] # 0 => Circulates(shot[c], newest)
  /\ \A k \in Shots : times[k] <= 1 /\ (times[k] = 1 /\ Recent(k, newest) => Contains(dedup, k))

\* A full ring of 2 * Spread - 1 slots has lost the frames in circulation from its
\* oldest slot: otherwise it would hold more frames than come between.
LEMMA Evicted ==
  ASSUME NEW d \in Seq(Shots), NEW k \in Shots, NEW n \in Nat,
         DedupMax >= 2 * Spread - 1, Len(d) = DedupMax,
         Ring(d, n), k <= n, k > n - Spread, \A i \in 1..Len(d) : d[i] # k
  PROVE  d[1] <= n - Spread
<1> DEFINE j == d[1]
           S == 1..DedupMax + 1
           T == j - Spread + 1 .. j + Spread - 1
           f == [i \in S |-> IF i <= DedupMax THEN d[i] ELSE k]
<1>1. DedupMax \in Nat /\ DedupMax >= 1 /\ Spread \in Nat /\ Spread >= 1
  BY LiveAssumption
<1>2. \A i \in 1..DedupMax : d[i] \in Nat /\ d[i] <= n
  <2>1. \A i \in 1..Len(d) : d[i] \in Shots
    BY ElementOfSeq
  <2> QED
    BY <2>1 DEF Ring, Shots
<1>3. j \in Nat /\ j <= n /\ k \in Nat
  BY <1>1, <1>2 DEF Shots
<1> SUFFICES ASSUME j > n - Spread PROVE FALSE
  BY <1>1, <1>3
<1>4. \A i \in 1..DedupMax : d[i] > j - Spread
  <2> SUFFICES ASSUME NEW i \in 1..DedupMax PROVE d[i] > j - Spread
    OBVIOUS
  <2>1. CASE i = 1
    BY <1>1, <1>3, <2>1
  <2>2. CASE i # 1
    <3>1. 1 \in 1..Len(d) /\ i \in 1..Len(d) /\ 1 < i
      BY <1>1, <2>2
    <3> QED
      BY <3>1 DEF Ring
  <2> QED
    BY <2>1, <2>2
<1>5. f \in [S -> T]
  <2>1. ASSUME NEW i \in S PROVE f[i] \in T
    <3>1. CASE i <= DedupMax
      <4>1. i \in 1..DedupMax /\ f[i] = d[i]
        BY <1>1, <3>1
      <4>2. d[i] \in Nat /\ d[i] <= n /\ d[i] > j - Spread
        BY <1>2, <1>4, <4>1
      <4> QED
        BY <1>1, <1>3, <4>1, <4>2
    <3>2. CASE ~(i <= DedupMax)
      <4>1. f[i] = k
        BY <3>2
      <4> QED
        BY <1>1, <1>3, <4>1
    <3> QED
      BY <3>1, <3>2
  <2> QED
    BY <2>1
<1>6. IsFiniteSet(S) /\ Cardinality(S) = DedupMax + 1
  BY <1>1, FS_Interval, 1 \in Int, DedupMax + 1 \in Int
<1>7. IsFiniteSet(T) /\ Cardinality(T) = 2 * Spread - 1
  <2>1. /\ j - Spread + 1 \in Int /\ j + Spread - 1 \in Int
        /\ ~(j - Spread + 1 > j + Spread - 1)
        /\ (j + Spread - 1) - (j - Spread + 1) + 1 = 2 * Spread - 1
    BY <1>1, <1>3
  <2> QED
    BY <2>1, FS_Interval
<1>8. Cardinality(T) < Cardinality(S)
  BY <1>1, <1>6, <1>7
<1> HIDE DEF f, S, T, j
<1>9. PICK x, y \in S : x # y /\ f[x] = f[y]
  BY <1>5, <1>6, <1>7, <1>8, FS_PigeonHole
<1>10. \A a, b \in S : a < b => f[a] # f[b]
  <2> SUFFICES ASSUME NEW a \in S, NEW b \in S, a < b PROVE f[a] # f[b]
    OBVIOUS
  <2>1. a \in 1..DedupMax /\ f[a] = d[a]
    BY <1>1 DEF S, f
  <2>2. CASE b <= DedupMax
    <3>1. b \in 1..DedupMax /\ f[b] = d[b]
      BY <1>1, <2>2 DEF S, f
    <3> QED
      BY <2>1, <3>1 DEF Ring
  <2>3. CASE ~(b <= DedupMax)
    <3>1. f[b] = k
      BY <2>3 DEF f
    <3> QED
      BY <2>1, <3>1
  <2> QED
    BY <2>2, <2>3
<1>11. x < y \/ y < x
  BY <1>1, <1>9 DEF S
<1> QED
  BY <1>9, <1>10, <1>11

\* Entering k drops the oldest entry of a full ring, and no other.
LEMMA Remembered ==
  ASSUME dedup \in Seq(Shots), Len(dedup) <= DedupMax, NEW k \in Shots, Remember(k)
  PROVE  /\ dedup' \in Seq(Shots) /\ Len(dedup') <= DedupMax
         /\ \E o \in {0, 1} :
              /\ o = 1 <=> Len(dedup) = DedupMax
              /\ Len(dedup) - o \in Nat
              /\ Len(dedup') = (Len(dedup) - o) + 1
              /\ dedup'[(Len(dedup) - o) + 1] = k
              /\ \A i \in 1..Len(dedup) - o : dedup'[i] = dedup[i + o]
<1>1. DedupMax \in Nat /\ DedupMax >= 1 /\ Len(dedup) \in Nat
  BY LiveAssumption
<1>2. CASE Len(dedup) = DedupMax
  <2>1. dedup # <<>>
    BY <1>1, <1>2, EmptySeq
  <2>2. /\ Tail(dedup) \in Seq(Shots) /\ Len(Tail(dedup)) = Len(dedup) - 1
        /\ \A i \in 1..Len(Tail(dedup)) : Tail(dedup)[i] = dedup[i + 1]
    BY <2>1, HeadTailProperties
  <2>3. dedup' = Append(Tail(dedup), k)
    BY <1>2 DEF Remember
  <2>4. /\ dedup' \in Seq(Shots) /\ Len(dedup') = Len(Tail(dedup)) + 1
        /\ dedup'[Len(Tail(dedup)) + 1] = k
        /\ \A i \in 1..Len(Tail(dedup)) : dedup'[i] = Tail(dedup)[i]
    BY <2>2, <2>3, AppendProperties
  <2>5. /\ Len(dedup) - 1 \in Nat /\ Len(dedup') = (Len(dedup) - 1) + 1
        /\ dedup'[(Len(dedup) - 1) + 1] = k
        /\ \A i \in 1..Len(dedup) - 1 : dedup'[i] = dedup[i + 1]
    BY <1>1, <1>2, <2>2, <2>4
  <2> QED
    BY <1>1, <1>2, <2>4, <2>5
<1>3. CASE Len(dedup) # DedupMax
  <2>1. dedup' = Append(dedup, k)
    BY <1>3 DEF Remember
  <2>2. /\ dedup' \in Seq(Shots) /\ Len(dedup') = Len(dedup) + 1
        /\ dedup'[Len(dedup) + 1] = k
        /\ \A i \in 1..Len(dedup) : dedup'[i] = dedup[i]
    BY <2>1, AppendProperties
  <2>3. /\ Len(dedup) - 0 \in Nat /\ Len(dedup') = (Len(dedup) - 0) + 1
        /\ dedup'[(Len(dedup) - 0) + 1] = k
        /\ \A i \in 1..Len(dedup) - 0 : dedup'[i] = dedup[i + 0]
    BY <1>1, <2>2
  <2> QED
    BY <1>1, <1>3, <2>2, <2>3
<1> QED
  BY <1>2, <1>3

\* The ring stays one, and keeps what is in circulation.
LEMMA RingStep ==
  ASSUME DedupMax >= 2 * Spread - 1, LiveTypeOK, NEW k \in Shots, Remember(k),
         Ring(dedup, newest), Circulates(k, newest), ~Contains(dedup, k)
  PROVE  /\ Ring(dedup', newest)
         /\ Contains(dedup', k)
         /\ \A m \in Shots : Recent(m, newest) /\ Contains(dedup, m) => Contains(dedup', m)
<1>1. /\ dedup \in Seq(Shots) /\ Len(dedup) <= DedupMax /\ Len(dedup) \in Nat
      /\ newest \in Nat /\ Spread \in Nat /\ k \in Nat /\ k <= newest /\ k > newest - Spread
  BY LiveAssumption DEF LiveTypeOK, TypeOK, Shots, Circulates, Recent
<1>2. \A i \in 1..Len(dedup) : dedup[i] # k /\ dedup[i] \in Nat
  <2>1. \A i \in 1..Len(dedup) : dedup[i] \in Shots
    BY <1>1, ElementOfSeq
  <2>2. \A i \in 1..Len(dedup) : dedup[i] # k
    BY DEF Contains
  <2> QED
    BY <2>1, <2>2 DEF Shots
<1>3. PICK o \in {0, 1} :
        /\ o = 1 <=> Len(dedup) = DedupMax
        /\ Len(dedup) - o \in Nat
        /\ Len(dedup') = (Len(dedup) - o) + 1
        /\ dedup'[(Len(dedup) - o) + 1] = k
        /\ \A i \in 1..Len(dedup) - o : dedup'[i] = dedup[i + o]
  BY <1>1, Remembered
<1> DEFINE l == Len(dedup) - o
<1>4. l \in Nat /\ Len(dedup') = l + 1 /\ dedup'[l + 1] = k
  BY <1>3
<1>5. \A i \in 1..l : i + o \in 1..Len(dedup) /\ dedup'[i] = dedup[i + o]
  BY <1>1, <1>3
<1> HIDE DEF l
<1>6. Ring(dedup', newest)
  <2>1. ASSUME NEW i \in 1..l + 1 PROVE dedup'[i] <= newest
    <3>1. CASE i = l + 1
      BY <1>1, <1>4, <3>1
    <3>2. CASE i # l + 1
      <4>1. i \in 1..l /\ i + o \in 1..Len(dedup) /\ dedup'[i] = dedup[i + o]
        BY <1>4, <1>5, <3>2
      <4> QED
        BY <4>1 DEF Ring
    <3> QED
      BY <3>1, <3>2
  <2>2. ASSUME NEW i \in 1..l + 1, NEW j \in 1..l + 1, i < j
        PROVE  dedup'[i] # dedup'[j] /\ dedup'[j] > dedup'[i] - Spread
    <3>1. i \in 1..l /\ i + o \in 1..Len(dedup) /\ dedup'[i] = dedup[i + o]
      BY <1>4, <1>5, <2>2
    <3>2. dedup[i + o] <= newest /\ dedup[i + o] \in Nat /\ dedup[i + o] # k
      BY <1>2, <3>1 DEF Ring
    <3>3. CASE j = l + 1
      BY <1>1, <1>4, <3>1, <3>2, <3>3
    <3>4. CASE j # l + 1
      <4>1. j \in 1..l /\ j + o \in 1..Len(dedup) /\ dedup'[j] = dedup[j + o] /\ i + o < j + o
        BY <1>4, <1>5, <2>2, <3>4
      <4> QED
        BY <3>1, <4>1 DEF Ring
    <3> QED
      BY <3>3, <3>4
  <2> QED
    BY <1>4, <2>1, <2>2 DEF Ring
<1>7. Contains(dedup', k)
  BY <1>4 DEF Contains
<1>8. ASSUME NEW m \in Shots, Recent(m, newest), Contains(dedup, m)
      PROVE  Contains(dedup', m)
  <2>1. PICK i \in 1..Len(dedup) : dedup[i] = m
    BY <1>8 DEF Contains
  <2>2. i - o \in 1..l
    <3>1. CASE o = 0
      BY <1>1, <3>1 DEF l
    <3>2. CASE o = 1
      <4>1. dedup[1] <= newest - Spread
        BY <1>1, <1>2, <1>3, <3>2, Evicted
      <4>2. i # 1
        BY <1>1, <1>8, <2>1, <4>1 DEF Shots, Recent
      <4> QED
        BY <1>1, <3>2, <4>2 DEF l
    <3> QED
      BY <3>1, <3>2
  <2>3. dedup'[i - o] = m /\ i - o \in 1..Len(dedup')
    BY <1>4, <1>5, <2>1, <2>2
  <2> QED
    BY <2>3 DEF Contains
<1> QED
  BY <1>6, <1>7, <1>8

\* Types at first and after each step.
LEMMA InitType == Init => LiveTypeOK
<1> SUFFICES ASSUME Init PROVE LiveTypeOK
  OBVIOUS
<1>1. dedup = <<>> /\ dedup \in Seq(Shots) /\ Len(dedup) = 0
  BY EmptySeq DEF Init
<1>2. {bLive, intent, delivers, settled} \subseteq BOOLEAN
  BY DEF Init
<1>3. rotation \in Rotations \cup {-1} /\ effective \in {0, 90, 180, 270}
  BY DEF Init
<1>4. sample.n \in 0..MaxFrames /\ turned.n \in 0..MaxFrames /\ frames \in 0..MaxFrames
      /\ newest \in 0..MaxShots
  BY LiveAssumption DEF Init, NoFrame
<1>5. shot \in [Cameras -> Shots \cup {0}] /\ times \in [Shots -> Nat]
  BY DEF Init
<1>6. ipc = "idle" /\ job = "none" /\ feeder = "idle"
  BY DEF Init
<1>7. TypeOK
  BY <1>1, <1>2, <1>3, <1>4, <1>5, <1>6, LiveAssumption DEF TypeOK
<1> QED
  BY <1>1, <1>4, <1>5, <1>7 DEF LiveTypeOK

\* Steps of the IPC thread and its block.
LEMMA QuietType ==
  ASSUME LiveTypeOK, {bLive', intent', delivers', settled'} \subseteq BOOLEAN,
         ipc' \in {"idle", "onIntent", "onLive", "offLive", "facePause"},
         job' \in {"none", "start", "stop", "sleep"},
         UNCHANGED <<feeder, shot, rotation, sample, turned, dedup, effective, frames, newest, times>>
  PROVE  LiveTypeOK'
BY DEF LiveTypeOK, TypeOK

LEMMA StepType == LiveTypeOK /\ [Next]_vars => LiveTypeOK'
<1> SUFFICES ASSUME LiveTypeOK, [Next]_vars PROVE LiveTypeOK'
  OBVIOUS
<1> USE DEF IpcOnly, FeedOnly, Command, flags, buffers, history
<1>0. {bLive, intent, delivers, settled} \subseteq BOOLEAN
  BY DEF LiveTypeOK, TypeOK
<1>1. CASE On \/ OnIntent \/ OnLive \/ Off \/ OffLive \/ Face \/ FacePause
  <2>1. {bLive', intent', delivers', settled'} \subseteq BOOLEAN
    BY <1>0, <1>1 DEF On, OnIntent, OnLive, Off, OffLive, Face, FacePause
  <2>2. /\ ipc' \in {"idle", "onIntent", "onLive", "offLive", "facePause"}
        /\ job' \in {"none", "start", "stop", "sleep"}
    BY <1>1 DEF On, OnIntent, OnLive, Off, OffLive, Face, FacePause, LiveTypeOK, TypeOK
  <2>3. UNCHANGED <<feeder, shot, rotation, sample, turned, dedup, effective, frames, newest, times>>
    BY <1>1 DEF On, OnIntent, OnLive, Off, OffLive, Face, FacePause
  <2> QED
    BY <2>1, <2>2, <2>3, QuietType
<1>2. CASE Start \/ Stop \/ Slept
  <2>1. {bLive', intent', delivers', settled'} \subseteq BOOLEAN
    BY <1>0, <1>2 DEF Start, Stop, Slept
  <2>2. /\ ipc' \in {"idle", "onIntent", "onLive", "offLive", "facePause"}
        /\ job' \in {"none", "start", "stop", "sleep"}
    BY <1>2 DEF Start, Stop, Slept, LiveTypeOK, TypeOK
  <2>3. UNCHANGED <<feeder, shot, rotation, sample, turned, dedup, effective, frames, newest, times>>
    BY <1>2 DEF Start, Stop, Slept
  <2> QED
    BY <2>1, <2>2, <2>3, QuietType
<1>3. CASE \E r \in Rotations : Rotate(r)
  <2>1. {bLive', intent', delivers', settled'} \subseteq BOOLEAN
    BY <1>0, <1>3 DEF Rotate
  <2>2. ipc' = "idle" /\ rotation' \in Rotations
    BY <1>3 DEF Rotate
  <2>3. UNCHANGED <<job, feeder, shot, sample, turned, dedup, effective, frames, newest, times>>
    BY <1>3 DEF Rotate
  <2>4. TypeOK'
    BY <2>1, <2>2, <2>3 DEF LiveTypeOK, TypeOK
  <2> QED
    BY <2>3, <2>4 DEF LiveTypeOK
<1>4. CASE Frame \/ TestIntent \/ TestLive \/ Resume
  <2>1. {bLive', intent', delivers', settled'} \subseteq BOOLEAN
    BY <1>0, <1>4 DEF Frame, TestIntent, TestLive, Resume
  <2>2. feeder' \in {"idle", "store", "intent", "live", "resume"}
    BY <1>4 DEF Frame, TestIntent, TestLive, Resume
  <2>3. frames' \in 0..MaxFrames
    BY <1>4, LiveAssumption DEF Frame, TestIntent, TestLive, Resume, LiveTypeOK
  <2>4. UNCHANGED <<ipc, job, shot, rotation, sample, turned, dedup, effective, newest, times>>
    BY <1>4 DEF Frame, TestIntent, TestLive, Resume
  <2>5. TypeOK'
    BY <2>1, <2>2, <2>4 DEF LiveTypeOK, TypeOK
  <2> QED
    BY <2>3, <2>4, <2>5 DEF LiveTypeOK
<1>5. CASE Store
  <2>1. PICK f \in [n : {frames}, wide : BOOLEAN, angle : {0}] :
          sample' \in {f, NoFrame} /\ turned' \in Copies(f)
    <3>1. PICK wide \in BOOLEAN :
            LET f == [n |-> frames, wide |-> wide, angle |-> 0]
            IN sample' \in {f, NoFrame} /\ turned' \in Copies(f)
      BY <1>5 DEF Store
    <3> QED  BY <3>1
  <2>2. NoFrame.n = 0 /\ 0 \in 0..MaxFrames /\ frames \in 0..MaxFrames
    BY LiveAssumption DEF NoFrame, LiveTypeOK
  <2>3. sample'.n \in 0..MaxFrames
    BY <2>1, <2>2
  <2>4. turned'.n \in 0..MaxFrames
    BY <2>1, <2>2 DEF Copies
  <2>5. settled' \in BOOLEAN
    BY <1>5, Zenon DEF Store
  <2>6. {bLive', intent', delivers', settled'} \subseteq BOOLEAN
    BY <1>5, <2>5 DEF Store, LiveTypeOK, TypeOK
  <2>7. TypeOK'
    BY <1>5, <2>3, <2>4, <2>6 DEF Store, LiveTypeOK, TypeOK
  <2> QED
    BY <1>5, <2>7 DEF Store, LiveTypeOK
<1>6. CASE Expose
  <2>1. times' \in [Shots -> Nat]
    BY <1>6 DEF Expose, LiveTypeOK
  <2>2. newest' \in 0..MaxShots
    BY <1>6, LiveAssumption DEF Expose, LiveTypeOK
  <2> QED
    BY <1>6, <2>1, <2>2 DEF Expose, LiveTypeOK, TypeOK
<1>7. CASE \E c \in Cameras, k \in Shots : Emit(c, k)
  BY <1>7 DEF Emit, LiveTypeOK, TypeOK
<1>8. ASSUME NEW c \in Cameras, Seen(c) PROVE LiveTypeOK'
  BY <1>8 DEF Seen, LiveTypeOK, TypeOK
<1>9. ASSUME NEW c \in Cameras, NoSource(c) PROVE LiveTypeOK'
  <2>1. shot[c] \in Shots
    BY <1>9 DEF NoSource, LiveTypeOK, TypeOK
  <2>2. dedup' \in Seq(Shots) /\ Len(dedup') <= DedupMax
    BY <1>9, <2>1, Remembered DEF NoSource, LiveTypeOK, TypeOK
  <2>3. \A i \in 1..Len(dedup') : dedup'[i] \in Shots
    BY <2>2, ElementOfSeq
  <2>4. shot' \in [Cameras -> Shots \cup {0}]
    BY <1>9 DEF NoSource, LiveTypeOK, TypeOK
  <2>5. TypeOK'
    BY <1>9, <2>2, <2>3, <2>4 DEF NoSource, LiveTypeOK, TypeOK
  <2> QED
    BY <1>9, <2>2, <2>5 DEF NoSource, LiveTypeOK
<1>10. ASSUME NEW c \in Cameras, Inject(c) PROVE LiveTypeOK'
  <2>1. shot[c] \in Shots
    BY <1>10 DEF Inject, LiveTypeOK, TypeOK
  <2>2. dedup' \in Seq(Shots) /\ Len(dedup') <= DedupMax
    BY <1>10, <2>1, Remembered DEF Inject, LiveTypeOK, TypeOK
  <2>3. \A i \in 1..Len(dedup') : dedup'[i] \in Shots
    BY <2>2, ElementOfSeq
  <2>4. shot' \in [Cameras -> Shots \cup {0}]
    BY <1>10 DEF Inject, LiveTypeOK, TypeOK
  <2>5. effective' \in {0, 90, 180, 270}
    <3>1. rotation \in {-1, 0, 90, 180, 270}
      BY LiveAssumption DEF LiveTypeOK, TypeOK
    <3>2. Choice.said \in {0, 90, 180, 270}
      BY <3>1 DEF Choice
    <3> QED
      BY <1>10, <3>2 DEF Inject
  <2>6. times' \in [Shots -> Nat]
    BY <1>10, <2>1 DEF Inject, LiveTypeOK
  <2>7. TypeOK'
    BY <1>10, <2>2, <2>3, <2>4, <2>5 DEF Inject, LiveTypeOK, TypeOK
  <2> QED
    BY <1>10, <2>2, <2>6, <2>7 DEF Inject, LiveTypeOK
<1>11. CASE UNCHANGED vars
  BY <1>11 DEF vars, LiveTypeOK, TypeOK
<1> QED
  BY <1>1, <1>2, <1>3, <1>4, <1>5, <1>6, <1>7, <1>8, <1>9, <1>10, <1>11 DEF Next

\* The kinds of all that the frame store keeps.
THEOREM TypeCorrect == Spec => []TypeOK
<1>1. LiveTypeOK => TypeOK
  BY DEF LiveTypeOK
<1> QED
  BY <1>1, InitType, StepType, PTL DEF Spec

LEMMA InitOnce == Init => OnceInv
<1> SUFFICES ASSUME Init PROVE OnceInv
  OBVIOUS
<1>1. dedup = <<>> /\ Len(dedup) = 0
  BY DEF Init
<1>2. Ring(dedup, newest)
  BY <1>1 DEF Ring
<1> QED
  BY <1>2 DEF Init, OnceInv

\* A camera frame is entered, and may be injected into.
LEMMA EnterOnce ==
  ASSUME DedupMax >= 2 * Spread - 1, LiveTypeOK, OnceInv, NEW c \in Cameras,
         shot[c] # 0, ~Contains(dedup, shot[c]), Remember(shot[c]),
         shot' = [shot EXCEPT ![c] = 0], newest' = newest,
         times' = times \/ times' = [times EXCEPT ![shot[c]] = @ + 1]
  PROVE  OnceInv'
<1>1. PICK k \in Shots : k = shot[c]
  BY DEF LiveTypeOK, TypeOK
<1>2. Circulates(k, newest) /\ Recent(k, newest)
  BY <1>1 DEF OnceInv, Circulates
<1>3. times[k] = 0
  <2>1. times[k] <= 1 /\ times[k] # 1 /\ times[k] \in Nat
    BY <1>1, <1>2 DEF OnceInv, LiveTypeOK
  <2> QED
    BY <2>1
<1>4. /\ Ring(dedup', newest)
      /\ Contains(dedup', k)
      /\ \A m \in Shots : Recent(m, newest) /\ Contains(dedup, m) => Contains(dedup', m)
  BY <1>1, <1>2, RingStep DEF OnceInv
<1>5. ASSUME NEW m \in Shots
      PROVE  /\ times'[m] <= 1
             /\ times'[m] = 1 /\ Recent(m, newest) => Contains(dedup', m)
  <2>1. CASE m = k
    <3>1. times'[k] \in {0, 1}
      BY <1>1, <1>3 DEF LiveTypeOK
    <3> QED
      BY <1>4, <2>1, <3>1
  <2>2. CASE m # k
    <3>1. times'[m] = times[m]
      BY <1>1, <2>2 DEF LiveTypeOK
    <3> QED
      BY <1>4, <3>1 DEF OnceInv
  <2> QED
    BY <2>1, <2>2
<1>6. ASSUME NEW d \in Cameras, shot'[d] # 0
      PROVE  Circulates(shot'[d], newest)
  BY <1>6 DEF OnceInv, LiveTypeOK, TypeOK
<1> QED
  BY <1>4, <1>5, <1>6 DEF OnceInv

LEMMA StepOnce ==
  ASSUME DedupMax >= 2 * Spread - 1, LiveTypeOK, OnceInv, [Next]_vars
  PROVE  OnceInv'
<1> USE DEF IpcOnly, FeedOnly, Command, flags, buffers, history
<1>1. CASE UNCHANGED <<shot, dedup, newest, times>>
  BY <1>1 DEF OnceInv, Ring
<1>2. CASE \E c \in Cameras : Seen(c)
  <2>1. PICK c \in Cameras : Seen(c)
    BY <1>2
  <2>2. ASSUME NEW d \in Cameras, shot'[d] # 0
        PROVE  Circulates(shot'[d], newest)
    BY <2>1, <2>2 DEF Seen, OnceInv, LiveTypeOK, TypeOK
  <2> QED
    BY <2>1, <2>2 DEF Seen, OnceInv, Ring
<1>3. CASE \E c \in Cameras : NoSource(c)
  BY <1>3, EnterOnce DEF NoSource
<1>4. CASE \E c \in Cameras : Inject(c)
  <2>1. PICK c \in Cameras : Inject(c)
    BY <1>4
  <2>2. times' = times \/ times' = [times EXCEPT ![shot[c]] = @ + 1]
    BY <2>1 DEF Inject
  <2> QED
    BY <2>1, <2>2, EnterOnce DEF Inject
<1>5. CASE Expose
  <2>1. /\ newest' = newest + 1 /\ shot' = shot /\ dedup' = dedup
        /\ \A k \in Shots : times'[k] \in {0, times[k]}
    BY <1>5 DEF Expose, LiveTypeOK
  <2>2. newest \in Nat /\ Spread \in Nat
    BY LiveAssumption DEF LiveTypeOK
  <2>3. \A i \in 1..Len(dedup) : dedup[i] \in Nat
    BY DEF LiveTypeOK, TypeOK, Shots
  <2>4. Ring(dedup, newest + 1)
    BY <2>2, <2>3 DEF OnceInv, Ring
  <2>5. ASSUME NEW c \in Cameras, shot[c] # 0
        PROVE  Circulates(shot[c], newest + 1)
    <3>1. shot[c] \in Nat
      BY DEF LiveTypeOK, TypeOK, Shots
    <3> QED
      BY <1>5, <2>2, <2>5, <3>1 DEF Expose, OnceInv, Circulates, Recent
  <2>6. \A k \in Shots : Recent(k, newest + 1) => Recent(k, newest)
    BY <2>2 DEF Shots, Recent
  <2>7. \A k \in Shots : times[k] <= 1 /\ (times[k] = 1 /\ Recent(k, newest + 1) => Contains(dedup, k))
    BY <2>6 DEF OnceInv
  <2>8. \A k \in Shots : times'[k] <= 1
                          /\ (times'[k] = 1 /\ Recent(k, newest + 1) => Contains(dedup, k))
    BY <2>1, <2>7
  <2> QED
    BY <2>1, <2>4, <2>5, <2>8 DEF OnceInv
<1>6. CASE \E c \in Cameras, k \in Shots : Emit(c, k)
  <2>1. PICK c \in Cameras, k \in Shots : Emit(c, k)
    BY <1>6
  <2>2. ASSUME NEW d \in Cameras, shot'[d] # 0
        PROVE  Circulates(shot'[d], newest)
    BY <2>1, <2>2 DEF Emit, OnceInv, LiveTypeOK, TypeOK, Circulates, Recent
  <2> QED
    BY <2>1, <2>2 DEF Emit, OnceInv, Ring
<1>7. CASE On \/ OnIntent \/ OnLive \/ Off \/ OffLive \/ Face \/ FacePause \/ \E r \in Rotations : Rotate(r)
  BY <1>1, <1>7 DEF On, OnIntent, OnLive, Off, OffLive, Face, FacePause, Rotate
<1>8. CASE Start \/ Stop \/ Slept \/ Frame \/ Store \/ TestIntent \/ TestLive \/ Resume
  BY <1>1, <1>8 DEF Start, Stop, Slept, Frame, Store, TestIntent, TestLive, Resume
<1>9. CASE UNCHANGED vars
  BY <1>1, <1>9 DEF vars
<1> QED
  BY <1>2, <1>3, <1>4, <1>5, <1>6, <1>7, <1>8, <1>9 DEF Next

\* A camera frame is injected into once, however many nodes emit it, for any number
\* of camera threads, as long as the ring has 2 * Spread - 1 slots.
THEOREM InjectedOnce == ASSUME DedupMax >= 2 * Spread - 1 PROVE Spec => []Once
<1>1. OnceInv => Once
  BY DEF OnceInv, Once
<1>2. Init => LiveTypeOK /\ OnceInv
  BY InitType, InitOnce
<1>3. LiveTypeOK /\ OnceInv /\ [Next]_vars => LiveTypeOK' /\ OnceInv'
  BY StepType, StepOnce
<1> QED
  BY <1>1, <1>2, <1>3, PTL DEF Spec

-----------------------------------------------------------------------------
(* The angle that is reported.                                             *)

\* A step elsewhere injects nothing; Expose forgets what is out of circulation.
LEMMA ElsewhereInjectsNothing ==
  ASSUME LiveTypeOK, Elsewhere
  PROVE  ~InjectsNow
<1>1. CASE Expose
  BY <1>1 DEF Expose, LiveTypeOK, InjectsNow
<1>2. CASE ~Expose
  <2>1. times' = times
    BY <1>2 DEF Elsewhere, On, OnIntent, OnLive, Off, OffLive, Face, FacePause, Start, Stop,
                Slept, Frame, TestIntent, TestLive, Resume, Emit, Seen, NoSource, IpcOnly,
                FeedOnly, history
  <2> QED
    BY <2>1 DEF LiveTypeOK, InjectsNow
<1> QED
  BY <1>1, <1>2

\* Between a change of the menu's angle and the next decoded frame anything may be
\* injected, and likewise when a copy could not be made; at any other time what is
\* injected has the angle that is reported.
THEOREM AgreesOnceStored == Spec => Agrees
<1>1. LiveTypeOK /\ Fresh /\ [Next]_vars => [InjectsNow /\ settled => injected' = effective']_vars
  <2>. SUFFICES ASSUME LiveTypeOK, Fresh, [Next]_vars, InjectsNow, settled
                PROVE  injected' = effective'
    OBVIOUS
  <2>0. times' # times
    BY DEF InjectsNow, LiveTypeOK
  <2>1. ~Store
    BY <2>0 DEF Store, FeedOnly
  <2>2. ~\E r \in Rotations : Rotate(r)
    BY <2>0 DEF Rotate, history
  <2>3. CASE Elsewhere
    BY <2>3, ElsewhereInjectsNothing
  <2>4. CASE UNCHANGED vars
    BY <2>0, <2>4 DEF vars
  <2>5. CASE \E c \in Cameras : Inject(c)
    BY <2>0, <2>5, InjectAgrees
  <2>. QED  BY <2>1, <2>2, <2>3, <2>4, <2>5, Kinds
<1>. QED  BY <1>1, InitType, StepType, InitFresh, StepFresh, PTL DEF Spec, Agrees
=============================================================================
