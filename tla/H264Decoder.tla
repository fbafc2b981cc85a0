---------------------------- MODULE H264Decoder ----------------------------
(***************************************************************************)
(* H264Decoder.m with one caller at a time: the VideoToolbox session, the  *)
(* parameter sets it can be reopened from, and the reorder ring that puts  *)
(* decoded frames into display order.  (RtmpServer asks which threads call *)
(* the decoder; here each call is one step.)                               *)
(*                                                                         *)
(* A frame is its display timestamp.  A publisher sends the frames of a    *)
(* stream in decode order, no timestamp twice; Depth bounds by how many    *)
(* earlier frames a frame may be preceded that are displayed after it.     *)
(***************************************************************************)
EXTENDS Integers, FiniteSets

CONSTANTS
  ParamSets,    \* SPS/PPS pairs a publisher may announce
  None,         \* nil
  RingMax,      \* VCAM_REORDER_MAX
  MaxPts,       \* timestamps are 1..MaxPts (bound), 0 is an empty slot
  Depth,        \* reorder depth of the publishers' streams
  Gap           \* the 0.2 s limit of decode:, in ticks

ASSUME DecoderAssumption ==
  /\ None \notin ParamSets
  /\ RingMax \in Nat /\ RingMax >= 2 /\ MaxPts \in Nat /\ Depth \in Nat
  /\ Gap \in Nat \ {0}

Pts   == 1..MaxPts
Slots == 0..(RingMax - 1)

VARIABLES
  session, valid, needsReset, saved,   \* _session's parameters, VT's view of it, ...
  since,        \* ticks since s_lastReinit, up to Gap
  ring, rn,     \* s_rbuf / s_rpts, s_rn
  refs,         \* retains the ring and the callback hold on a frame
  stream, fed,  \* what the publisher announced, the frames it sent since
  accepted,     \* history: the last announced sets VideoToolbox opened a session with
  shown         \* the last frame given to the delegate in this stream, or 0

vt      == <<session, valid, needsReset, saved>>
buffer  == <<ring, rn, refs>>
history == <<stream, fed, accepted, shown>>
vars    == <<vt, since, buffer, history>>

TypeOK ==
  /\ session \in ParamSets \cup {None} /\ saved \in ParamSets \cup {None}
  /\ valid \in BOOLEAN /\ needsReset \in BOOLEAN
  /\ since \in 0..Gap
  /\ ring \in [Slots -> Pts \cup {0}] /\ rn \in 0..RingMax
  /\ refs \in [Pts -> Int]
  /\ stream \in ParamSets \cup {None} /\ accepted \in ParamSets \cup {None}
  /\ fed \subseteq Pts /\ shown \in Pts \cup {0}

Empty == [i \in Slots |-> 0]

Init ==
  /\ session = None /\ valid = FALSE /\ needsReset = FALSE /\ saved = None
  /\ since = Gap
  /\ ring = Empty /\ rn = 0 /\ refs = [p \in Pts |-> 0]
  /\ stream = None /\ fed = {} /\ accepted = None /\ shown = 0

-----------------------------------------------------------------------------
(* The reorder ring.                                                       *)

Holds(r, n, p) == \E i \in 0..(n - 1) : r[i] = p

\* mutant: reset forgets the frames without releasing them
ReleasedNothing == refs
\* vcamReorderReset: every held frame is released
Released == [p \in Pts |-> IF Holds(ring, rn, p) THEN refs[p] - 1 ELSE refs[p]]

\* mutant: frames are kept in order of arrival
InsertAtEnd(r, n, p) == n
\* first slot whose timestamp is larger, else the end
InsertAt(r, n, p) ==
  IF \E i \in 0..(n - 1) : p < r[i]
  THEN CHOOSE i \in 0..(n - 1) : p < r[i] /\ \A k \in 0..(i - 1) : p >= r[k]
  ELSE n

\* open slot ins in a ring of n entries
Shift(r, n, ins, p) ==
  [i \in Slots |-> IF i < ins THEN r[i] ELSE IF i = ins THEN p
                   ELSE IF i <= n THEN r[i - 1] ELSE r[i]]
\* close slot 0 of a ring of n entries
Unshift(r, n) == [i \in Slots |-> IF i < n - 1 THEN r[i + 1] ELSE IF i = n - 1 THEN 0 ELSE r[i]]

\* vcamReorderInsert on ring r of n entries: the new ring, the frame handed to the
\* caller (0: none) and the frame dropped because the ring was full (0: none)
Insert(r, n, p) ==
  LET ins  == InsertAt(r, n, p)
      full == n = RingMax
      m    == IF full THEN n ELSE n + 1
      s    == Shift(r, m - 1, ins, p)
  IN IF full /\ ins = RingMax THEN [ring |-> r, rn |-> n, out |-> 0, gone |-> p]
     ELSE IF m < 2 THEN [ring |-> s, rn |-> m, out |-> 0, gone |-> 0]
     ELSE [ring |-> Unshift(s, m), rn |-> m - 1, out |-> s[0],
           gone |-> IF full THEN r[RingMax - 1] ELSE 0]

\* VTDecodeCallback with a frame: into the ring (retained), the one that comes out
\* goes to the delegate and is released
Callback(r, n, held, p) ==
  LET i == Insert(r, n, p)
  IN /\ ring' = i.ring /\ rn' = i.rn
     /\ refs' = [q \in Pts |-> held[q] + (IF q = p THEN 1 ELSE 0)
                               - (IF q \in {i.out, i.gone} THEN 1 ELSE 0)]
     /\ shown' = IF i.out = 0 THEN shown ELSE i.out

Reset == ring' = [i \in Slots |-> IF i < rn THEN 0 ELSE ring[i]] /\ rn' = 0 /\ refs' = Released

-----------------------------------------------------------------------------
(* The session.                                                            *)

\* -endDecode
Close == session' = None /\ valid' = FALSE /\ Reset

\* mutant: only the first parameter sets are saved
CreateKeepsFirst(s) == /\ session' = s /\ valid' = TRUE
                       /\ saved' = IF saved = None THEN s ELSE saved
\* -initDecoder:... with s, after its endDecode: parameters are kept on success only
Create(s) == session' = s /\ valid' = TRUE /\ saved' = s
Refused   == session' = None /\ valid' = FALSE /\ UNCHANGED saved

\* a sequence header: a publisher starts a stream (RTMPServerCXX.mm calls initDecoder:).
\* VideoToolbox may refuse it, and the older parameter sets stay saved.
Header(s) ==
  /\ stream' = s /\ fed' = {} /\ shown' = 0
  /\ \/ Create(s) /\ accepted' = s
     \/ Refused /\ UNCHANGED accepted
  /\ Reset /\ UNCHANGED <<needsReset, since>>

\* -stopDecoding and -stopServer
EndDecode == Close /\ UNCHANGED <<needsReset, saved, since, history>>

\* -reinitFromSaved, from startServerLoop
ReinitFromSaved ==
  /\ saved # None /\ (Create(saved) \/ Refused)
  /\ Reset /\ UNCHANGED <<needsReset, since, history>>

\* self.h264Decoder = nil and a new object later; the ring and s_lastReinit are statics
Renew ==
  /\ Close /\ saved' = None /\ needsReset' = FALSE
  /\ UNCHANGED <<since, history>>

-----------------------------------------------------------------------------
(* -decode:size:pts: for the next frame p of the stream.                   *)

\* the publisher's side: p is new, and at most Depth frames sent so far come after it
Next1(p) == p \in Pts \ fed /\ Cardinality({q \in fed : q > p}) <= Depth
Send(p)  == stream # None /\ Next1(p) /\ fed' = fed \cup {p} /\ UNCHANGED <<stream, accepted>>

Lost      == session = None \/ needsReset
MayReopen == since >= Gap /\ saved # None

DecodeLost(p) ==
  /\ Send(p) /\ Lost /\ ~MayReopen
  /\ Close /\ needsReset' = FALSE /\ UNCHANGED <<saved, since, shown>>

DecodeReopen(p) ==
  /\ Send(p) /\ Lost /\ MayReopen
  /\ since' = 0 /\ needsReset' = FALSE
  /\ \/ Refused /\ Reset /\ UNCHANGED shown
     \/ Create(saved) /\ Reset /\ UNCHANGED shown          \* VT drops the frame
     \/ Create(saved) /\ Callback(Empty, 0, Released, p)

DecodeAlive(p) ==
  /\ Send(p) /\ ~Lost /\ UNCHANGED <<session, valid, saved, since>>
  /\ \/ valid /\ Callback(ring, rn, refs, p) /\ UNCHANGED needsReset
     \/ valid /\ UNCHANGED <<buffer, needsReset, shown>>     \* VT drops the frame
     \/ ~valid /\ needsReset' = TRUE /\ UNCHANGED <<buffer, shown>>

Decode(p) == DecodeLost(p) \/ DecodeReopen(p) \/ DecodeAlive(p)

-----------------------------------------------------------------------------
(* The outside: VideoToolbox takes the hardware decoder away, time passes. *)

Reclaim == valid /\ valid' = FALSE
           /\ UNCHANGED <<session, needsReset, saved, since, buffer, history>>
Tick == since < Gap /\ since' = since + 1 /\ UNCHANGED <<vt, buffer, history>>

Next ==
  \/ \E s \in ParamSets : Header(s)
  \/ EndDecode \/ ReinitFromSaved \/ Renew \/ Reclaim \/ Tick
  \/ \E p \in Pts : Decode(p)

Spec == Init /\ [][Next]_vars
-----------------------------------------------------------------------------
(* Properties.                                                             *)

\* Between calls every retain is the ring's: no frame is leaked or released twice, by
\* inserts, resets, lost sessions and reopened ones.
Retained == \A p \in Pts : refs[p] = IF Holds(ring, rn, p) THEN 1 ELSE 0

\* H264Decoder.m: "the delegate always receives them in display order".
DisplayOrder == [][shown' \in {0, shown} \/ shown' > shown]_vars

\* A session decodes with the parameter sets of the last sequence header that
\* VideoToolbox accepted, also when it was reopened from the saved ones: with those of
\* the stream that is arriving unless its own header was refused, and then with those of
\* the stream before, never with older or mixed ones.
RightParams == session # None => session = accepted
=============================================================================
