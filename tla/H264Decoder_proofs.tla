-------------------------- MODULE H264Decoder_proofs --------------------------
(***************************************************************************)
(* Proofs about H264Decoder, for any timestamps, ring size and limits: the *)
(* ring never holds more than one frame, every retain is the ring's, and   *)
(* frames of a stream of reorder depth 1 leave in display order; and the   *)
(* session decodes with the parameter sets that were accepted last.        *)
(***************************************************************************)
EXTENDS H264Decoder, FiniteSetTheorems, TLAPS

-----------------------------------------------------------------------------
(* What vcamReorderInsert returns, for the rings that occur.               *)

\* Into an empty ring: the frame is held, nothing comes out.
LEMMA InsertFirst ==
  ASSUME NEW r \in [Slots -> Pts \cup {0}], NEW p \in Pts
  PROVE  LET i == Insert(r, 0, p)
         IN /\ i.rn = 1 /\ i.out = 0 /\ i.gone = 0
            /\ i.ring \in [Slots -> Pts \cup {0}] /\ i.ring[0] = p
<1>1. InsertAt(r, 0, p) = 0
  BY DEF InsertAt
<1>2. Shift(r, 0, 0, p) \in [Slots -> Pts \cup {0}] /\ Shift(r, 0, 0, p)[0] = p
  BY DecoderAssumption DEF Shift, Slots, Pts
<1> QED
  BY <1>1, <1>2, DecoderAssumption DEF Insert

\* Into a ring of one: the earlier of the two comes out, the later one is held.
LEMMA InsertSecond ==
  ASSUME NEW r \in [Slots -> Pts \cup {0}], NEW p \in Pts, r[0] \in Pts
  PROVE  LET i == Insert(r, 1, p)
         IN /\ i.rn = 1 /\ i.gone = 0
            /\ i.out = IF p < r[0] THEN p ELSE r[0]
            /\ i.ring \in [Slots -> Pts \cup {0}]
            /\ i.ring[0] = IF p < r[0] THEN r[0] ELSE p
<1> DEFINE ins == InsertAt(r, 1, p)
           s   == Shift(r, 1, ins, p)
<1>1. ins = IF p < r[0] THEN 0 ELSE 1
  BY DEF InsertAt, Pts
<1>2. /\ s \in [Slots -> Pts \cup {0}]
      /\ s[0] = IF p < r[0] THEN p ELSE r[0]
      /\ s[1] = IF p < r[0] THEN r[0] ELSE p
  BY <1>1, DecoderAssumption DEF Shift, Slots, Pts
<1>3. /\ Unshift(s, 2) \in [Slots -> Pts \cup {0}]
      /\ Unshift(s, 2)[0] = s[1]
  BY <1>2, DecoderAssumption DEF Unshift, Slots
<1>4. Insert(r, 1, p) = [ring |-> Unshift(s, 2), rn |-> 1, out |-> s[0], gone |-> 0]
  BY <1>1, DecoderAssumption DEF Insert
<1> QED
  BY <1>2, <1>3, <1>4

\* At reorder depth 1 no two frames sent before p are displayed after it.
LEMMA DepthOne ==
  ASSUME Depth <= 1, fed \subseteq Pts, NEW p \in Pts, Next1(p),
         NEW q \in fed, NEW r \in fed, q > p, r > p
  PROVE  q = r
<1> DEFINE later == {x \in fed : x > p}
<1>1. IsFiniteSet(later)
  <2>1. IsFiniteSet(1..MaxPts)
    BY DecoderAssumption, FS_Interval
  <2> QED
    BY <2>1, FS_Subset DEF Pts
<1>2. SUFFICES ASSUME q # r PROVE FALSE
  OBVIOUS
<1>3. {q, r} \subseteq later
  OBVIOUS
<1>4. IsFiniteSet({q}) /\ Cardinality({q}) = 1
  BY FS_Singleton
<1>5. Cardinality({q} \cup {r}) = 2
  <2>1. r \notin {q}
    BY <1>2
  <2> HIDE DEF later
  <2>2. Cardinality({q} \cup {r}) = Cardinality({q}) + 1
    BY <1>4, <2>1, FS_AddElement, Zenon
  <2> QED
    BY <1>4, <2>2
<1>6. {q} \cup {r} = {q, r}
  OBVIOUS
<1>7. Cardinality({q, r}) <= Cardinality(later)
  BY <1>1, <1>3, FS_Subset
<1>8. Cardinality(later) \in Nat
  BY <1>1, FS_CardinalityType
<1>9. Cardinality(later) <= Depth
  BY DEF Next1
<1> HIDE DEF later
<1> QED
  BY <1>5, <1>6, <1>7, <1>8, <1>9, DecoderAssumption

-----------------------------------------------------------------------------
(* The type invariant and the ring between calls.                          *)

Flags   == valid \in BOOLEAN /\ needsReset \in BOOLEAN
Values  ==
  /\ session \in ParamSets \cup {None} /\ saved \in ParamSets \cup {None}
  /\ since \in 0..Gap
  /\ ring \in [Slots -> Pts \cup {0}] /\ rn \in 0..RingMax
  /\ refs \in [Pts -> Int]
  /\ stream \in ParamSets \cup {None} /\ accepted \in ParamSets \cup {None}
  /\ fed \subseteq Pts /\ shown \in Pts \cup {0}

\* The flags and the values make up the type invariant.
LEMMA Halves == TypeOK <=> Flags /\ Values
  BY Zenon DEF TypeOK, Flags, Values

\* The ring is empty or holds, retained once, one frame of this stream in slot 0.
OneHeld == /\ rn \in {0, 1} /\ (rn = 1 => ring[0] \in fed)
           /\ Retained

\* vcamReorderReset leaves an empty ring and no retained frame.
LEMMA ResetEmpties ==
  ASSUME Values, Retained, rn \in {0, 1}, Reset
  PROVE  /\ rn' = 0 /\ ring' \in [Slots -> Pts \cup {0}]
         /\ refs' = [p \in Pts |-> 0]
<1>1. rn' = 0 /\ ring' = [i \in Slots |-> IF i < rn THEN 0 ELSE ring[i]]
  BY DEF Reset
<1>2. ring' \in [Slots -> Pts \cup {0}]
  <2>1. \A i \in Slots : ring[i] \in Pts \cup {0}
    BY DEF Values
  <2> QED
    BY <1>1, <2>1
<1>3. \A p \in Pts : (IF Holds(ring, rn, p) THEN refs[p] - 1 ELSE refs[p]) = 0
  BY DEF Retained
<1>4. refs' = [p \in Pts |-> 0]
  BY <1>3 DEF Reset, Released
<1> QED
  BY <1>1, <1>2, <1>4

\* VTDecodeCallback holds the later frame and shows the earlier one.
LEMMA CallbackHolds ==
  ASSUME NEW r \in [Slots -> Pts \cup {0}], NEW n \in {0, 1}, NEW held,
         held = [q \in Pts |-> IF Holds(r, n, q) THEN 1 ELSE 0],
         n = 1 => r[0] \in Pts, NEW p \in Pts, n = 1 => r[0] # p, Callback(r, n, held, p)
  PROVE  /\ rn' = 1 /\ ring' \in [Slots -> Pts \cup {0}]
         /\ ring'[0] = IF n = 1 /\ p < r[0] THEN r[0] ELSE p
         /\ shown' = IF n = 0 THEN shown ELSE IF p < r[0] THEN p ELSE r[0]
         /\ refs' = [q \in Pts |-> IF q = ring'[0] THEN 1 ELSE 0]
<1>1. CASE n = 0
  <2>1. /\ Insert(r, n, p).rn = 1 /\ Insert(r, n, p).out = 0 /\ Insert(r, n, p).gone = 0
        /\ Insert(r, n, p).ring \in [Slots -> Pts \cup {0}] /\ Insert(r, n, p).ring[0] = p
    BY <1>1, InsertFirst
  <2>2. \A q \in Pts : held[q] = 0
    BY <1>1 DEF Holds
  <2> QED
    BY <1>1, <2>1, <2>2 DEF Callback, Pts
<1>2. CASE n = 1
  <2>1. /\ Insert(r, n, p).rn = 1 /\ Insert(r, n, p).gone = 0
        /\ Insert(r, n, p).out = IF p < r[0] THEN p ELSE r[0]
        /\ Insert(r, n, p).ring \in [Slots -> Pts \cup {0}]
        /\ Insert(r, n, p).ring[0] = IF p < r[0] THEN r[0] ELSE p
    BY <1>2, InsertSecond
  <2>2. \A q \in Pts : held[q] = IF q = r[0] THEN 1 ELSE 0
    BY <1>2 DEF Holds
  <2> QED
    BY <1>2, <2>1, <2>2 DEF Callback, Pts
<1> QED
  BY <1>1, <1>2

\* Every call keeps the flags Boolean.
LEMMA FlagsKept == ASSUME Flags, [Next]_vars PROVE Flags'
<1> USE Zenon DEF Flags, vt, Close
<1>1. CASE \E s \in ParamSets : Header(s)
  BY <1>1 DEF Header, Create, Refused
<1>2. CASE EndDecode
  BY <1>2 DEF EndDecode
<1>3. CASE ReinitFromSaved
  BY <1>3 DEF ReinitFromSaved, Create, Refused
<1>4. CASE Renew
  BY <1>4 DEF Renew
<1>5. CASE Reclaim \/ Tick \/ UNCHANGED vars
  BY <1>5 DEF Reclaim, Tick, vars
<1>6. ASSUME NEW p \in Pts, Decode(p) PROVE Flags'
  BY <1>6 DEF Decode, DecodeLost, DecodeReopen, DecodeAlive, Create, Refused, buffer
<1> QED
  BY <1>1, <1>2, <1>3, <1>4, <1>5, <1>6 DEF Next

\* A step outside decode: leaves the ring alone or empties it.
LEMMA OutsideStep ==
  ASSUME Values, OneHeld, ~(\E p \in Pts : Decode(p)), [Next]_vars
  PROVE  /\ Values' /\ OneHeld'
         /\ \/ UNCHANGED <<fed, shown, ring, rn>>
            \/ rn' = 0 /\ UNCHANGED <<fed, shown>>
            \/ rn' = 0 /\ fed' = {} /\ shown' = 0
<1> USE DecoderAssumption DEF Values
<1>1. ASSUME Reset PROVE /\ rn' = 0 /\ ring' \in [Slots -> Pts \cup {0}]
                         /\ refs' = [p \in Pts |-> 0]
  BY <1>1, ResetEmpties DEF OneHeld
<1>2. ASSUME Reset PROVE Retained'
  BY <1>1, <1>2 DEF Retained, Holds
<1>3. CASE \E s \in ParamSets : Header(s)
  BY <1>1, <1>2, <1>3 DEF Header, Create, Refused, OneHeld, Slots
<1>4. CASE EndDecode
  BY <1>1, <1>2, <1>4 DEF EndDecode, Close, OneHeld, history, Slots
<1>5. CASE ReinitFromSaved
  BY <1>1, <1>2, <1>5 DEF ReinitFromSaved, Create, Refused, OneHeld, history, Slots
<1>6. CASE Renew
  BY <1>1, <1>2, <1>6 DEF Renew, Close, OneHeld, history, Slots
<1>7. CASE Reclaim \/ Tick \/ UNCHANGED vars
  BY <1>7 DEF Reclaim, Tick, vars, vt, buffer, history, OneHeld, Retained, Holds
<1> QED
  BY <1>3, <1>4, <1>5, <1>6, <1>7 DEF Next

\* decode: either brings nothing into the ring, and shows nothing, or puts the frame
\* there and shows the earlier of the two frames it then has.
LEMMA DecodeStep ==
  ASSUME Values, OneHeld, NEW p \in Pts, Decode(p)
  PROVE  /\ Values' /\ OneHeld' /\ fed' = fed \cup {p} /\ p \notin fed /\ Next1(p)
         /\ \/ shown' = shown /\ (rn' = 0 \/ UNCHANGED <<ring, rn>> \/ (rn' = 1 /\ ring'[0] = p))
            \/ /\ rn = 1 /\ rn' = 1
               /\ ring'[0] = IF p < ring[0] THEN ring[0] ELSE p
               /\ shown' = IF p < ring[0] THEN p ELSE ring[0]
<1> USE DecoderAssumption DEF Values
<1>1. /\ fed' = fed \cup {p} /\ p \notin fed /\ Next1(p) /\ UNCHANGED <<stream, accepted>>
      /\ (rn = 1 => ring[0] \in Pts /\ ring[0] # p)
  BY DEF Decode, DecodeLost, DecodeReopen, DecodeAlive, Send, Next1, OneHeld
<1>2. ASSUME Reset PROVE /\ rn' = 0 /\ ring' \in [Slots -> Pts \cup {0}]
                         /\ refs' = [q \in Pts |-> 0]
  BY <1>2, ResetEmpties DEF OneHeld
<1>3. ASSUME Reset PROVE Retained'
  BY <1>2, <1>3 DEF Retained, Holds
<1>4. CASE DecodeLost(p)
  BY <1>1, <1>2, <1>3, <1>4 DEF DecodeLost, Close, OneHeld, Slots
<1>5. CASE DecodeReopen(p)
  <2>1. /\ session' \in ParamSets \cup {None} /\ saved' \in ParamSets \cup {None}
        /\ since' \in 0..Gap
    BY <1>5 DEF DecodeReopen, MayReopen, Create, Refused
  <2>2. CASE Reset /\ UNCHANGED shown
    BY <1>1, <1>2, <1>3, <2>1, <2>2 DEF OneHeld, Slots
  <2>3. CASE Callback(Empty, 0, Released, p)
    <3>1. Empty \in [Slots -> Pts \cup {0}]
      BY DEF Empty
    <3>2. Released = [q \in Pts |-> IF Holds(Empty, 0, q) THEN 1 ELSE 0]
      BY DEF Released, Holds, OneHeld, Retained
    <3>3. /\ rn' = 1 /\ ring' \in [Slots -> Pts \cup {0}] /\ ring'[0] = p /\ shown' = shown
          /\ refs' = [q \in Pts |-> IF q = ring'[0] THEN 1 ELSE 0]
      BY <2>3, <3>1, <3>2, CallbackHolds
    <3>4. Retained'
      BY <3>3 DEF Retained, Holds
    <3> QED
      BY <1>1, <2>1, <3>3, <3>4 DEF OneHeld
  <2> QED
    BY <1>5, <2>2, <2>3 DEF DecodeReopen
<1>6. CASE DecodeAlive(p)
  <2>1. UNCHANGED <<session, saved, since>>
    BY <1>6 DEF DecodeAlive
  <2>2. CASE Callback(ring, rn, refs, p)
    <3>1. refs = [q \in Pts |-> IF Holds(ring, rn, q) THEN 1 ELSE 0]
      BY DEF OneHeld, Retained
    <3>2. /\ rn' = 1 /\ ring' \in [Slots -> Pts \cup {0}]
          /\ ring'[0] = IF rn = 1 /\ p < ring[0] THEN ring[0] ELSE p
          /\ shown' = IF rn = 0 THEN shown ELSE IF p < ring[0] THEN p ELSE ring[0]
          /\ refs' = [q \in Pts |-> IF q = ring'[0] THEN 1 ELSE 0]
      BY <1>1, <2>2, <3>1, CallbackHolds DEF OneHeld
    <3>3. Retained'
      BY <3>2 DEF Retained, Holds
    <3> QED
      BY <1>1, <2>1, <3>2, <3>3 DEF OneHeld
  <2>3. CASE UNCHANGED <<buffer, shown>>
    BY <1>1, <2>1, <2>3 DEF buffer, OneHeld, Retained, Holds
  <2> QED
    BY <1>6, <2>2, <2>3 DEF DecodeAlive
<1> QED
  BY <1>4, <1>5, <1>6 DEF Decode

-----------------------------------------------------------------------------
(* The theorems.                                                           *)

\* The type invariant and the ring invariant hold together.
LEMMA Invariance == Spec => [](TypeOK /\ OneHeld)
<1>1. Init => Flags /\ Values /\ OneHeld
  <2>1. Init => Flags
    BY Zenon DEF Init, Flags
  <2>2. Init => Values
    BY DecoderAssumption DEF Init, Values, Empty, Slots
  <2>3. Init => OneHeld
    BY DEF Init, OneHeld, Retained, Holds
  <2> QED
    BY <2>1, <2>2, <2>3
<1>2. ASSUME Flags, Values, OneHeld, [Next]_vars PROVE Flags' /\ Values' /\ OneHeld'
  BY <1>2, FlagsKept, OutsideStep, DecodeStep
<1>3. Spec => [](Flags /\ Values /\ OneHeld)
  BY <1>1, <1>2, PTL DEF Spec
<1>4. Flags /\ Values => TypeOK
  BY Halves
<1> QED
  BY <1>3, <1>4, PTL

\* Every variable of the decoder always has its type: s_rn stays inside the ring.
THEOREM TypeCorrect == Spec => []TypeOK
  BY Invariance, PTL

\* vcamReorderInsert and vcamReorderReset (H264Decoder.m) keep exactly one retain on
\* each held frame and none on the others, whatever the order of calls.
THEOREM RetainsBalanced == Spec => []Retained
<1>1. OneHeld => Retained
  BY DEF OneHeld
<1> QED
  BY <1>1, Invariance, PTL

\* What makes the order right: the held frame comes after the last one shown, and so
\* does some frame that was sent, even if it was dropped since.
Ahead == /\ rn = 1 => ring[0] > shown
         /\ shown # 0 => shown \in fed /\ \E z \in fed : z > shown

\* A stream of reorder depth at most 1 reaches the delegate in display order
\* (H264Decoder.m, VTDecodeCallback), across resets, reclaimed sessions and lost frames.
THEOREM InDisplayOrder == Depth <= 1 /\ Spec => DisplayOrder
<1> SUFFICES ASSUME Depth <= 1 PROVE Spec => DisplayOrder
  OBVIOUS
<1>1. Init => Ahead
  BY DEF Init, Ahead
<1>2. ASSUME TypeOK, OneHeld, Ahead, [Next]_vars
      PROVE  Ahead' /\ (shown' \in {0, shown} \/ shown' > shown)
  <2>1. Values
    BY <1>2, Halves
  <2>2. CASE \E p \in Pts : Decode(p)
    <3>1. PICK p \in Pts : Decode(p)
      BY <2>2
    <3>2. /\ fed' = fed \cup {p} /\ p \notin fed /\ Next1(p)
          /\ \/ shown' = shown /\ (rn' = 0 \/ UNCHANGED <<ring, rn>> \/ (rn' = 1 /\ ring'[0] = p))
             \/ /\ rn = 1 /\ rn' = 1
                /\ ring'[0] = IF p < ring[0] THEN ring[0] ELSE p
                /\ shown' = IF p < ring[0] THEN p ELSE ring[0]
      BY <1>2, <2>1, <3>1, DecodeStep
    <3>3. p > shown
      <4> SUFFICES ASSUME ~(p > shown) PROVE FALSE
        OBVIOUS
      <4>1. shown \in fed /\ shown > p
        BY <1>2, <2>1, <3>2, DecoderAssumption DEF Values, Ahead, Pts
      <4>2. PICK z \in fed : z > shown
        BY <1>2, <4>1, <2>1, DecoderAssumption DEF Values, Ahead, Pts
      <4>3. z > p
        BY <2>1, <4>1, <4>2, DecoderAssumption DEF Values, Pts
      <4>4. z = shown
        BY <2>1, <3>2, <4>1, <4>2, <4>3, DepthOne DEF Values
      <4> QED
        BY <2>1, <4>2, <4>4, DecoderAssumption DEF Values, Pts
    <3>4. CASE shown' = shown /\ (rn' = 0 \/ UNCHANGED <<ring, rn>> \/ (rn' = 1 /\ ring'[0] = p))
      BY <1>2, <3>2, <3>3, <3>4 DEF Ahead
    <3>5. CASE /\ rn = 1 /\ rn' = 1
               /\ ring'[0] = IF p < ring[0] THEN ring[0] ELSE p
               /\ shown' = IF p < ring[0] THEN p ELSE ring[0]
      <4>1. ring[0] \in fed /\ ring[0] \in Nat /\ p \in Nat /\ ring[0] # p /\ ring[0] > shown
        <5>1. ring[0] > shown
          BY <1>2, <3>5 DEF Ahead
        <5>2. ring[0] \in fed
          BY <1>2, <3>5 DEF OneHeld
        <5>3. fed \subseteq Nat /\ p \in Nat
          BY <2>1, DecoderAssumption DEF Values, Pts
        <5> QED
          BY <3>2, <5>1, <5>2, <5>3
      <4>2. shown' > shown /\ ring'[0] > shown' /\ shown' \in fed' /\ ring'[0] \in fed'
        BY <3>2, <3>3, <3>5, <4>1
      <4> QED
        BY <4>2 DEF Ahead
    <3> QED
      BY <3>2, <3>4, <3>5
  <2>3. CASE ~(\E p \in Pts : Decode(p))
    <3>1. \/ UNCHANGED <<fed, shown, ring, rn>>
          \/ rn' = 0 /\ UNCHANGED <<fed, shown>>
          \/ rn' = 0 /\ fed' = {} /\ shown' = 0
      BY <1>2, <2>1, <2>3, OutsideStep
    <3> QED
      BY <1>2, <3>1 DEF Ahead
  <2> QED
    BY <2>2, <2>3
<1>3. Spec => [](TypeOK /\ OneHeld)
  BY Invariance
<1> QED
  BY <1>1, <1>2, <1>3, PTL DEF Spec, DisplayOrder

-----------------------------------------------------------------------------
(* The parameter sets.                                                     *)

\* The saved sets were accepted last, too.
Current == session \in {None, accepted} /\ saved \in {None, accepted}

\* The session, and the saved parameter sets it is reopened from (H264Decoder.m
\* _savedSPS, _savedPPS), are those of the last sequence header that VideoToolbox
\* accepted, whatever it refuses, takes away or refuses to reopen in between, and
\* whenever the decoder is closed, reopened or renewed.
THEOREM RightSession == Spec => []RightParams
<1>1. Init => Current
  BY DEF Init, Current
<1>2. ASSUME Current, [Next]_vars PROVE Current'
  <2> USE DEF Current, history, vt, buffer
  <2>1. CASE \E s \in ParamSets : Header(s)
    BY <1>2, <2>1 DEF Header, Create, Refused
  <2>2. CASE EndDecode \/ Renew \/ Reclaim \/ Tick
    BY <1>2, <2>2 DEF EndDecode, Renew, Reclaim, Tick, Close
  <2>3. CASE ReinitFromSaved
    BY <1>2, <2>3 DEF ReinitFromSaved, Create, Refused
  <2>4. ASSUME NEW p \in Pts, Decode(p) PROVE Current'
    <3>1. /\ UNCHANGED accepted
          /\ session' \in {session, None, saved} /\ UNCHANGED saved
      BY <2>4 DEF Decode, DecodeLost, DecodeReopen, DecodeAlive, Send, Create, Refused, Close
    <3> QED
      BY <1>2, <3>1
  <2>5. CASE UNCHANGED vars
    BY <1>2, <2>5 DEF vars
  <2> QED
    BY <1>2, <2>1, <2>2, <2>3, <2>4, <2>5 DEF Next
<1>3. Current => RightParams
  BY DEF Current, RightParams
<1> QED
  BY <1>1, <1>2, <1>3, PTL DEF Spec
=============================================================================
