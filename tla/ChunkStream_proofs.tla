------------------------- MODULE ChunkStream_proofs -------------------------
(***************************************************************************)
(* Proofs about ChunkStream.  The endpoint is always a few chunks behind   *)
(* the publisher; each chunk under way is kept with the publisher's memory *)
(* before it (views).  As long as no read was torn,                        *)
(*                                                                         *)
(*   - each chunk of wire is a step from the view before it to the one     *)
(*     after it (Chain), and                                               *)
(*   - the endpoint's memory is the publisher's at the first view (Mirror). *)
(*                                                                         *)
(* Sending extends the chain at its end, reading takes it up at its front. *)
(***************************************************************************)
EXTENDS ChunkStream, SequenceTheorems, TLAPS

Memories == [timestamp : Nat, delta : Nat, length : Nat, type : Types \cup {None},
             streamId : Nat, done : Nat, msg : Message \cup {None}]

Views == [out : [ChunkStreams -> Memories], size : Positive,
          sent : [ChunkStreams -> Seq(Message)]]

Chunks == [cs : ChunkStreams, fmt : 0..3, stamp : Nat, length : Nat,
           type : Types, streamId : Nat, data : Seq(Units)]

States == [timestamp : Nat, delta : Nat, length : Nat, type : Types \cup {None},
           streamId : Nat, partialPayload : Seq(Units), bytesReceived : Nat]

ChunkTypeOK ==
  /\ View \in Views
  /\ wire \in Seq(Chunks) /\ views \in Seq(Views)
  /\ Len(views) = Len(wire)
  /\ sync => csState \in [ChunkStreams -> States]
  /\ inSize \in Positive
  /\ sync \in BOOLEAN
  /\ got \in [ChunkStreams -> Seq(Records)]

\* The publisher's memory before chunk i of wire.
ViewAt(i) == IF i <= Len(views) THEN views[i] ELSE View

\* A message that the publisher has not fully sent is what it began last, and
\* never an announcement of a chunk size.
ViewOK(V) ==
  \A c \in ChunkStreams :
    LET o == V.out[c]
    IN  o.msg # None =>
          /\ o.msg.type # SetChunkSize
          /\ o.done < Len(o.msg.payload)
          /\ o.timestamp = o.msg.timestamp /\ o.length = Len(o.msg.payload)
          /\ o.type = o.msg.type /\ o.streamId = o.msg.streamId
          /\ V.sent[c] # <<>> /\ V.sent[c][Len(V.sent[c])] = o.msg

\* Chunk k begins message m, or goes on with it.
Begins(V, k, W, m, done) ==
  /\ V.out[k.cs].msg = None
  /\ done = 0
  /\ k.fmt \in Formats(V.out[k.cs], m)
  /\ k.stamp = (IF k.fmt = 0 THEN m.timestamp ELSE m.timestamp - V.out[k.cs].timestamp)
  /\ k.length = Len(m.payload) /\ k.type = m.type /\ k.streamId = m.streamId
  /\ W.size = (IF m.type = SetChunkSize THEN SizeIn(m.payload) ELSE V.size)
  /\ W.sent = (IF m.type = SetChunkSize
               THEN V.sent ELSE [V.sent EXCEPT ![k.cs] = Append(@, m)])

Continues(V, k, W, m, done) ==
  /\ V.out[k.cs].msg = m
  /\ done = V.out[k.cs].done
  /\ k.fmt = 3
  /\ W.size = V.size
  /\ W.sent = V.sent

\* Chunk k carries what follows the first done units of m, from view V to W.
Carries(V, k, W, m, done, delta) ==
  /\ k.data = Piece(m, done, V.size)
  /\ W.out = [V.out EXCEPT ![k.cs] = Sending(m, delta, done + Len(k.data))]
  /\ Begins(V, k, W, m, done) \/ Continues(V, k, W, m, done)

Link(V, k, W) ==
  \E m \in Message, done \in Nat, delta \in Nat : Carries(V, k, W, m, done, delta)

\* What view V says was sent is how sent begins.
Prefix(V) ==
  \A c \in ChunkStreams :
    /\ Len(V.sent[c]) <= Len(sent[c])
    /\ \A i \in 1..Len(V.sent[c]) : V.sent[c][i] = sent[c][i]

Chain ==
  /\ \A i \in 1..Len(wire) + 1 : ViewOK(ViewAt(i)) /\ Prefix(ViewAt(i))
  /\ \A i \in 1..Len(wire) : Link(ViewAt(i), wire[i], ViewAt(i + 1))

\* Stream memory s of the endpoint is stream memory o of the publisher.
Matches(s, o) ==
  /\ ~SameDelta => s.timestamp = o.timestamp
  /\ s.length = o.length /\ s.type = o.type /\ s.streamId = o.streamId
  /\ s.bytesReceived = (IF o.msg = None THEN 0 ELSE o.done)
  /\ s.partialPayload = (IF o.msg = None THEN <<>> ELSE SubSeq(o.msg.payload, 1, o.done))

\* The endpoint has returned all the messages begun, but the one under way.
Counts(begun, returned, o) ==
  Len(begun) = Len(returned) + (IF o.msg = None THEN 0 ELSE 1)

\* What the endpoint remembers is what the publisher did before the next chunk.
Mirror ==
  /\ inSize = ViewAt(1).size
  /\ \A c \in ChunkStreams :
       /\ Matches(csState[c], ViewAt(1).out[c])
       /\ Counts(ViewAt(1).sent[c], got[c], ViewAt(1).out[c])

IInv == ChunkTypeOK /\ ViewOK(View) /\ (sync => Chain /\ Mirror)

-----------------------------------------------------------------------------
(***************************************************************************)
(* Payloads and pieces of them.                                            *)
(***************************************************************************)
\* What ChunkAssumption says of one message.
LEMMA PayloadType ==
  ASSUME NEW m \in Message
  PROVE  /\ m \in Records /\ m # None
         /\ m.type \in Types /\ m.streamId \in Nat /\ m.timestamp \in Nat
         /\ m.payload \in Seq(Units) /\ Len(m.payload) \in Nat
         /\ m.type = SetChunkSize => Len(m.payload) = 1 /\ SizeIn(m.payload) \in Positive
BY ChunkAssumption DEF Records

\* A piece has the length the publisher gives it, and follows what was sent.
LEMMA PieceProperties ==
  ASSUME NEW m \in Message, NEW done \in 0..Len(m.payload), NEW size \in Positive
  PROVE  /\ Piece(m, done, size) \in Seq(Units)
         /\ Len(Piece(m, done, size)) = MinOf(Len(m.payload) - done, size)
         /\ Len(Piece(m, done, size)) \in 0..Len(m.payload) - done
         /\ SubSeq(m.payload, 1, done) \in Seq(Units)
         /\ SubSeq(m.payload, 1, done) \o Piece(m, done, size)
              = SubSeq(m.payload, 1, done + Len(Piece(m, done, size)))
<1> DEFINE p == m.payload
           n == MinOf(Len(p) - done, size)
<1>1. p \in Seq(Units) /\ Len(p) \in Nat
  BY PayloadType
<1>2. n \in 0..Len(p) - done
  BY <1>1 DEF MinOf, Positive
<1>3. Piece(m, done, size) = SubSeq(p, done + 1, done + n)
  BY DEF Piece
<1>4. \A i \in done + 1 .. done + n : p[i] \in Units
  BY <1>1, <1>2, ElementOfSeq
<1>5. SubSeq(p, done + 1, done + n) \in Seq(Units) /\ Len(SubSeq(p, done + 1, done + n)) = n
  BY <1>2, <1>4, SubSeqProperties, done + 1 \in Int, done + n \in Int
<1>6. \A i \in 1 .. done : p[i] \in Units
  BY <1>1, ElementOfSeq
<1>7. SubSeq(p, 1, done) \in Seq(Units)
  BY <1>6, SubSeqProperties
<1>8. SubSeq(p, 1, done) \o SubSeq(p, done + 1, done + n) = SubSeq(p, 1, done + n)
  <2>1. 1 \in 1..Len(p) + 1 /\ done \in 1 - 1 .. Len(p) /\ done + n \in done .. Len(p)
    BY <1>1, <1>2
  <2> HIDE DEF p, n
  <2> QED
    BY <1>1, <2>1, ConcatAdjacentSubSeq
<1> QED
  BY <1>2, <1>3, <1>5, <1>7, <1>8

-----------------------------------------------------------------------------
(***************************************************************************)
(* Reading a header.                                                       *)
(***************************************************************************)

\* The memory of a stream stays one when its fields are set.
LEMMA StateUpdates ==
  ASSUME NEW s \in States
  PROVE  /\ \A x, y \in Nat : [s EXCEPT !.timestamp = x, !.delta = y] \in States
         /\ \A x, y, z \in Nat :
              [s EXCEPT !.timestamp = x, !.delta = y, !.length = z] \in States
         /\ \A t \in Types : [s EXCEPT !.type = t] \in States
         /\ \A t \in Types, x \in Nat : [s EXCEPT !.type = t, !.streamId = x] \in States
         /\ \A p \in Seq(Units), n \in Nat :
              [s EXCEPT !.partialPayload = p, !.bytesReceived = n] \in States
<1>1. \A x, y \in Nat : [s EXCEPT !.timestamp = x, !.delta = y] \in States
  BY DEF States
<1>2. \A x, y, z \in Nat : [s EXCEPT !.timestamp = x, !.delta = y, !.length = z] \in States
  BY DEF States
<1>3. \A t \in Types : [s EXCEPT !.type = t] \in States
  BY DEF States
<1>4. \A t \in Types, x \in Nat : [s EXCEPT !.type = t, !.streamId = x] \in States
  BY DEF States
<1>5. \A p \in Seq(Units), n \in Nat :
        [s EXCEPT !.partialPayload = p, !.bytesReceived = n] \in States
  BY DEF States
<1> QED
  BY <1>1, <1>2, <1>3, <1>4, <1>5

\* After the header of a chunk the endpoint knows the message the chunk
\* belongs to and how much of it has come.
LEMMA HeaderRead ==
  ASSUME NEW V \in Views, NEW W \in Views, NEW k \in Chunks, NEW s \in States,
         NEW m \in Message, NEW done \in Nat, NEW delta \in Nat,
         NEW h, h = readChunkHeader(s, k),
         ViewOK(V), Matches(s, V.out[k.cs]), Carries(V, k, W, m, done, delta)
  PROVE  /\ h \in States
         /\ ~SameDelta => h.timestamp = m.timestamp
         /\ h.length = Len(m.payload) /\ h.type = m.type /\ h.streamId = m.streamId
         /\ h.bytesReceived = done /\ done \in 0..Len(m.payload)
         /\ h.partialPayload = SubSeq(m.payload, 1, done)
<1> DEFINE o == V.out[k.cs]
<1>0. k.cs \in ChunkStreams /\ o \in Memories /\ o.timestamp \in Nat /\ k.fmt \in 0..3
  BY DEF Views, Memories, Chunks
<1>1. CASE Begins(V, k, W, m, done)
  <2>1. /\ o.msg = None /\ done = 0 /\ k.fmt \in Formats(o, m)
        /\ k.stamp = (IF k.fmt = 0 THEN m.timestamp ELSE m.timestamp - o.timestamp)
        /\ k.length = Len(m.payload) /\ k.type = m.type /\ k.streamId = m.streamId
    BY <1>1 DEF Begins
  <2>2. /\ ~SameDelta => s.timestamp = o.timestamp
        /\ s.length = o.length /\ s.type = o.type /\ s.streamId = o.streamId
        /\ s.bytesReceived = 0 /\ s.partialPayload = <<>>
    BY <2>1 DEF Matches
  <2>3. SubSeq(m.payload, 1, done) = <<>>
    BY <2>1, SubSeqEmpty
  <2>4. /\ k.fmt \in {1, 2, 3} => m.streamId = o.streamId /\ m.timestamp >= o.timestamp
        /\ k.fmt \in {2, 3} => m.type = o.type /\ Len(m.payload) = o.length
        /\ k.fmt = 3 /\ ~SameDelta => m.timestamp = o.timestamp
    BY <2>1, <1>0, PayloadType DEF Formats
  <2>5. <<>> \in Seq(Units) /\ 0 \in Nat
    OBVIOUS
  <2>6. /\ k.stamp \in Nat /\ k.length \in Nat /\ k.type \in Types /\ k.streamId \in Nat
        /\ s.timestamp \in Nat /\ m.timestamp \in Nat /\ Len(m.payload) \in Nat
        /\ s.timestamp + k.stamp \in Nat
    BY PayloadType DEF Chunks, States
  <2>7. h \in States
    <3>1. CASE k.fmt = 0
      <4>1. [s EXCEPT !.timestamp = k.stamp, !.delta = 0, !.length = k.length] \in States
        BY <2>5, <2>6, StateUpdates
      <4>2. [[s EXCEPT !.timestamp = k.stamp, !.delta = 0, !.length = k.length]
                EXCEPT !.type = k.type, !.streamId = k.streamId] \in States
        BY <2>6, <4>1, StateUpdates
      <4>3. [[[s EXCEPT !.timestamp = k.stamp, !.delta = 0, !.length = k.length]
                EXCEPT !.type = k.type, !.streamId = k.streamId]
                EXCEPT !.partialPayload = <<>>, !.bytesReceived = 0] \in States
        BY <2>5, <4>2, StateUpdates
      <4> QED
        BY <3>1, <4>3 DEF readChunkHeader
    <3>2. CASE k.fmt = 1
      <4>1. [s EXCEPT !.timestamp = s.timestamp + k.stamp, !.delta = k.stamp,
                      !.length = k.length] \in States
        BY <2>6, StateUpdates
      <4>2. [[s EXCEPT !.timestamp = s.timestamp + k.stamp, !.delta = k.stamp,
                       !.length = k.length] EXCEPT !.type = k.type] \in States
        BY <2>6, <4>1, StateUpdates
      <4>3. [[[s EXCEPT !.timestamp = s.timestamp + k.stamp, !.delta = k.stamp,
                        !.length = k.length] EXCEPT !.type = k.type]
                EXCEPT !.partialPayload = <<>>, !.bytesReceived = 0] \in States
        BY <2>5, <4>2, StateUpdates
      <4> QED
        BY <3>2, <4>3 DEF readChunkHeader
    <3>3. CASE k.fmt = 2
      <4>1. [s EXCEPT !.timestamp = s.timestamp + k.stamp, !.delta = k.stamp] \in States
        BY <2>6, StateUpdates
      <4>2. [[s EXCEPT !.timestamp = s.timestamp + k.stamp, !.delta = k.stamp]
                EXCEPT !.partialPayload = <<>>, !.bytesReceived = 0] \in States
        BY <2>5, <4>1, StateUpdates
      <4> QED
        BY <3>3, <4>2 DEF readChunkHeader
    <3>4. CASE k.fmt = 3
      BY <3>4 DEF readChunkHeader
    <3> QED
      BY <1>0, <3>1, <3>2, <3>3, <3>4
  <2>8. ~SameDelta => h.timestamp = m.timestamp
    BY <1>0, <2>1, <2>2, <2>4, <2>6 DEF States, readChunkHeader
  <2>9. h.length = Len(m.payload) /\ h.type = m.type /\ h.streamId = m.streamId
    BY <1>0, <2>1, <2>2, <2>4 DEF States, readChunkHeader
  <2>10. h.bytesReceived = 0 /\ h.partialPayload = <<>>
    BY <1>0, <2>2 DEF States, readChunkHeader
  <2> QED
    BY <2>1, <2>3, <2>6, <2>7, <2>8, <2>9, <2>10
<1>2. CASE Continues(V, k, W, m, done)
  <2>1. o.msg = m /\ done = o.done /\ k.fmt = 3 /\ m # None
    BY <1>2, PayloadType DEF Continues
  <2>2. h = s
    BY <2>1 DEF readChunkHeader
  <2>3. /\ o.done < Len(m.payload) /\ o.timestamp = m.timestamp /\ o.length = Len(m.payload)
        /\ o.type = m.type /\ o.streamId = m.streamId
    BY <1>0, <2>1 DEF ViewOK
  <2>4. /\ ~SameDelta => s.timestamp = o.timestamp
        /\ s.length = o.length /\ s.type = o.type /\ s.streamId = o.streamId
        /\ s.bytesReceived = o.done /\ s.partialPayload = SubSeq(m.payload, 1, o.done)
    BY <2>1 DEF Matches
  <2> QED
    BY <2>1, <2>2, <2>3, <2>4, PayloadType
<1> QED
  BY <1>1, <1>2 DEF Carries

\* After the payload of the chunk, it has what the publisher has sent.
LEMMA ChunkRead ==
  ASSUME NEW V \in Views, NEW W \in Views, NEW k \in Chunks,
         NEW m \in Message, NEW done \in Nat, NEW delta \in Nat,
         csState \in [ChunkStreams -> States], inSize = V.size,
         ViewOK(V), Matches(csState[k.cs], V.out[k.cs]), Carries(V, k, W, m, done, delta)
  PROVE  /\ AfterHeader(k) \in States
         /\ ToRead(k) = Len(k.data) /\ done \in Nat /\ Len(k.data) \in Nat
         /\ done + Len(k.data) <= Len(m.payload)
         /\ m.type = SetChunkSize => done + Len(k.data) = Len(m.payload)
         /\ AfterChunk(k) \in States
         /\ ~SameDelta => AfterChunk(k).timestamp = m.timestamp
         /\ AfterChunk(k).length = Len(m.payload)
         /\ AfterChunk(k).type = m.type /\ AfterChunk(k).streamId = m.streamId
         /\ AfterChunk(k).bytesReceived = done + Len(k.data)
         /\ AfterChunk(k).partialPayload = SubSeq(m.payload, 1, done + Len(k.data))
         /\ Completes(k) <=> done + Len(k.data) = Len(m.payload)
<1> DEFINE h == AfterHeader(k)
           a == AfterChunk(k)
           n == Len(k.data)
<1>1. k.cs \in ChunkStreams /\ csState[k.cs] \in States
  BY DEF Chunks
<1>2. h = readChunkHeader(csState[k.cs], k)
  BY DEF AfterHeader
<1>3. /\ h \in States
      /\ ~SameDelta => h.timestamp = m.timestamp
      /\ h.length = Len(m.payload) /\ h.type = m.type /\ h.streamId = m.streamId
      /\ h.bytesReceived = done /\ done \in 0..Len(m.payload)
      /\ h.partialPayload = SubSeq(m.payload, 1, done)
  BY <1>1, <1>2, HeaderRead
<1>4. V.size \in Positive /\ k.data = Piece(m, done, V.size)
  BY DEF Views, Carries
<1>5. /\ k.data \in Seq(Units) /\ n = MinOf(Len(m.payload) - done, V.size)
      /\ n \in 0..Len(m.payload) - done
      /\ SubSeq(m.payload, 1, done) \o k.data = SubSeq(m.payload, 1, done + n)
      /\ SubSeq(m.payload, 1, done) \in Seq(Units)
  <2>1. done \in 0..Len(m.payload)
    BY <1>3
  <2>2. /\ Piece(m, done, V.size) \in Seq(Units)
        /\ Len(Piece(m, done, V.size)) = MinOf(Len(m.payload) - done, V.size)
        /\ Len(Piece(m, done, V.size)) \in 0..Len(m.payload) - done
        /\ SubSeq(m.payload, 1, done) \in Seq(Units)
        /\ SubSeq(m.payload, 1, done) \o Piece(m, done, V.size)
              = SubSeq(m.payload, 1, done + Len(Piece(m, done, V.size)))
    BY <1>4, <2>1, PieceProperties
  <2> QED
    BY <1>4, <2>2
<1>6. ToRead(k) = n
  BY <1>3, <1>5 DEF ToRead
<1>7. m.type = SetChunkSize => done + n = Len(m.payload)
  <2> SUFFICES ASSUME m.type = SetChunkSize PROVE done + n = Len(m.payload)
    OBVIOUS
  <2>1. Len(m.payload) = 1
    BY PayloadType
  <2>2. done = 0
    <3>1. ~Continues(V, k, W, m, done)
      BY <1>1, PayloadType DEF Continues, ViewOK
    <3> QED
      BY <3>1 DEF Carries, Begins
  <2> QED
    BY <1>4, <1>5, <2>1, <2>2 DEF MinOf, Positive
<1>8. a = [h EXCEPT !.partialPayload = h.partialPayload \o k.data,
                    !.bytesReceived = h.bytesReceived + n]
  BY <1>6 DEF AfterChunk
<1>9. h.partialPayload \o k.data \in Seq(Units) /\ h.bytesReceived + n \in Nat
  BY <1>3, <1>5, ConcatProperties DEF States
<1>10. a \in States
  <2> HIDE DEF h, a
  <2> QED
    BY <1>3, <1>8, <1>9, StateUpdates
<1>11. /\ a.timestamp = h.timestamp /\ a.length = h.length /\ a.type = h.type
       /\ a.streamId = h.streamId
       /\ a.partialPayload = h.partialPayload \o k.data
       /\ a.bytesReceived = h.bytesReceived + n
  BY <1>3, <1>8 DEF States
<1>12. Len(m.payload) \in Nat /\ n \in Nat /\ done + n <= Len(m.payload)
  BY <1>3, <1>5, PayloadType
<1>13. Completes(k) <=> done + n = Len(m.payload)
  <2>1. Completes(k) <=> a.bytesReceived >= a.length
    BY DEF Completes
  <2> HIDE DEF a, h, n
  <2>2. a.bytesReceived = done + n /\ a.length = Len(m.payload)
    BY <1>3, <1>11, Zenon
  <2>3. Completes(k) <=> done + n >= Len(m.payload)
    BY <2>1, <2>2, Zenon
  <2> QED
    BY <1>12, <2>3
<1> HIDE DEF a, h, n
<1>14. a.partialPayload = SubSeq(m.payload, 1, done + n)
  BY <1>3, <1>5, <1>11
<1>15. /\ ~SameDelta => a.timestamp = m.timestamp
       /\ a.length = Len(m.payload) /\ a.type = m.type /\ a.streamId = m.streamId
       /\ a.bytesReceived = done + n
  BY <1>3, <1>11
<1> QED
  BY <1>3, <1>6, <1>7, <1>10, <1>12, <1>13, <1>14, <1>15 DEF a, h, n

-----------------------------------------------------------------------------
(***************************************************************************)
(* Views.                                                                  *)
(***************************************************************************)

\* Each chunk lies between two views.
LEMMA ViewsType ==
  ASSUME ChunkTypeOK
  PROVE  /\ Len(wire) \in Nat
         /\ \A i \in 1..Len(wire) + 1 : ViewAt(i) \in Views
         /\ \A i \in 1..Len(wire) : wire[i] \in Chunks
         /\ \A i \in Nat : i = Len(wire) + 1 => ViewAt(i) = View
BY ElementOfSeq, LenProperties DEF ChunkTypeOK, ViewAt

\* Sending adds a view at the end.
LEMMA ViewsSent ==
  ASSUME ChunkTypeOK, NEW k \in Chunks, Emit(k)
  PROVE  /\ Len(wire') = Len(wire) + 1 /\ Len(views') = Len(views) + 1
         /\ \A i \in 1..Len(wire) : wire'[i] = wire[i]
         /\ wire'[Len(wire) + 1] = k
         /\ \A i \in 1..Len(wire) + 1 : ViewAt(i)' = ViewAt(i)
         /\ \A i \in Nat : i = Len(wire) + 2 => ViewAt(i)' = View'
<1>1. wire' = Append(wire, k) /\ views' = Append(views, View)
  BY DEF Emit
<1>2. View \in Views /\ wire \in Seq(Chunks) /\ views \in Seq(Views) /\ Len(views) = Len(wire)
      /\ Len(wire) \in Nat
  BY DEF ChunkTypeOK
<1>3. /\ Len(wire') = Len(wire) + 1 /\ Len(views') = Len(views) + 1
      /\ \A i \in 1..Len(wire) : wire'[i] = wire[i] /\ views'[i] = views[i]
      /\ wire'[Len(wire) + 1] = k /\ views'[Len(wire) + 1] = View
  BY <1>1, <1>2
<1>4. \A i \in 1..Len(wire) + 1 : ViewAt(i)' = ViewAt(i)
  BY <1>2, <1>3 DEF ViewAt
<1>5. \A i \in Nat : i = Len(wire) + 2 => ViewAt(i)' = View'
  BY <1>2, <1>3 DEF ViewAt
<1> QED
  BY <1>3, <1>4, <1>5

\* Reading takes one off at the front.
LEMMA ViewsRead ==
  ASSUME ChunkTypeOK, wire # <<>>, Reads(Head(wire))
  PROVE  /\ wire[1] = Head(wire) /\ Len(wire) \in Nat \ {0}
         /\ wire' \in Seq(Chunks) /\ views' \in Seq(Views)
         /\ Len(wire') = Len(wire) - 1 /\ Len(views') = Len(wire')
         /\ \A i \in 1..Len(wire) - 1 : wire'[i] = wire[i + 1]
         /\ \A i \in 1..Len(wire) : ViewAt(i)' = ViewAt(i + 1)
         /\ View' = View
<1>1. wire' = Tail(wire) /\ views' = Tail(views) /\ View' = View
  BY DEF Reads, View
<1>2. wire \in Seq(Chunks) /\ views \in Seq(Views) /\ Len(views) = Len(wire)
  BY DEF ChunkTypeOK
<1>3. Len(wire) \in Nat \ {0} /\ views # <<>> /\ wire[1] = Head(wire)
  BY <1>2, EmptySeq
<1>4. /\ wire' \in Seq(Chunks) /\ views' \in Seq(Views)
      /\ Len(wire') = Len(wire) - 1 /\ Len(views') = Len(views) - 1
      /\ \A i \in 1..Len(wire) - 1 : wire'[i] = wire[i + 1] /\ views'[i] = views[i + 1]
  BY <1>1, <1>2, <1>3, HeadTailProperties
<1>5. \A i \in 1..Len(wire) : ViewAt(i)' = ViewAt(i + 1)
  BY <1>1, <1>2, <1>3, <1>4 DEF ViewAt
<1> QED
  BY <1>1, <1>2, <1>3, <1>4, <1>5

-----------------------------------------------------------------------------
(***************************************************************************)
(* The publisher sends a chunk.                                            *)
(***************************************************************************)

\* A new link at the end of the chain keeps the rest of the invariant.
LEMMA SendKeeps ==
  ASSUME IInv, NEW k \in Chunks, Emit(k), View' \in Views,
         \A c \in ChunkStreams :
           /\ Len(sent[c]) <= Len(sent'[c])
           /\ \A i \in 1..Len(sent[c]) : sent'[c][i] = sent[c][i],
         ViewOK(View'), Link(View, k, View')
  PROVE  IInv'
<1>1. ChunkTypeOK /\ View \in Views
  BY DEF IInv, ChunkTypeOK
<1>2. UNCHANGED <<csState, inSize, sync, got>>
  BY DEF Emit
<1>3. ChunkTypeOK'
  <2>1. wire' \in Seq(Chunks) /\ views' \in Seq(Views) /\ Len(views') = Len(wire')
    BY <1>1 DEF ChunkTypeOK, Emit
  <2> QED
    BY <1>1, <1>2, <2>1 DEF ChunkTypeOK
<1>4. ASSUME sync PROVE Chain' /\ Mirror'
  <2>1. Chain /\ Mirror
    BY <1>4 DEF IInv
  <2>2. /\ Len(wire') = Len(wire) + 1
        /\ \A i \in 1..Len(wire) : wire'[i] = wire[i]
        /\ wire'[Len(wire) + 1] = k
        /\ \A i \in 1..Len(wire) + 1 : ViewAt(i)' = ViewAt(i)
        /\ \A i \in Nat : i = Len(wire) + 2 => ViewAt(i)' = View'
    BY <1>1, ViewsSent
  <2>3. /\ Len(wire) \in Nat
        /\ \A i \in 1..Len(wire) + 1 : ViewAt(i) \in Views
        /\ \A i \in Nat : i = Len(wire) + 1 => ViewAt(i) = View
    BY <1>1, ViewsType
  <2>5. ASSUME NEW i \in 1..Len(wire') + 1 PROVE ViewOK(ViewAt(i)') /\ Prefix(ViewAt(i))'
    <3>1. CASE i = Len(wire) + 2
      <4>1. ViewAt(i)' = View'
        BY <2>2, <3>1
      <4>2. ViewAt(i)'.sent = sent'
        BY <4>1 DEF View
      <4> QED
        BY <4>1, <4>2, <1>3 DEF Prefix, ChunkTypeOK, View, Views
    <3>2. CASE i \in 1..Len(wire) + 1
      <4>1. ViewAt(i)' = ViewAt(i) /\ ViewOK(ViewAt(i)) /\ Prefix(ViewAt(i))
        BY <2>1, <2>2, <3>2 DEF Chain
      <4>2. ASSUME NEW c \in ChunkStreams
            PROVE  /\ Len(ViewAt(i).sent[c]) <= Len(sent'[c])
                   /\ \A j \in 1..Len(ViewAt(i).sent[c]) : ViewAt(i).sent[c][j] = sent'[c][j]
        <5>1. /\ Len(ViewAt(i).sent[c]) \in Nat /\ Len(sent[c]) \in Nat
              /\ Len(sent'[c]) \in Nat
          BY <1>1, <1>3, <2>3, <3>2 DEF Views, ChunkTypeOK, View
        <5>2. /\ Len(ViewAt(i).sent[c]) <= Len(sent[c])
              /\ \A j \in 1..Len(ViewAt(i).sent[c]) : ViewAt(i).sent[c][j] = sent[c][j]
          BY <4>1 DEF Prefix
        <5> QED
          BY <5>1, <5>2
      <4> QED
        BY <4>1, <4>2 DEF Prefix
    <3> QED
      BY <2>2, <2>3, <3>1, <3>2
  <2>6. ASSUME NEW i \in 1..Len(wire')
        PROVE  Link(ViewAt(i)', wire'[i], ViewAt(i + 1)')
    <3>1. CASE i = Len(wire) + 1
      <4>1. ViewAt(i)' = View /\ wire'[i] = k
        BY <2>2, <2>3, <3>1
      <4>2. ViewAt(i + 1)' = View'
        BY <2>2, <3>1
      <4> QED
        BY <4>1, <4>2
    <3>2. CASE i \in 1..Len(wire)
      <4>1. ViewAt(i)' = ViewAt(i) /\ wire'[i] = wire[i] /\ ViewAt(i + 1)' = ViewAt(i + 1)
        BY <2>2, <2>3, <3>2
      <4> QED
        BY <2>1, <3>2, <4>1 DEF Chain
    <3> QED
      BY <2>2, <2>3, <3>1, <3>2
  <2>7. Chain'
    BY <2>5, <2>6 DEF Chain, ViewOK, Link, Carries, Begins, Continues
  <2>8. Mirror'
    <3>1. ViewAt(1)' = ViewAt(1)
      BY <2>2, <2>3
    <3> QED
      BY <1>2, <2>1, <3>1 DEF Mirror, Matches
  <2> QED
    BY <2>7, <2>8
<1>5. ViewOK(View)'
  BY DEF ViewOK
<1> QED
  BY <1>2, <1>3, <1>4, <1>5 DEF IInv

\* What the publisher remembers once it has sent n units of m, n > 0 or all.
LEMMA SendingType ==
  ASSUME NEW m \in Message, NEW delta \in Nat, NEW n \in 0..Len(m.payload)
  PROVE  Sending(m, delta, n) \in Memories
BY PayloadType DEF Sending, Memories

\* The first chunk of a message is a link of the chain.
LEMMA BeginKeeps ==
  ASSUME IInv, NEW c \in ChunkStreams, NEW m \in Message, NEW f \in 0..3, Begin(c, m, f)
  PROVE  IInv'
<1> DEFINE o == out[c]
           data == Piece(m, 0, outSize)
           delta == Delta(o, m, f)
           stamp == IF f = 0 THEN m.timestamp ELSE delta
           k == Chunk(c, f, stamp, m, data)
<1>1. ChunkTypeOK /\ View \in Views
  BY DEF IInv, ChunkTypeOK
<1>2. /\ out \in [ChunkStreams -> Memories] /\ outSize \in Positive
      /\ sent \in [ChunkStreams -> Seq(Message)]
      /\ o \in Memories /\ o.timestamp \in Nat
  BY <1>1 DEF View, Views, Memories
<1>3. /\ o.msg = None /\ f \in Formats(o, m)
      /\ Emit(k)
      /\ out' = [out EXCEPT ![c] = Sending(m, delta, Len(data))]
      /\ outSize' = (IF m.type = SetChunkSize THEN SizeIn(m.payload) ELSE outSize)
      /\ sent' = (IF m.type = SetChunkSize
                  THEN sent ELSE [sent EXCEPT ![c] = Append(@, m)])
  BY DEF Begin
<1>4. /\ m.type \in Types /\ m.streamId \in Nat /\ m.timestamp \in Nat
      /\ m.payload \in Seq(Units) /\ Len(m.payload) \in Nat /\ m # None
      /\ m.type = SetChunkSize => Len(m.payload) = 1 /\ SizeIn(m.payload) \in Positive
  BY PayloadType
<1>5. delta \in Nat /\ stamp \in Nat
  BY <1>2, <1>3, <1>4 DEF Delta, Formats
<1>6. /\ data \in Seq(Units) /\ Len(data) = MinOf(Len(m.payload), outSize)
      /\ Len(data) \in 0..Len(m.payload)
  <2>1. 0 \in 0..Len(m.payload) /\ Len(m.payload) - 0 = Len(m.payload)
    BY <1>4
  <2> QED
    BY <1>2, <2>1, PieceProperties
<1> HIDE DEF data, stamp, delta
<1>7. m.type = SetChunkSize => Len(data) = Len(m.payload)
  <2>1. MinOf(1, outSize) = 1
    BY <1>2 DEF MinOf, Positive
  <2> QED
    BY <1>4, <1>6, <2>1
<1>8. k \in Chunks
  BY <1>4, <1>5, <1>6 DEF Chunk, Chunks
<1>9. Sending(m, delta, Len(data)) \in Memories
  BY <1>5, <1>6, SendingType
<1>10. /\ out' \in [ChunkStreams -> Memories] /\ outSize' \in Positive
       /\ sent' \in [ChunkStreams -> Seq(Message)]
  BY <1>2, <1>3, <1>4, <1>9
<1>11. View' \in Views
  BY <1>10 DEF View, Views
<1>12. ASSUME NEW d \in ChunkStreams
       PROVE  /\ Len(sent[d]) <= Len(sent'[d])
              /\ \A i \in 1..Len(sent[d]) : sent'[d][i] = sent[d][i]
  <2>1. sent[d] \in Seq(Message) /\ Len(sent[d]) \in Nat
    BY <1>2
  <2>2. sent'[d] = sent[d] \/ sent'[d] = Append(sent[d], m)
    BY <1>2, <1>3
  <2> QED
    BY <2>1, <2>2
<1>13. ViewOK(View')
  <2> SUFFICES ASSUME NEW d \in ChunkStreams, out'[d].msg # None
               PROVE  /\ out'[d].msg.type # SetChunkSize
                      /\ out'[d].done < Len(out'[d].msg.payload)
                      /\ out'[d].timestamp = out'[d].msg.timestamp
                      /\ out'[d].length = Len(out'[d].msg.payload)
                      /\ out'[d].type = out'[d].msg.type
                      /\ out'[d].streamId = out'[d].msg.streamId
                      /\ sent'[d] # <<>> /\ sent'[d][Len(sent'[d])] = out'[d].msg
    BY DEF ViewOK, View
  <2>1. CASE d = c
    <3>1. out'[c] = Sending(m, delta, Len(data))
      BY <1>2, <1>3
    <3>2. Len(data) < Len(m.payload) /\ out'[c].msg = m
      BY <2>1, <3>1 DEF Sending
    <3>3. m.type # SetChunkSize
      BY <1>4, <1>6, <1>7, <3>2
    <3>4. sent'[c] = Append(sent[c], m) /\ sent[c] \in Seq(Message)
      BY <1>2, <1>3, <3>3
    <3>5. sent'[c] # <<>> /\ sent'[c][Len(sent'[c])] = m
      BY <3>4
    <3> QED
      BY <2>1, <3>1, <3>2, <3>3, <3>5 DEF Sending
  <2>2. CASE d # c
    <3>1. out'[d] = out[d] /\ sent'[d] = sent[d]
      BY <1>2, <1>3, <2>2
    <3> QED
      BY <3>1 DEF IInv, ViewOK, View
  <2> QED
    BY <2>1, <2>2
<1>14. Link(View, k, View')
  <2>1. /\ k.cs = c /\ k.fmt = f /\ k.stamp = stamp /\ k.data = data
        /\ k.length = Len(m.payload) /\ k.type = m.type /\ k.streamId = m.streamId
    BY DEF Chunk
  <2>2. /\ View.out = out /\ View.size = outSize /\ View.sent = sent
        /\ (View').out = out' /\ (View').size = outSize' /\ (View').sent = sent'
    BY DEF View
  <2>3. stamp = IF f = 0 THEN m.timestamp ELSE m.timestamp - o.timestamp
    BY DEF stamp, delta, Delta
  <2>4. Begins(View, k, View', m, 0)
    BY <1>3, <2>1, <2>2, <2>3 DEF Begins
  <2>5. data = Piece(m, 0, View.size) /\ 0 + Len(data) = Len(data)
    BY <1>6, <2>2 DEF data
  <2>6. Carries(View, k, View', m, 0, delta)
    BY <1>3, <2>1, <2>2, <2>4, <2>5 DEF Carries
  <2> QED
    BY <1>5, <2>6 DEF Link
<1> QED
  BY <1>3, <1>8, <1>11, <1>12, <1>13, <1>14, SendKeeps

\* So is every further chunk.
LEMMA ContinueKeeps ==
  ASSUME IInv, NEW c \in ChunkStreams, Continue(c)
  PROVE  IInv'
<1> DEFINE o == out[c]
           m == o.msg
           data == Piece(m, o.done, outSize)
           n == o.done + Len(data)
           k == Chunk(c, 3, 0, m, data)
<1>1. ChunkTypeOK /\ View \in Views /\ ViewOK(View)
  BY DEF IInv, ChunkTypeOK
<1>2. /\ out \in [ChunkStreams -> Memories] /\ outSize \in Positive
      /\ sent \in [ChunkStreams -> Seq(Message)]
      /\ o \in Memories /\ o.delta \in Nat /\ o.done \in Nat
      /\ m \in Message \cup {None}
  BY <1>1 DEF View, Views, Memories
<1>3. /\ m # None
      /\ Emit(k)
      /\ out' = [out EXCEPT ![c] = Sending(m, o.delta, n)]
      /\ outSize' = outSize /\ sent' = sent
  BY DEF Continue
<1>4. m \in Message
  BY <1>2, <1>3
<1>5. /\ m.type \in Types /\ m.streamId \in Nat /\ m.payload \in Seq(Units)
      /\ Len(m.payload) \in Nat
  BY <1>4, PayloadType
<1>6. /\ m.type # SetChunkSize /\ o.done < Len(m.payload)
      /\ sent[c] # <<>> /\ sent[c][Len(sent[c])] = m
  BY <1>1, <1>3 DEF ViewOK, View
<1>7. /\ data \in Seq(Units) /\ Len(data) \in Nat /\ n \in 0..Len(m.payload)
  <2>1. o.done \in 0..Len(m.payload)
    BY <1>2, <1>5, <1>6
  <2>2. data \in Seq(Units) /\ Len(data) \in 0..Len(m.payload) - o.done
    BY <1>2, <1>4, <2>1, PieceProperties
  <2> HIDE DEF data, m
  <2> QED
    BY <1>2, <1>5, <2>1, <2>2
<1> HIDE DEF data, n, m
<1>8. k \in Chunks
  BY <1>5, <1>7 DEF Chunk, Chunks
<1>9. out' \in [ChunkStreams -> Memories]
  BY <1>2, <1>3, <1>4, <1>7, SendingType
<1>10. View' \in Views
  BY <1>2, <1>3, <1>9 DEF View, Views
<1>11. ViewOK(View')
  <2> SUFFICES ASSUME NEW d \in ChunkStreams, out'[d].msg # None
               PROVE  /\ out'[d].msg.type # SetChunkSize
                      /\ out'[d].done < Len(out'[d].msg.payload)
                      /\ out'[d].timestamp = out'[d].msg.timestamp
                      /\ out'[d].length = Len(out'[d].msg.payload)
                      /\ out'[d].type = out'[d].msg.type
                      /\ out'[d].streamId = out'[d].msg.streamId
                      /\ sent'[d] # <<>> /\ sent'[d][Len(sent'[d])] = out'[d].msg
    BY DEF ViewOK, View
  <2>1. CASE d = c
    <3>1. out'[c] = Sending(m, o.delta, n)
      BY <1>2, <1>3
    <3>2. n < Len(m.payload) /\ out'[c].msg = m
      BY <2>1, <3>1 DEF Sending
    <3> QED
      BY <1>3, <1>6, <2>1, <3>1, <3>2 DEF Sending
  <2>2. CASE d # c
    <3>1. out'[d] = out[d]
      BY <1>2, <1>3, <2>2
    <3> QED
      BY <1>1, <1>3, <3>1 DEF ViewOK, View
  <2> QED
    BY <2>1, <2>2
<1>12. Link(View, k, View')
  <2>1. k.cs = c /\ k.fmt = 3 /\ k.data = data
    BY DEF Chunk
  <2>2. /\ View.out = out /\ View.size = outSize /\ View.sent = sent
        /\ (View').out = out' /\ (View').size = outSize' /\ (View').sent = sent'
    BY DEF View
  <2>3. Continues(View, k, View', m, o.done)
    BY <1>3, <2>1, <2>2 DEF Continues, m
  <2>4. data = Piece(m, o.done, View.size)
    BY <2>2 DEF data
  <2>5. Carries(View, k, View', m, o.done, o.delta)
    BY <1>3, <2>1, <2>2, <2>3, <2>4 DEF Carries, n
  <2> QED
    BY <1>2, <1>4, <2>5 DEF Link
<1>13. \A d \in ChunkStreams :
         /\ Len(sent[d]) <= Len(sent'[d])
         /\ \A i \in 1..Len(sent[d]) : sent'[d][i] = sent[d][i]
  BY <1>2, <1>3
<1> QED
  BY <1>3, <1>8, <1>10, <1>11, <1>12, <1>13, SendKeeps

-----------------------------------------------------------------------------
(***************************************************************************)
(* The endpoint reads a chunk.                                             *)
(***************************************************************************)

\* The endpoint's memory of one stream, and the messages it has returned,
\* follow the chunk it reads: it is the publisher's memory after that chunk.
LEMMA StreamRead ==
  ASSUME NEW V \in Views, NEW W \in Views, NEW k \in Chunks,
         NEW m \in Message, NEW done \in Nat, NEW delta \in Nat,
         csState \in [ChunkStreams -> States], inSize = V.size,
         ViewOK(V), Matches(csState[k.cs], V.out[k.cs]), Carries(V, k, W, m, done, delta)
  PROVE  /\ ~Completes(k) => Matches(AfterChunk(k), W.out[k.cs]) /\ W.out[k.cs].msg = m
         /\ Completes(k) => Matches(Cleared(k), W.out[k.cs]) /\ W.out[k.cs].msg = None
         /\ AfterChunk(k) \in States /\ Cleared(k) \in States
         /\ \A d \in ChunkStreams : d # k.cs => W.out[d] = V.out[d]
<1> DEFINE n == done + Len(k.data)
           a == AfterChunk(k)
           w == W.out[k.cs]
<1>1. /\ n \in Nat /\ n <= Len(m.payload) /\ Len(m.payload) \in Nat
      /\ a \in States
      /\ ~SameDelta => a.timestamp = m.timestamp
      /\ a.length = Len(m.payload)
      /\ a.type = m.type /\ a.streamId = m.streamId
      /\ a.bytesReceived = n
      /\ a.partialPayload = SubSeq(m.payload, 1, n)
      /\ Completes(k) <=> n = Len(m.payload)
  BY ChunkRead, PayloadType
<1>2. /\ V.out \in [ChunkStreams -> Memories] /\ k.cs \in ChunkStreams
      /\ W.out = [V.out EXCEPT ![k.cs] = Sending(m, delta, n)]
  BY DEF Carries, Views, Chunks
<1>3. w = Sending(m, delta, n) /\ \A d \in ChunkStreams : d # k.cs => W.out[d] = V.out[d]
  BY <1>2
<1>4. /\ w.timestamp = m.timestamp /\ w.length = Len(m.payload) /\ w.type = m.type
      /\ w.streamId = m.streamId /\ w.done = n
      /\ w.msg = IF n < Len(m.payload) THEN m ELSE None
  BY <1>3 DEF Sending
<1>5. Cleared(k) = [a EXCEPT !.partialPayload = <<>>, !.bytesReceived = 0]
  BY DEF Cleared
<1> HIDE DEF a, w, n
<1>6. Cleared(k) \in States
  <2>1. <<>> \in Seq(Units) /\ 0 \in Nat
    OBVIOUS
  <2>2. \A p \in Seq(Units), i \in Nat :
          [a EXCEPT !.partialPayload = p, !.bytesReceived = i] \in States
    BY <1>1, StateUpdates
  <2> QED
    BY <1>5, <2>1, <2>2
<1>7. m # None
  BY PayloadType
<1>8. ASSUME ~Completes(k) PROVE Matches(a, w) /\ w.msg = m
  <2>1. w.msg = m
    BY <1>1, <1>4, <1>8
  <2> QED
    BY <1>1, <1>4, <1>7, <2>1 DEF Matches
<1>9. ASSUME Completes(k) PROVE Matches(Cleared(k), w) /\ w.msg = None
  <2>1. w.msg = None
    BY <1>1, <1>4, <1>9
  <2>2. /\ Cleared(k).timestamp = a.timestamp /\ Cleared(k).length = a.length
        /\ Cleared(k).type = a.type /\ Cleared(k).streamId = a.streamId
        /\ Cleared(k).partialPayload = <<>> /\ Cleared(k).bytesReceived = 0
    BY <1>1, <1>5 DEF States
  <2> QED
    BY <1>1, <1>4, <2>1, <2>2 DEF Matches
<1> QED
  BY <1>1, <1>3, <1>6, <1>8, <1>9 DEF a, w

\* The chain loses its first link, the rest stays.
LEMMA ReadKeepsChain ==
  ASSUME ChunkTypeOK, wire # <<>>, Reads(Head(wire)), Chain
  PROVE  Chain'
<1>1. /\ wire[1] = Head(wire) /\ Len(wire) \in Nat \ {0}
      /\ Len(wire') = Len(wire) - 1
      /\ \A i \in 1..Len(wire) - 1 : wire'[i] = wire[i + 1]
      /\ \A i \in 1..Len(wire) : ViewAt(i)' = ViewAt(i + 1)
  BY ViewsRead
<1>2. sent' = sent
  BY DEF Reads
<1>3. ASSUME NEW i \in 1..Len(wire') + 1 PROVE ViewOK(ViewAt(i)') /\ Prefix(ViewAt(i))'
  <2>1. i \in 1..Len(wire) /\ i + 1 \in 1..Len(wire) + 1
    BY <1>1
  <2>2. ViewAt(i)' = ViewAt(i + 1) /\ ViewOK(ViewAt(i + 1)) /\ Prefix(ViewAt(i + 1))
    BY <1>1, <2>1 DEF Chain
  <2> QED
    BY <1>2, <2>2 DEF Prefix
<1>4. ASSUME NEW i \in 1..Len(wire')
      PROVE  Link(ViewAt(i)', wire'[i], ViewAt(i + 1)')
  <2>1. i \in 1..Len(wire) - 1 /\ i \in 1..Len(wire) /\ i + 1 \in 1..Len(wire)
    BY <1>1
  <2>2. /\ wire'[i] = wire[i + 1] /\ ViewAt(i)' = ViewAt(i + 1)
        /\ ViewAt(i + 1)' = ViewAt((i + 1) + 1)
    BY <1>1, <2>1
  <2>3. Link(ViewAt(i + 1), wire[i + 1], ViewAt((i + 1) + 1))
    BY <2>1 DEF Chain
  <2> QED
    BY <2>2, <2>3
<1> QED
  BY <1>3, <1>4 DEF Chain, ViewOK, Link, Carries, Begins, Continues

\* What the invariant says of the next chunk, k: it lies between the
\* publisher's memory that the endpoint mirrors, V, and the next view, W.
LEMMA NextChunk ==
  ASSUME IInv, sync, wire # <<>>,
         NEW V, NEW W, NEW k, V = ViewAt(1), W = ViewAt(2), k = Head(wire)
  PROVE  /\ V \in Views /\ W \in Views /\ k \in Chunks /\ k.cs \in ChunkStreams
         /\ csState \in [ChunkStreams -> States] /\ inSize = V.size
         /\ got \in [ChunkStreams -> Seq(Records)]
         /\ ViewOK(V) /\ Prefix(W) /\ Link(V, k, W)
         /\ \A c \in ChunkStreams :
              /\ Matches(csState[c], V.out[c])
              /\ Counts(V.sent[c], got[c], V.out[c])
<1>1. ChunkTypeOK /\ Chain /\ Mirror
  BY DEF IInv
<1>2. Len(wire) \in Nat \ {0} /\ wire[1] = k
  BY <1>1, EmptySeq DEF ChunkTypeOK
<1>3. /\ \A i \in 1..Len(wire) + 1 : ViewAt(i) \in Views
      /\ \A i \in 1..Len(wire) : wire[i] \in Chunks
  BY <1>1, ViewsType
<1>4. 1 \in 1..Len(wire) /\ 1 \in 1..Len(wire) + 1 /\ 2 \in 1..Len(wire) + 1 /\ 1 + 1 = 2
  BY <1>2
<1>5. V \in Views /\ W \in Views /\ k \in Chunks /\ k.cs \in ChunkStreams
  BY <1>2, <1>3, <1>4 DEF Chunks
<1>6. ViewOK(V) /\ Prefix(W) /\ Link(V, k, W)
  BY <1>1, <1>2, <1>4 DEF Chain
<1> QED
  BY <1>1, <1>5, <1>6 DEF ChunkTypeOK, Mirror

\* The chunk size at view W, after chunk k of message m, and the messages
\* begun: m comes next after the messages g, unless it announces the size.
Announced(V, k, W, m, g) ==
  /\ m.type # SetChunkSize =>
       /\ W.size = V.size
       /\ Len(W.sent[k.cs]) = Len(g) + 1
       /\ W.sent[k.cs][Len(g) + 1] = m
  /\ m.type = SetChunkSize =>
       /\ W.size = SizeIn(m.payload)
       /\ Len(W.sent[k.cs]) = Len(g)
  /\ \A d \in ChunkStreams : d # k.cs => W.sent[d] = V.sent[d]

\* A link of the chain makes it so.
LEMMA AfterLink ==
  ASSUME NEW V \in Views, NEW W \in Views, NEW k \in Chunks,
         NEW m \in Message, NEW done \in Nat, NEW delta \in Nat, NEW g \in Seq(Records),
         ViewOK(V), Carries(V, k, W, m, done, delta),
         Counts(V.sent[k.cs], g, V.out[k.cs])
  PROVE  Announced(V, k, W, m, g)
<1>1. /\ k.cs \in ChunkStreams /\ V.sent \in [ChunkStreams -> Seq(Message)]
      /\ V.sent[k.cs] \in Seq(Message) /\ m # None
  BY PayloadType DEF Views, Chunks
<1>2. CASE Begins(V, k, W, m, done)
  <2>1. /\ Len(V.sent[k.cs]) = Len(g)
        /\ W.size = (IF m.type = SetChunkSize THEN SizeIn(m.payload) ELSE V.size)
        /\ W.sent = (IF m.type = SetChunkSize
                     THEN V.sent ELSE [V.sent EXCEPT ![k.cs] = Append(@, m)])
    BY <1>2 DEF Begins, Counts
  <2>2. /\ Len(Append(V.sent[k.cs], m)) = Len(g) + 1
        /\ Append(V.sent[k.cs], m)[Len(g) + 1] = m
    BY <1>1, <2>1
  <2> QED
    BY <1>1, <2>1, <2>2 DEF Announced
<1>3. CASE Continues(V, k, W, m, done)
  <2>1. V.out[k.cs].msg = m /\ W.size = V.size /\ W.sent = V.sent
    BY <1>3 DEF Continues
  <2>2. /\ m.type # SetChunkSize /\ V.sent[k.cs][Len(V.sent[k.cs])] = m
        /\ Len(V.sent[k.cs]) = Len(g) + 1
    BY <1>1, <2>1 DEF ViewOK, Counts
  <2> QED
    BY <1>1, <2>1, <2>2 DEF Announced
<1> QED
  BY <1>2, <1>3 DEF Carries

\* The endpoint has taken chunk k up when the next view mirrors its memory of
\* the chunk's stream, its chunk size and what it has returned on the stream.
LEMMA ReadKeeps ==
  ASSUME IInv, wire # <<>>, NEW k, k = Head(wire), Reads(k),
         NEW V, NEW W, V = ViewAt(1), W = ViewAt(2),
         csState' \in [ChunkStreams -> States],
         got' \in [ChunkStreams -> Seq(Records)],
         inSize' = W.size,
         Matches(csState'[k.cs], W.out[k.cs]),
         Counts(W.sent[k.cs], got'[k.cs], W.out[k.cs]),
         \A d \in ChunkStreams : d # k.cs =>
           /\ csState'[d] = csState[d] /\ got'[d] = got[d]
           /\ W.out[d] = V.out[d] /\ W.sent[d] = V.sent[d]
  PROVE  IInv'
<1>1. ChunkTypeOK /\ ViewOK(View) /\ sync /\ Chain
  BY DEF IInv, Reads
<1>2. /\ W \in Views /\ k.cs \in ChunkStreams
      /\ csState \in [ChunkStreams -> States] /\ got \in [ChunkStreams -> Seq(Records)]
      /\ \A c \in ChunkStreams :
           /\ Matches(csState[c], V.out[c])
           /\ Counts(V.sent[c], got[c], V.out[c])
  BY <1>1, NextChunk
<1>3. /\ wire' \in Seq(Chunks) /\ views' \in Seq(Views) /\ Len(views') = Len(wire')
      /\ Len(wire) \in Nat \ {0} /\ View' = View
      /\ \A i \in 1..Len(wire) : ViewAt(i)' = ViewAt(i + 1)
  BY <1>1, ViewsRead
<1>4. ChunkTypeOK'
  <2>1. inSize' \in Positive
    BY <1>2 DEF Views
  <2>2. View' \in Views /\ sync' \in BOOLEAN
    BY <1>1, <1>3 DEF ChunkTypeOK, Reads
  <2> QED
    BY <1>3, <2>1, <2>2 DEF ChunkTypeOK
<1>5. ViewOK(View)'
  BY <1>1, <1>3 DEF ViewOK
<1>6. Chain'
  BY <1>1, ReadKeepsChain
<1>7. ViewAt(1)' = W
  <2>1. 1 \in 1..Len(wire) /\ 1 + 1 = 2
    BY <1>3
  <2> QED
    BY <1>3, <2>1
<1>8. Mirror'
  <2>1. ASSUME NEW d \in ChunkStreams
        PROVE  /\ Matches(csState'[d], W.out[d])
               /\ Counts(W.sent[d], got'[d], W.out[d])
    <3>1. CASE d = k.cs
      BY <3>1
    <3>2. CASE d # k.cs
      BY <1>2, <3>2
    <3> QED
      BY <3>1, <3>2
  <2>2. ASSUME NEW d \in ChunkStreams
        PROVE  Matches(csState[d], ViewAt(1).out[d])'
    <3>1. Matches(csState'[d], W.out[d])
      BY <2>1
    <3> QED
      BY <1>7, <3>1 DEF Matches
  <2>3. (inSize = ViewAt(1).size)'
    BY <1>7
  <2>4. ASSUME NEW d \in ChunkStreams
        PROVE  Counts(ViewAt(1).sent[d], got[d], ViewAt(1).out[d])'
    <3>1. Counts(W.sent[d], got'[d], W.out[d])
      BY <2>1
    <3> QED
      BY <1>7, <3>1 DEF Counts
  <2> QED
    BY <2>2, <2>3, <2>4 DEF Mirror
<1> QED
  BY <1>4, <1>5, <1>6, <1>8 DEF IInv

\* The same of the stream of the next chunk, and the message m it carries.
LEMMA NextStream ==
  ASSUME IInv, sync, wire # <<>>,
         NEW V, NEW W, NEW k, V = ViewAt(1), W = ViewAt(2), k = Head(wire)
  PROVE  /\ k.cs \in ChunkStreams /\ got[k.cs] \in Seq(Records)
         /\ AfterHeader(k) \in States /\ AfterChunk(k) \in States /\ Cleared(k) \in States
         /\ ToRead(k) = Len(k.data) /\ inSize = V.size
         /\ \A d \in ChunkStreams : d # k.cs => W.out[d] = V.out[d] /\ W.sent[d] = V.sent[d]
         /\ \E m \in Message :
              /\ ~Completes(k) => /\ Matches(AfterChunk(k), W.out[k.cs])
                                  /\ W.out[k.cs].msg = m /\ m.type # SetChunkSize
              /\ Completes(k) => /\ Matches(Cleared(k), W.out[k.cs])
                                 /\ W.out[k.cs].msg = None
                                 /\ AfterChunk(k).partialPayload = m.payload
              /\ ~SameDelta => AfterChunk(k).timestamp = m.timestamp
              /\ AfterChunk(k).length = Len(m.payload)
              /\ AfterChunk(k).type = m.type /\ AfterChunk(k).streamId = m.streamId
              /\ m.type # SetChunkSize =>
                   /\ W.size = V.size
                   /\ Len(W.sent[k.cs]) = Len(got[k.cs]) + 1
                   /\ W.sent[k.cs][Len(got[k.cs]) + 1] = m
              /\ m.type = SetChunkSize =>
                   /\ W.size = SizeIn(m.payload)
                   /\ Len(W.sent[k.cs]) = Len(got[k.cs])
<1>1. /\ V \in Views /\ W \in Views /\ k \in Chunks /\ k.cs \in ChunkStreams
      /\ csState \in [ChunkStreams -> States] /\ inSize = V.size
      /\ got \in [ChunkStreams -> Seq(Records)]
      /\ ViewOK(V) /\ Link(V, k, W)
      /\ \A c \in ChunkStreams :
           /\ Matches(csState[c], V.out[c])
           /\ Counts(V.sent[c], got[c], V.out[c])
  BY NextChunk
<1>2. /\ V \in Views /\ W \in Views /\ k \in Chunks
      /\ csState \in [ChunkStreams -> States] /\ inSize = V.size /\ ViewOK(V)
      /\ Matches(csState[k.cs], V.out[k.cs])
  BY <1>1
<1>3. got[k.cs] \in Seq(Records)
  BY <1>1
<1>4. Counts(V.sent[k.cs], got[k.cs], V.out[k.cs])
  BY <1>1
<1>5. PICK m \in Message, done \in Nat, delta \in Nat : Carries(V, k, W, m, done, delta)
  BY <1>1 DEF Link
<1>6. /\ ~Completes(k) => Matches(AfterChunk(k), W.out[k.cs]) /\ W.out[k.cs].msg = m
      /\ Completes(k) => Matches(Cleared(k), W.out[k.cs]) /\ W.out[k.cs].msg = None
      /\ AfterChunk(k) \in States /\ Cleared(k) \in States
      /\ \A d \in ChunkStreams : d # k.cs => W.out[d] = V.out[d]
  BY <1>2, <1>5, StreamRead
<1>7. /\ AfterHeader(k) \in States
      /\ ToRead(k) = Len(k.data)
      /\ m.type = SetChunkSize => done + Len(k.data) = Len(m.payload)
      /\ ~SameDelta => AfterChunk(k).timestamp = m.timestamp
      /\ AfterChunk(k).length = Len(m.payload)
      /\ AfterChunk(k).type = m.type /\ AfterChunk(k).streamId = m.streamId
      /\ AfterChunk(k).partialPayload = SubSeq(m.payload, 1, done + Len(k.data))
      /\ Completes(k) <=> done + Len(k.data) = Len(m.payload)
  BY <1>2, <1>5, ChunkRead
<1>8. /\ m.type # SetChunkSize =>
           /\ W.size = V.size
           /\ Len(W.sent[k.cs]) = Len(got[k.cs]) + 1
           /\ W.sent[k.cs][Len(got[k.cs]) + 1] = m
      /\ m.type = SetChunkSize =>
           /\ W.size = SizeIn(m.payload)
           /\ Len(W.sent[k.cs]) = Len(got[k.cs])
      /\ \A d \in ChunkStreams : d # k.cs => W.sent[d] = V.sent[d]
  <2>1. V \in Views /\ W \in Views /\ k \in Chunks /\ ViewOK(V)
    BY <1>2
  <2> QED
    <3>1. Announced(V, k, W, m, got[k.cs])
      BY <1>3, <1>4, <1>5, <2>1, AfterLink
    <3> QED
      BY <3>1 DEF Announced
<1>9. Completes(k) => AfterChunk(k).partialPayload = m.payload
  BY <1>7, PayloadType, SubSeqFull
<1>10. ~Completes(k) => m.type # SetChunkSize
  BY <1>7
<1>11. /\ ~Completes(k) => /\ Matches(AfterChunk(k), W.out[k.cs])
                           /\ W.out[k.cs].msg = m /\ m.type # SetChunkSize
       /\ Completes(k) => /\ Matches(Cleared(k), W.out[k.cs])
                          /\ W.out[k.cs].msg = None
                          /\ AfterChunk(k).partialPayload = m.payload
  BY <1>6, <1>9, <1>10
<1>12. /\ k.cs \in ChunkStreams /\ AfterHeader(k) \in States
       /\ AfterChunk(k) \in States /\ Cleared(k) \in States
       /\ ToRead(k) = Len(k.data) /\ inSize = V.size
       /\ \A d \in ChunkStreams : d # k.cs => W.out[d] = V.out[d] /\ W.sent[d] = V.sent[d]
  BY <1>1, <1>6, <1>7, <1>8
<1> QED
  BY <1>3, <1>7, <1>8, <1>11, <1>12, Zenon

\* A chunk that does not complete its message.
LEMMA ReadPartKeeps ==
  ASSUME IInv, wire # <<>>, NEW k, k = Head(wire), ReadPart(k)
  PROVE  IInv'
<1>1. /\ sync /\ Reads(k) /\ ~Completes(k)
      /\ csState' = [csState EXCEPT ![k.cs] = AfterChunk(k)]
      /\ inSize' = inSize /\ got' = got
  BY DEF ReadPart, Reads
<1>2. PICK V, W : V = ViewAt(1) /\ W = ViewAt(2)
  OBVIOUS
<1>3. /\ k.cs \in ChunkStreams /\ got[k.cs] \in Seq(Records)
      /\ AfterChunk(k) \in States /\ inSize = V.size
      /\ \A d \in ChunkStreams : d # k.cs => W.out[d] = V.out[d] /\ W.sent[d] = V.sent[d]
  BY <1>1, <1>2, NextStream
<1>4. PICK m \in Message :
        /\ Matches(AfterChunk(k), W.out[k.cs])
        /\ W.out[k.cs].msg = m /\ W.size = V.size
        /\ Len(W.sent[k.cs]) = Len(got[k.cs]) + 1
  BY <1>1, <1>2, NextStream
<1>5. Counts(W.sent[k.cs], got[k.cs], W.out[k.cs])
  BY <1>4, PayloadType DEF Counts
<1>6. /\ csState \in [ChunkStreams -> States]
      /\ got' \in [ChunkStreams -> Seq(Records)] /\ inSize' = W.size
  BY <1>1, <1>3, <1>4 DEF IInv, ChunkTypeOK
<1>7. /\ csState' \in [ChunkStreams -> States]
      /\ csState'[k.cs] = AfterChunk(k) /\ got'[k.cs] = got[k.cs]
  BY <1>1, <1>3, <1>6
<1>8. \A d \in ChunkStreams : d # k.cs =>
        /\ csState'[d] = csState[d] /\ got'[d] = got[d]
        /\ W.out[d] = V.out[d] /\ W.sent[d] = V.sent[d]
  BY <1>1, <1>3, <1>6
<1>9. /\ Matches(csState'[k.cs], W.out[k.cs])
      /\ Counts(W.sent[k.cs], got'[k.cs], W.out[k.cs])
  BY <1>4, <1>5, <1>7
<1> QED
  BY <1>1, <1>2, <1>6, <1>7, <1>8, <1>9, ReadKeeps

\* The last chunk of a new chunk size.
LEMMA ReadResizeKeeps ==
  ASSUME IInv, wire # <<>>, NEW k, k = Head(wire), ReadResize(k)
  PROVE  IInv'
<1>1. /\ sync /\ Reads(k) /\ Completes(k)
      /\ AfterChunk(k).type = SetChunkSize
      /\ csState' = [csState EXCEPT ![k.cs] = Cleared(k)]
      /\ inSize' = SizeIn(AfterChunk(k).partialPayload) /\ got' = got
  BY DEF ReadResize, Reads
<1>2. PICK V, W : V = ViewAt(1) /\ W = ViewAt(2)
  OBVIOUS
<1>3. /\ k.cs \in ChunkStreams /\ got[k.cs] \in Seq(Records)
      /\ Cleared(k) \in States
      /\ \A d \in ChunkStreams : d # k.cs => W.out[d] = V.out[d] /\ W.sent[d] = V.sent[d]
  BY <1>1, <1>2, NextStream
<1>4. PICK m \in Message :
        /\ Matches(Cleared(k), W.out[k.cs])
        /\ W.out[k.cs].msg = None
        /\ AfterChunk(k).partialPayload = m.payload
        /\ W.size = SizeIn(m.payload) /\ Len(W.sent[k.cs]) = Len(got[k.cs])
  BY <1>1, <1>2, NextStream
<1>5. Counts(W.sent[k.cs], got[k.cs], W.out[k.cs])
  BY <1>3, <1>4 DEF Counts
<1>6. /\ csState \in [ChunkStreams -> States]
      /\ got' \in [ChunkStreams -> Seq(Records)] /\ inSize' = W.size
  BY <1>1, <1>3, <1>4 DEF IInv, ChunkTypeOK
<1>7. /\ csState' \in [ChunkStreams -> States]
      /\ csState'[k.cs] = Cleared(k) /\ got'[k.cs] = got[k.cs]
  BY <1>1, <1>3, <1>6
<1>8. \A d \in ChunkStreams : d # k.cs =>
        /\ csState'[d] = csState[d] /\ got'[d] = got[d]
        /\ W.out[d] = V.out[d] /\ W.sent[d] = V.sent[d]
  BY <1>1, <1>3, <1>6
<1>9. /\ Matches(csState'[k.cs], W.out[k.cs])
      /\ Counts(W.sent[k.cs], got'[k.cs], W.out[k.cs])
  BY <1>4, <1>5, <1>7
<1> QED
  BY <1>1, <1>2, <1>6, <1>7, <1>8, <1>9, ReadKeeps

\* The last chunk of any other message.  Except for its timestamp the message
\* returned is the next one the publisher sent on the stream.
LEMMA ReadMessageKeeps ==
  ASSUME IInv, wire # <<>>, NEW k, k = Head(wire), ReadMessage(k)
  PROVE  IInv' /\ (SameDelta \/ Transport!Deliver(k.cs))
<1> DEFINE a == Assembled(k)
           g == got[k.cs]
<1>1. /\ sync /\ Reads(k) /\ Completes(k)
      /\ ~(AfterChunk(k).type = SetChunkSize /\ AfterChunk(k).length >= 1)
      /\ csState' = [csState EXCEPT ![k.cs] = Cleared(k)]
      /\ inSize' = inSize /\ got' = [got EXCEPT ![k.cs] = Append(@, a)]
  BY DEF ReadMessage, Reads
<1>2. PICK V, W : V = ViewAt(1) /\ W = ViewAt(2)
  OBVIOUS
<1>3. /\ k.cs \in ChunkStreams /\ g \in Seq(Records)
      /\ AfterChunk(k) \in States /\ Cleared(k) \in States /\ inSize = V.size
      /\ \A d \in ChunkStreams : d # k.cs => W.out[d] = V.out[d] /\ W.sent[d] = V.sent[d]
  BY <1>1, <1>2, NextStream
<1>4. PICK m \in Message :
        /\ Matches(Cleared(k), W.out[k.cs])
        /\ W.out[k.cs].msg = None
        /\ AfterChunk(k).partialPayload = m.payload
        /\ ~SameDelta => AfterChunk(k).timestamp = m.timestamp
        /\ AfterChunk(k).length = Len(m.payload)
        /\ AfterChunk(k).type = m.type /\ AfterChunk(k).streamId = m.streamId
        /\ m.type # SetChunkSize =>
             /\ W.size = V.size
             /\ Len(W.sent[k.cs]) = Len(g) + 1
             /\ W.sent[k.cs][Len(g) + 1] = m
  BY <1>1, <1>2, NextStream
<1>5. m.type # SetChunkSize
  <2>1. m.type = SetChunkSize => AfterChunk(k).length = 1
    BY <1>4, PayloadType
  <2> QED
    BY <1>1, <1>4, <2>1
<1>6. /\ a \in Records
      /\ ~SameDelta => a = m
  <2>1. /\ m.type \in Types /\ m.streamId \in Nat /\ m.payload \in Seq(Units)
        /\ m \in Records
    BY PayloadType
  <2>2. AfterChunk(k).timestamp \in Nat
    BY <1>3 DEF States
  <2> QED
    BY <1>4, <2>1, <2>2 DEF Assembled, Records
<1> HIDE DEF a
<1>7. /\ got \in [ChunkStreams -> Seq(Records)] /\ csState \in [ChunkStreams -> States]
      /\ sent \in [ChunkStreams -> Seq(Message)]
  BY <1>1 DEF IInv, ChunkTypeOK, View, Views
<1>8. /\ Append(g, a) \in Seq(Records) /\ Len(g) \in Nat
      /\ Len(Append(g, a)) = Len(g) + 1
      /\ got' = [got EXCEPT ![k.cs] = Append(g, a)]
  BY <1>1, <1>3, <1>6, <1>7
<1>9. /\ csState' \in [ChunkStreams -> States]
      /\ got' \in [ChunkStreams -> Seq(Records)]
      /\ csState'[k.cs] = Cleared(k) /\ got'[k.cs] = Append(g, a)
      /\ inSize' = W.size
  BY <1>1, <1>3, <1>4, <1>5, <1>7, <1>8
<1>10. /\ Matches(csState'[k.cs], W.out[k.cs])
       /\ Counts(W.sent[k.cs], got'[k.cs], W.out[k.cs])
  BY <1>4, <1>5, <1>8, <1>9 DEF Counts
<1>11. IInv'
  <2>1. \A d \in ChunkStreams : d # k.cs =>
          /\ csState'[d] = csState[d] /\ got'[d] = got[d]
          /\ W.out[d] = V.out[d] /\ W.sent[d] = V.sent[d]
    BY <1>1, <1>3, <1>7
  <2> QED
    BY <1>1, <1>2, <1>9, <1>10, <2>1, ReadKeeps
<1>12. ASSUME ~SameDelta PROVE Transport!Deliver(k.cs)
  <2>1. /\ Len(W.sent[k.cs]) <= Len(sent[k.cs])
        /\ \A i \in 1..Len(W.sent[k.cs]) : W.sent[k.cs][i] = sent[k.cs][i]
    <3>1. Prefix(W)
      BY <1>1, <1>2, NextChunk
    <3> QED
      BY <1>3, <3>1 DEF Prefix
  <2>2. /\ Len(W.sent[k.cs]) = Len(g) + 1 /\ W.sent[k.cs][Len(g) + 1] = m
        /\ a = m /\ Len(sent[k.cs]) \in Nat
    BY <1>3, <1>4, <1>5, <1>6, <1>7, <1>12
  <2>3. Len(g) < Len(sent[k.cs]) /\ sent[k.cs][Len(g) + 1] = a
    BY <1>8, <2>1, <2>2
  <2>4. sent' = sent
    BY <1>1 DEF Reads
  <2> QED
    BY <1>8, <2>3, <2>4 DEF Transport!Deliver
<1> QED
  BY <1>11, <1>12

-----------------------------------------------------------------------------
(***************************************************************************)
(* Every step.                                                             *)
(***************************************************************************)

\* A read that fails in the middle of a chunk ends what the invariant says of
\* the endpoint's memory.
LEMMA TornKeeps ==
  ASSUME IInv, Torn
  PROVE  IInv' /\ ~sync'
<1>1. /\ sync' = FALSE
      /\ UNCHANGED <<out, outSize, wire, inSize, views, sent, got>>
  BY DEF Torn
<1>2. View' = View
  BY <1>1 DEF View
<1>3. ChunkTypeOK'
  BY <1>1, <1>2 DEF IInv, ChunkTypeOK
<1>4. ViewOK(View)'
  BY <1>2 DEF IInv, ViewOK
<1> QED
  BY <1>1, <1>3, <1>4 DEF IInv

\* So does a misaligned read.
LEMMA GarbledKeeps ==
  ASSUME IInv, ReadGarbled
  PROVE  IInv' /\ ~sync'
<1>1. /\ sync' = FALSE /\ wire' = <<>> /\ views' = <<>>
      /\ UNCHANGED <<out, outSize, csState, inSize, sent, got>>
  BY DEF ReadGarbled
<1>2. View' = View
  BY <1>1 DEF View
<1>3. ChunkTypeOK'
  <2>1. wire' \in Seq(Chunks) /\ views' \in Seq(Views) /\ Len(views') = Len(wire')
    BY <1>1
  <2> QED
    BY <1>1, <1>2, <2>1 DEF IInv, ChunkTypeOK
<1>4. ViewOK(View)'
  BY <1>2 DEF IInv, ViewOK
<1> QED
  BY <1>1, <1>3, <1>4 DEF IInv

\* The session's work on a message changes nothing here.
LEMMA IdleKeeps ==
  ASSUME IInv, UNCHANGED <<out, outSize, wire, csState, inSize, sync, views, sent, got>>
  PROVE  IInv'
<1>1. View' = View /\ wire' = wire /\ views' = views /\ sync' = sync
  BY DEF View
<1>2. ChunkTypeOK'
  BY <1>1 DEF IInv, ChunkTypeOK
<1>3. ViewOK(View)'
  BY <1>1 DEF IInv, ViewOK
<1>4. \A i \in Nat : ViewAt(i)' = ViewAt(i)
  BY <1>1 DEF ViewAt
<1>5. Len(wire) \in Nat /\ 1 \in Nat
  BY DEF IInv, ChunkTypeOK
<1>6. ASSUME sync PROVE Chain'
  <2>1. ASSUME NEW i \in 1..Len(wire') + 1 PROVE ViewOK(ViewAt(i)') /\ Prefix(ViewAt(i))'
    <3>1. i \in 1..Len(wire) + 1 /\ i \in Nat /\ ViewAt(i)' = ViewAt(i)
      BY <1>1, <1>4, <1>5
    <3> QED
      BY <1>6, <3>1 DEF IInv, Chain, Prefix
  <2>2. ASSUME NEW i \in 1..Len(wire') PROVE Link(ViewAt(i)', wire'[i], ViewAt(i + 1)')
    <3>1. i \in 1..Len(wire) /\ ViewAt(i)' = ViewAt(i) /\ ViewAt(i + 1)' = ViewAt(i + 1)
      BY <1>1, <1>4, <1>5
    <3> QED
      BY <1>1, <1>6, <3>1 DEF IInv, Chain
  <2> QED
    BY <2>1, <2>2 DEF Chain, ViewOK, Link, Carries, Begins, Continues
<1>7. ASSUME sync PROVE Mirror'
  <2>1. ViewAt(1)' = ViewAt(1)
    BY <1>4, <1>5
  <2> QED
    BY <1>7, <2>1 DEF IInv, Mirror, Matches, Counts
<1> QED
  BY <1>1, <1>2, <1>3, <1>6, <1>7 DEF IInv

\* At the start nothing is under way and both memories are new.
LEMMA InitIInv ==
  ASSUME ChunkInit
  PROVE  IInv
<1>1. /\ wire = <<>> /\ views = <<>> /\ outSize = FirstSize /\ inSize = FirstSize
      /\ FirstSize \in Positive /\ sync = TRUE
      /\ csState = [c \in ChunkStreams |-> NewStream]
      /\ sent = [c \in ChunkStreams |-> <<>>] /\ got = [c \in ChunkStreams |-> <<>>]
      /\ out = [c \in ChunkStreams |->
                  [timestamp |-> 0, delta |-> 0, length |-> 0, type |-> None,
                   streamId |-> 0, done |-> 0, msg |-> None]]
  BY ChunkAssumption DEF ChunkInit
<1>2. NewStream \in States
  <2>1. <<>> \in Seq(Units)
    OBVIOUS
  <2> QED
    BY <2>1 DEF NewStream, States
<1>3. out \in [ChunkStreams -> Memories]
  BY <1>1 DEF Memories
<1>4. View \in Views
  BY <1>1, <1>3 DEF View, Views
<1>5. ChunkTypeOK
  BY <1>1, <1>2, <1>4 DEF ChunkTypeOK
<1>6. ViewOK(View)
  BY <1>1 DEF ViewOK, View
<1>7. Len(wire) = 0 /\ ViewAt(1) = View
  BY <1>1 DEF ViewAt
<1>8. Chain
  <2>1. Prefix(View)
    BY <1>5 DEF Prefix, View, ChunkTypeOK, Views
  <2>2. \A i \in 1..Len(wire) + 1 : i = 1
    BY <1>7
  <2>3. 1..Len(wire) = {}
    BY <1>7
  <2> QED
    BY <1>6, <1>7, <2>1, <2>2, <2>3 DEF Chain
<1>9. Mirror
  <2>1. ASSUME NEW c \in ChunkStreams
        PROVE  /\ Matches(csState[c], out[c])
               /\ Counts(sent[c], got[c], out[c])
    BY <1>1 DEF Matches, Counts, NewStream
  <2> QED
    BY <1>1, <1>7, <2>1 DEF Mirror, View
<1> QED
  BY <1>5, <1>6, <1>8, <1>9 DEF IInv

\* Every step keeps the invariant.
LEMMA NextIInv ==
  ASSUME IInv, [ChunkNext]_chunkVars
  PROVE  IInv'
<1>1. ASSUME NEW c \in ChunkStreams, Continue(c) PROVE IInv'
  BY <1>1, ContinueKeeps
<1>2. ASSUME NEW c \in ChunkStreams, NEW m \in Message, NEW f \in 0..3, Begin(c, m, f)
      PROVE  IInv'
  BY <1>2, BeginKeeps
<1>3. ASSUME wire # <<>>, ReadPart(Head(wire)) PROVE IInv'
  BY <1>3, ReadPartKeeps
<1>4. ASSUME wire # <<>>, ReadResize(Head(wire)) PROVE IInv'
  BY <1>4, ReadResizeKeeps
<1>5. ASSUME wire # <<>>, ReadMessage(Head(wire)) PROVE IInv'
  BY <1>5, ReadMessageKeeps
<1>6. CASE Torn
  BY <1>6, TornKeeps
<1>7. CASE ReadGarbled
  BY <1>7, GarbledKeeps
<1>8. CASE Handle
  BY <1>8, IdleKeeps DEF Handle
<1>9. CASE Missed \/ UNCHANGED chunkVars
  BY <1>9, IdleKeeps DEF Missed, chunkVars
<1> QED
  BY <1>1, <1>2, <1>3, <1>4, <1>5, <1>6, <1>7, <1>8, <1>9 DEF ChunkNext, Publish, Read

\* Every step sends or delivers a message of the channel, or neither; or it
\* follows a torn read.
LEMMA NextTransport ==
  ASSUME ~SameDelta, IInv, [ChunkNext]_chunkVars
  PROVE  [Transport!Next \/ ~sync']_<<sent, got>>
<1>1. ASSUME NEW c \in ChunkStreams, Continue(c) PROVE UNCHANGED <<sent, got>>
  BY <1>1 DEF Continue, Emit
<1>2. ASSUME NEW c \in ChunkStreams, NEW m \in Message, NEW f \in 0..3, Begin(c, m, f)
      PROVE  Transport!Next \/ UNCHANGED <<sent, got>>
  <2>1. CASE m.type = SetChunkSize
    BY <1>2, <2>1 DEF Begin, Emit
  <2>2. CASE m.type # SetChunkSize
    <3>1. Transport!Send(c, m)
      BY <1>2, <2>2 DEF Begin, Emit, Transport!Send
    <3> QED
      BY <3>1 DEF Transport!Next
  <2> QED
    BY <2>1, <2>2
<1>3. ASSUME wire # <<>>, ReadPart(Head(wire)) \/ ReadResize(Head(wire))
      PROVE  UNCHANGED <<sent, got>>
  BY <1>3 DEF ReadPart, ReadResize, Reads
<1>4. ASSUME wire # <<>>, ReadMessage(Head(wire)) PROVE Transport!Next
  <2>1. PICK k, V, W : k = Head(wire) /\ V = ViewAt(1) /\ W = ViewAt(2)
    OBVIOUS
  <2>2. Transport!Deliver(k.cs)
    BY <1>4, <2>1, ReadMessageKeeps
  <2>3. k.cs \in ChunkStreams
    BY <1>4, <2>1, NextStream DEF ReadMessage, Reads
  <2> QED
    BY <2>2, <2>3 DEF Transport!Next
<1>5. CASE Torn
  BY <1>5 DEF Torn
<1>6. CASE ReadGarbled
  BY <1>6 DEF ReadGarbled
<1>7. CASE Handle
  BY <1>7 DEF Handle
<1>8. CASE Missed \/ UNCHANGED chunkVars
  BY <1>8 DEF Missed, chunkVars
<1> QED
  BY <1>1, <1>2, <1>3, <1>4, <1>5, <1>6, <1>7, <1>8 DEF ChunkNext, Publish, Read

-----------------------------------------------------------------------------
(***************************************************************************)
(* Theorems.                                                               *)
(***************************************************************************)

\* The endpoint mirrors the publisher, a chain of chunks behind it, until a
\* read is torn.
THEOREM ChunkInvariant == ChunkSpec => []IInv
<1>1. ChunkInit => IInv
  BY InitIInv
<1>2. IInv /\ [ChunkNext]_chunkVars => IInv'
  BY NextIInv
<1> QED
  BY <1>1, <1>2, PTL DEF ChunkSpec

\* A stream that was never misread stays aligned: readMessage works out of
\* its memory exactly as many bytes as the publisher put into the chunk,
\* whatever streams, sizes and header formats it chose before.
THEOREM StreamAligned == ChunkSpec => []Aligned
<1>1. IInv => Aligned
  <2> SUFFICES ASSUME IInv, sync, wire # <<>>
               PROVE  ToRead(Head(wire)) = Len(Head(wire).data)
    BY DEF Aligned
  <2>1. PICK k, V, W : k = Head(wire) /\ V = ViewAt(1) /\ W = ViewAt(2)
    OBVIOUS
  <2> QED
    BY <2>1, NextStream
<1> QED
  BY <1>1, ChunkInvariant, PTL

\* Nothing is swallowed: once all chunks are read, readMessage has returned
\* every message but those of which a part is still unsent.
THEOREM StreamComplete == ChunkSpec => []Complete
<1>1. IInv => Complete
  <2> SUFFICES ASSUME IInv, sync, wire = <<>>, NEW c \in ChunkStreams
               PROVE  Len(sent[c]) = Len(got[c]) + Unfinished(c)
    BY DEF Complete
  <2>1. ViewAt(1) = View
    BY DEF ViewAt, IInv, ChunkTypeOK
  <2>2. Counts(sent[c], got[c], out[c])
    BY <2>1 DEF IInv, Mirror, View
  <2>3. out[c].msg # None => out[c].type # SetChunkSize
    BY DEF IInv, ViewOK, View
  <2> QED
    BY <2>2, <2>3 DEF Counts, Unfinished
<1> QED
  BY <1>1, ChunkInvariant, PTL

\* The chunk layer implements the channel, for any number of chunk streams,
\* messages and sizes, when no type 3 header begins a message that stands for
\* a timestamp delta: on each stream readMessage returns the messages sent, in
\* order, each once and whole, until a read is torn.
THEOREM StreamIsChannel ==
  ASSUME ~SameDelta
  PROVE  ChunkSpec => ImplementsChannel
<1>1. ChunkInit => Transport!Init
  BY DEF ChunkInit, Transport!Init
<1>2. IInv /\ [ChunkNext]_chunkVars => [Transport!Next \/ ~sync']_<<sent, got>>
  BY NextTransport
<1> QED
  BY <1>1, <1>2, ChunkInvariant, PTL DEF ChunkSpec, ImplementsChannel
=============================================================================
