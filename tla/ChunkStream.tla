---------------------------- MODULE ChunkStream ----------------------------
(***************************************************************************)
(* The RTMP chunk layer of librtmp/RTMPEndpoint.cpp, inbound: a publisher  *)
(* cuts messages into chunks and may interleave the chunks of its chunk    *)
(* streams, the endpoint puts them together again.  Nothing on the wire    *)
(* says how long a chunk is.  The endpoint derives it from what it         *)
(* remembers: the length of the message the chunk stream is in, how much   *)
(* of it has come, and the chunk size announced last.  Once its memory and *)
(* the publisher's differ, every later byte is misread.                    *)
(*                                                                         *)
(* One step sends or reads a whole chunk.  A payload is a sequence of      *)
(* units, and lengths and chunk sizes count units.                         *)
(***************************************************************************)
EXTENDS Naturals, Sequences

CONSTANTS
  ChunkStreams,   \* chunk stream ids
  Types,          \* message types
  SetChunkSize,   \* the type RTMP_MSG_SET_CHUNK_SIZE
  Units,          \* units of payload
  Message,        \* the messages the publisher may send
  FirstSize,      \* DEFAULT_IN_CHUNK_SIZE, at both ends
  Window,         \* bound on the chunks under way
  Tear,           \* types: recv() may fail before or within their chunks
  SameDelta,      \* BOOLEAN: a type 3 header may begin a message whose
                  \* timestamp advances by the previous message's delta
  None, Garbled   \* no message; what a misaligned read returns

Positive == Nat \ {0}

\* The chunk size that a payload announces: its first unit, <<"size", n>>.
SizeIn(p) == p[1][2]

Records == [type : Types, streamId : Nat, timestamp : Nat, payload : Seq(Units)]

ASSUME ChunkAssumption ==
  /\ Message \subseteq Records
  /\ None \notin Records \cup Types
  /\ \A m \in Message : m.type = SetChunkSize =>
                          /\ Len(m.payload) = 1
                          /\ SizeIn(m.payload) \in Positive
  /\ SetChunkSize \in Types
  /\ FirstSize \in Positive
  /\ Window \in Nat
  /\ Tear \subseteq Types
  /\ SameDelta \in BOOLEAN

VARIABLES
  out,       \* the publisher's memory of each chunk stream
  outSize,   \* the publisher's chunk size
  wire,      \* the chunks sent and not yet read
  csState,   \* _csState
  inSize,    \* _inChunkSize
  inbox,     \* what readMessage returned and the session has not handled
  sync,      \* FALSE once the endpoint reads where no chunk starts
  views,     \* history: the publisher's memory before each chunk of wire
  sent, got  \* history: messages begun, messages returned, by chunk stream

chunkVars == <<out, outSize, wire, csState, inSize, inbox, sync, views, sent, got>>

MinOf(a, b) == IF a < b THEN a ELSE b

-----------------------------------------------------------------------------
(***************************************************************************)
(* The publisher.                                                          *)
(***************************************************************************)

\* The header formats that can begin message m after what stream memory o
\* holds: all fields, no stream id, a timestamp delta only, nothing.
Formats(o, m) ==
  LET used == o.type # None
      one == used /\ m.streamId = o.streamId /\ m.timestamp >= o.timestamp
      two == one /\ m.type = o.type /\ Len(m.payload) = o.length
      three == two /\ m.timestamp = o.timestamp + (IF SameDelta THEN o.delta ELSE 0)
  IN  {f \in 0..3 : (f = 1 => one) /\ (f = 2 => two) /\ (f = 3 => three)}

\* The payload of the next chunk, when done units are sent.
Piece(m, done, size) ==
  SubSeq(m.payload, done + 1, done + MinOf(Len(m.payload) - done, size))

Chunk(c, f, stamp, m, data) ==
  [cs |-> c, fmt |-> f, stamp |-> stamp, length |-> Len(m.payload),
   type |-> m.type, streamId |-> m.streamId, data |-> data]

\* The publisher's memory of a stream with n units of message m sent, which
\* came delta after the message before.
Sending(m, delta, n) ==
  [timestamp |-> m.timestamp, delta |-> delta, length |-> Len(m.payload),
   type |-> m.type, streamId |-> m.streamId, done |-> n,
   msg |-> IF n < Len(m.payload) THEN m ELSE None]

Delta(o, m, f) == IF f = 0 THEN 0 ELSE m.timestamp - o.timestamp

View == [out |-> out, size |-> outSize, sent |-> sent]

Emit(k) ==
  /\ Len(wire) < Window
  /\ wire' = Append(wire, k)
  /\ views' = Append(views, View)
  /\ UNCHANGED <<csState, inSize, inbox, sync, got>>

\* The first chunk of message m on stream c, under a header of format f.  A
\* new chunk size holds from the next chunk on.
Begin(c, m, f) ==
  LET o == out[c]
      data == Piece(m, 0, outSize)
      delta == Delta(o, m, f)
  IN  /\ o.msg = None
      /\ f \in Formats(o, m)
      /\ Emit(Chunk(c, f, IF f = 0 THEN m.timestamp ELSE delta, m, data))
      /\ out' = [out EXCEPT ![c] = Sending(m, delta, Len(data))]
      /\ outSize' = IF m.type = SetChunkSize THEN SizeIn(m.payload) ELSE outSize
      /\ sent' = IF m.type = SetChunkSize
                 THEN sent ELSE [sent EXCEPT ![c] = Append(@, m)]

\* A further chunk of the message stream c is in: a type 3 header, no fields.
Continue(c) ==
  LET o == out[c]
      data == Piece(o.msg, o.done, outSize)
  IN  /\ o.msg # None
      /\ Emit(Chunk(c, 3, 0, o.msg, data))
      /\ out' = [out EXCEPT ![c] = Sending(o.msg, o.delta, o.done + Len(data))]
      /\ UNCHANGED <<outSize, sent>>

-----------------------------------------------------------------------------
(***************************************************************************)
(* The endpoint.                                                           *)
(***************************************************************************)

\* Stream memory s after the header of chunk k: each format carries fewer
\* fields.  A type 3 header changes nothing, so a message it begins keeps the
\* timestamp of the message before.
readChunkHeader(s, k) ==
  CASE k.fmt = 0 -> [s EXCEPT !.timestamp = k.stamp, !.delta = 0,
                              !.length = k.length, !.type = k.type,
                              !.streamId = k.streamId,
                              !.partialPayload = <<>>, !.bytesReceived = 0]
    [] k.fmt = 1 -> [s EXCEPT !.timestamp = @ + k.stamp, !.delta = k.stamp,
                              !.length = k.length, !.type = k.type,
                              !.partialPayload = <<>>, !.bytesReceived = 0]
    [] k.fmt = 2 -> [s EXCEPT !.timestamp = @ + k.stamp, !.delta = k.stamp,
                              !.partialPayload = <<>>, !.bytesReceived = 0]
    [] k.fmt = 3 -> s

\* Mutant: a type 1 header keeps the length of the message before.
AfterHeaderOldLength(k) ==
  [readChunkHeader(csState[k.cs], k) EXCEPT
     !.length = IF k.fmt = 1 THEN csState[k.cs].length ELSE @]

AfterHeader(k) == readChunkHeader(csState[k.cs], k)

\* How much the endpoint reads after the header of chunk k.
ToRead(k) == MinOf(AfterHeader(k).length - AfterHeader(k).bytesReceived, inSize)

AfterChunk(k) ==
  [AfterHeader(k) EXCEPT !.partialPayload = @ \o k.data,
                         !.bytesReceived = @ + ToRead(k)]

\* Mutant: > for >=.
CompletesLate(k) == AfterChunk(k).bytesReceived > AfterChunk(k).length

Completes(k) == AfterChunk(k).bytesReceived >= AfterChunk(k).length

\* The message that chunk k completes.
Assembled(k) ==
  LET s == AfterChunk(k)
  IN  [type |-> s.type, streamId |-> s.streamId, timestamp |-> s.timestamp,
       payload |-> s.partialPayload]

\* readMessage is under way and reads exactly the next chunk, k.
Reads(k) ==
  /\ inbox = None /\ sync
  /\ ToRead(k) = Len(k.data)
  /\ wire' = Tail(wire)
  /\ views' = Tail(views)
  /\ UNCHANGED <<out, outSize, sent, sync>>

\* Mutant: the payload of the finished message stays in the accumulator.
ClearedKeepsPayload(k) == [AfterChunk(k) EXCEPT !.bytesReceived = 0]

Cleared(k) == [AfterChunk(k) EXCEPT !.partialPayload = <<>>, !.bytesReceived = 0]

\* readMessage goes on: the message is not complete yet.
ReadPart(k) ==
  /\ Reads(k)
  /\ ~Completes(k)
  /\ csState' = [csState EXCEPT ![k.cs] = AfterChunk(k)]
  /\ UNCHANGED <<inSize, inbox, got>>

\* readMessage takes a new chunk size and goes on.
ReadResize(k) ==
  /\ Reads(k)
  /\ Completes(k)
  /\ AfterChunk(k).type = SetChunkSize /\ AfterChunk(k).length >= 1
  /\ csState' = [csState EXCEPT ![k.cs] = Cleared(k)]
  /\ inSize' = SizeIn(AfterChunk(k).partialPayload)
  /\ UNCHANGED <<inbox, got>>

\* readMessage returns a message.
ReadMessage(k) ==
  /\ Reads(k)
  /\ Completes(k)
  /\ ~(AfterChunk(k).type = SetChunkSize /\ AfterChunk(k).length >= 1)
  /\ csState' = [csState EXCEPT ![k.cs] = Cleared(k)]
  /\ inbox' = Assembled(k)
  /\ got' = [got EXCEPT ![k.cs] = Append(@, Assembled(k))]
  /\ UNCHANGED inSize

\* Stream memory when recv() fails within the header of chunk k: the fields
\* read so far are set, what follows them is not.  A type 3 header is one byte.
CutHeader(k) ==
  LET s == csState[k.cs]
      typed == [s EXCEPT !.length = k.length, !.type = k.type]
  IN  CASE k.fmt = 0 -> {s, [s EXCEPT !.length = k.length], typed,
                         [typed EXCEPT !.streamId = k.streamId]}
        [] k.fmt = 1 -> {s, [s EXCEPT !.length = k.length], typed}
        [] k.fmt = 2 -> {s}
        [] k.fmt = 3 -> {}

\* And when it fails after n units of the payload: the accumulator has grown
\* by the whole chunk and stays so, bytesReceived does not count it.
CutData(k, n) ==
  [AfterHeader(k) EXCEPT
     !.partialPayload = @ \o [i \in 1..ToRead(k) |-> IF i <= n THEN k.data[i] ELSE Garbled]]

\* recv() fails in the middle of a chunk.  The session calls readMessage
\* again, which takes what is left for a header.
Torn ==
  /\ inbox = None /\ sync /\ wire # <<>>
  /\ Head(wire).type \in Tear
  /\ \E s \in CutHeader(Head(wire))
              \cup {CutData(Head(wire), n) : n \in 0..ToRead(Head(wire)) - 1} :
       csState' = [csState EXCEPT ![Head(wire).cs] = s]
  /\ sync' = FALSE
  /\ UNCHANGED <<out, outSize, wire, inSize, inbox, views, sent, got>>

\* It fails before the first byte of a chunk: nothing is lost.
Missed ==
  /\ inbox = None /\ sync /\ wire # <<>>
  /\ Head(wire).type \in Tear
  /\ UNCHANGED chunkVars

\* A misaligned endpoint reads what there is, and may take it for a message.
ReadGarbled ==
  /\ inbox = None /\ wire # <<>>
  /\ ~sync \/ ToRead(Head(wire)) # Len(Head(wire).data)
  /\ sync' = FALSE
  /\ wire' = <<>>
  /\ views' = <<>>
  /\ inbox' \in {None, Garbled}
  /\ UNCHANGED <<out, outSize, csState, inSize, sent, got>>

\* The session is done with the message and calls readMessage again.
Handled == inbox' = None

-----------------------------------------------------------------------------
NewStream == [timestamp |-> 0, delta |-> 0, length |-> 0, type |-> None,
              streamId |-> 0, partialPayload |-> <<>>, bytesReceived |-> 0]

ChunkInit ==
  /\ out = [c \in ChunkStreams |->
              [timestamp |-> 0, delta |-> 0, length |-> 0, type |-> None,
               streamId |-> 0, done |-> 0, msg |-> None]]
  /\ outSize = FirstSize
  /\ wire = <<>>
  /\ csState = [c \in ChunkStreams |-> NewStream]
  /\ inSize = FirstSize
  /\ inbox = None
  /\ sync = TRUE
  /\ views = <<>>
  /\ sent = [c \in ChunkStreams |-> <<>>]
  /\ got = [c \in ChunkStreams |-> <<>>]

Publish == \E c \in ChunkStreams :
             \/ Continue(c)
             \/ \E m \in Message, f \in 0..3 : Begin(c, m, f)

Read == /\ wire # <<>>
        /\ \/ ReadPart(Head(wire)) \/ ReadResize(Head(wire)) \/ ReadMessage(Head(wire))
           \/ ReadGarbled

Handle == /\ inbox # None /\ Handled
          /\ UNCHANGED <<out, outSize, wire, csState, inSize, sync, views, sent, got>>

ChunkNext == Publish \/ Read \/ Torn \/ Missed \/ Handle

ChunkSpec == ChunkInit /\ [][ChunkNext]_chunkVars

-----------------------------------------------------------------------------
(***************************************************************************)
(* Correctness.                                                            *)
(***************************************************************************)

\* A stream that was never misread stays aligned: what readMessage works out
\* for the next chunk, from the header, the bytes it has and _inChunkSize, is
\* what the publisher put into it, however streams and sizes interleave.
Aligned == sync /\ wire # <<>> => ToRead(Head(wire)) = Len(Head(wire).data)

\* Nothing is swallowed: when every chunk sent has been read, the only
\* messages readMessage has not returned are those not fully sent.
Unfinished(c) ==
  IF out[c].msg # None /\ out[c].type # SetChunkSize THEN 1 ELSE 0

Complete ==
  sync /\ wire = <<>> =>
    \A c \in ChunkStreams : Len(sent[c]) = Len(got[c]) + Unfinished(c)

\* RTMPMessage::timestamp is the absolute timestamp of the message: what
\* readMessage returns carries the timestamp the message was sent with.
Stamped ==
  sync => \A c \in ChunkStreams : \A i \in 1..Len(got[c]) :
            got[c][i].timestamp = sent[c][i].timestamp

\* On every chunk stream readMessage returns the messages the publisher sent,
\* in order, each once and whole, as long as no read was torn.
Transport == INSTANCE Channel WITH Stream <- ChunkStreams, Payload <- Message

ImplementsChannel ==
  /\ Transport!Init
  /\ [][Transport!Next \/ ~sync']_<<sent, got>>
=============================================================================
