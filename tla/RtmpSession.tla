---------------------------- MODULE RtmpSession ----------------------------
(***************************************************************************)
(* One publisher's session: the handshake of librtmp/RTMPEndpoint.cpp and  *)
(* RTMPServerSession of librtmp/RTMPServerSession.cpp over the chunk layer. *)
(* The publisher (external) behaves as an RTMP encoder does: it asks for   *)
(* one thing after another, waits for the answers it needs, and streams    *)
(* video, audio and metadata once told it may.  GetRTMPMessage handles the *)
(* messages and returns the video frames.                                  *)
(***************************************************************************)
EXTENDS ChunkStream, Amf

CONSTANTS
  OutSize,      \* DEFAULT_OUT_CHUNK_SIZE
  ClientSize,   \* the chunk size a client reads with until told another
  Commands,     \* the commands the publisher sends, in order
  Pictures,     \* the parameter sets and frames it sends, in order
  Others,       \* the messages it sends beside them, in order
  Sizes,        \* the chunk sizes it may announce
  Resizes,      \* bound on its announcements
  Retries       \* failures of GetRTMPMessage in a row that end the session

VARIABLES
  phase,        \* where the server is: "C0", "C2", "open", "closed"
  hello,        \* the publisher's handshake: "C1", "C2", or another version
  down,         \* messages from the server that the publisher has not read
  clientSize,   \* the chunk size the publisher reads with
  heard,        \* what the publisher has read
  asked,        \* the commands it has begun to send
  sentVideo, sentOther, resized,  \* how much of the rest it has begun
  publishing,   \* _publishing
  frames,       \* the frames GetRTMPMessage returned
  errCount      \* failures of GetRTMPMessage since the last frame

serverVars == <<phase, publishing, frames, errCount>>
clientVars == <<hello, clientSize, heard, asked, sentVideo, sentOther, resized>>
sessionVars == <<serverVars, clientVars, down>>

ControlStream == 2
CommandStream == 3
VideoStream == 4
OtherStream == 6

-----------------------------------------------------------------------------
(***************************************************************************)
(* What the server writes.  A message is cut at OutSize from the start; the *)
(* client puts it together again if it reads with the same size, or the    *)
(* message is one chunk for both.                                          *)
(***************************************************************************)
message(type, payload) == [type |-> type, payload |-> payload, cut |-> OutSize]

sendMessage(ms) == down' = down \o ms

sendControl(type, x) == <<message(type, <<<<"size", x>>>>)>>
sendUserControl(stream) == sendControl("USER_CONTROL", stream)
sendCommand(payload) == <<message("COMMAND_AMF0", payload)>>

\* The strings and keys of its answers.
Texts ==
  {"_result", "onStatus", "fmsVer", "FMS/3,5,3,824", "capabilities", "mode", "level", "status",
   "code", "NetConnection.Connect.Success", "description", "Connection succeeded.", "data",
   "version", "3,5,3,824", "clientid", "objectEncoding", "NetStream.Publish.Start", "Publishing."}

Member(k, value) == encodeKey(k) \o value

sendConnectResult(tx) == sendCommand(
  encodeString("_result") \o encodeNumber(tx)
  \o beginObject
  \o Member("fmsVer", encodeString("FMS/3,5,3,824"))
  \o Member("capabilities", encodeNumber(31)) \o Member("mode", encodeNumber(1))
  \o endObject
  \o beginObject
  \o Member("level", encodeString("status"))
  \o Member("code", encodeString("NetConnection.Connect.Success"))
  \o Member("description", encodeString("Connection succeeded."))
  \o Member("data", beginObject \o Member("version", encodeString("3,5,3,824")) \o endObject)
  \o Member("clientid", encodeNumber(1)) \o Member("objectEncoding", encodeNumber(0))
  \o endObject)

sendCreateStreamResult(tx) == sendCommand(
  encodeString("_result") \o encodeNumber(tx) \o encodeNull \o encodeNumber(1))

sendPublishStart == sendCommand(
  encodeString("onStatus") \o encodeNumber(0) \o encodeNull
  \o beginObject
  \o Member("level", encodeString("status"))
  \o Member("code", encodeString("NetStream.Publish.Start"))
  \o Member("description", encodeString("Publishing."))
  \o endObject)

sendEmptyResult(tx) == sendCommand(
  encodeString("_result") \o encodeNumber(tx) \o encodeNull \o encodeNull)

-----------------------------------------------------------------------------
(***************************************************************************)
(* The handshake and the constructor.                                      *)
(***************************************************************************)
HandshakeC1 ==
  /\ phase = "C0" /\ hello = "C1"
  /\ phase' = "C2"
  /\ sendMessage(<<message("S012", <<>>)>>)
  /\ UNCHANGED <<chunkVars, clientVars, publishing, frames, errCount>>

HandshakeRefused ==
  /\ phase = "C0" /\ hello = "other version"
  /\ phase' = "closed"
  /\ UNCHANGED <<chunkVars, clientVars, publishing, frames, errCount, down>>

\* Mutant: the chunk size is not announced.
OpenUnannounced ==
  /\ phase = "C2" /\ hello = "C2"
  /\ phase' = "open"
  /\ sendMessage(sendControl("WINDOW_ACK_SIZE", 2500000)
                 \o sendControl("SET_PEER_BANDWIDTH", 2500000))
  /\ UNCHANGED <<chunkVars, clientVars, publishing, frames, errCount>>

\* Mutant: the window is announced for the chunk size.
OpenWrongSize ==
  /\ phase = "C2" /\ hello = "C2"
  /\ phase' = "open"
  /\ sendMessage(sendControl(SetChunkSize, 2500000))
  /\ UNCHANGED <<chunkVars, clientVars, publishing, frames, errCount>>

\* C2 has come: RTMPServerSession announces the window, the bandwidth and the
\* size its messages are cut at.
Open ==
  /\ phase = "C2" /\ hello = "C2"
  /\ phase' = "open"
  /\ sendMessage(sendControl("WINDOW_ACK_SIZE", 2500000)
                 \o sendControl("SET_PEER_BANDWIDTH", 2500000)
                 \o sendControl(SetChunkSize, OutSize))
  /\ UNCHANGED <<chunkVars, clientVars, publishing, frames, errCount>>

-----------------------------------------------------------------------------
(***************************************************************************)
(* GetRTMPMessage.                                                         *)
(***************************************************************************)
ReadMessages ==
  /\ phase = "open"
  /\ Read
  /\ UNCHANGED sessionVars

\* GetRTMPMessage throws; the accept loop calls it again, a limited number of
\* times in a row.
Fail ==
  /\ errCount' = errCount + 1
  /\ phase' = IF errCount' > Retries THEN "closed" ELSE phase
  /\ UNCHANGED <<publishing, frames, down>>

\* recv() failed.
ReadFails ==
  /\ phase = "open"
  /\ Torn \/ Missed
  /\ Fail
  /\ UNCHANGED clientVars

\* The loop has the next message, of one of these types, and handles it.
Dispatch(types) ==
  /\ phase = "open"
  /\ inbox # None /\ inbox # Garbled
  /\ inbox.type \in types
  /\ Handled
  /\ UNCHANGED <<out, outSize, wire, csState, inSize, sync, views, sent, got, clientVars>>

AmfTypes == {"COMMAND_AMF0", "DATA_AMF0"}

\* The name of a command, its transaction id, and whether either fails to
\* decode.
Name(p) == decode(p, 1)
TxValue(p) == decode(p, Name(p).next)
HasTx(p) == Name(p).next <= Len(p)
Fails(p) == ~Name(p).ok \/ (Name(p).value[1] = "STRING" /\ HasTx(p) /\ ~TxValue(p).ok)
TxId(p) == IF HasTx(p) /\ TxValue(p).value[1] = "NUMBER" THEN TxValue(p).value[2] ELSE 0
Command(p) == IF Name(p).value[1] = "STRING" THEN Name(p).value[2] ELSE ""

\* These commands ask for an answer unless their transaction id is 0.
Requests == {"FCPublish", "releaseStream", "deleteStream"}
Answered == {"connect", "createStream", "publish"} \cup Requests

\* Mutant: createStream is not answered.
AnswerWithoutStream(cmd, tx) ==
  CASE cmd = "connect" -> sendConnectResult(tx) \o sendUserControl(0)
    [] cmd = "publish" -> sendUserControl(1) \o sendPublishStart
    [] OTHER -> <<>>

\* What handleAMF writes in answer to command cmd.
Answer(cmd, tx) ==
  CASE cmd = "connect" -> sendConnectResult(tx) \o sendUserControl(0)
    [] cmd = "createStream" -> sendCreateStreamResult(tx)
    [] cmd = "publish" -> sendUserControl(1) \o sendPublishStart
    [] cmd \in Requests /\ tx > 0 -> sendEmptyResult(tx)
    [] OTHER -> <<>>

handleAMF ==
  /\ Dispatch(AmfTypes)
  /\ inbox.payload # <<>>
  /\ ~Fails(inbox.payload)
  /\ sendMessage(Answer(Command(inbox.payload), TxId(inbox.payload)))
  /\ publishing' = (publishing \/ Command(inbox.payload) = "publish")
  /\ UNCHANGED <<phase, frames, errCount>>

\* The decoder throws out of GetRTMPMessage.
AMFFails ==
  /\ Dispatch(AmfTypes)
  /\ inbox.payload # <<>>
  /\ Fails(inbox.payload)
  /\ Fail

\* One turn of the loops over the parameter sets: from where the last one
\* ended, the next one, which overrides it.
SetTurn(p, l) ==
  LET len == p[l.at][2]
  IN  IF ~l.ok \/ l.at > Len(p) THEN l
      ELSE IF l.at + len > Len(p) THEN [l EXCEPT !.ok = FALSE]
      ELSE [ok |-> TRUE, at |-> l.at + 1 + len, set |-> SubSeq(p, l.at + 1, l.at + len)]

\* n parameter sets from position i on.
Sets(p, i, n) ==
  LET turn[k \in 0..n] ==
        IF k = 0 THEN [ok |-> TRUE, at |-> i, set |-> <<>>] ELSE SetTurn(p, turn[k - 1])
  IN  turn[n]

\* Mutant: an empty NAL unit ends the loop.
NaluTurnToEmpty(p, l) ==
  LET len == p[l.at][2]
  IN  IF l.at > Len(p) THEN l
      ELSE IF len = 0 \/ l.at + len > Len(p) THEN [l EXCEPT !.at = Len(p) + 1]
      ELSE [at |-> l.at + 1 + len, kept |-> l.kept \o SubSeq(p, l.at, l.at + len)]

\* One turn of the loop over the NAL units: it keeps the next one with its
\* length, passes over an empty one, and ends at one cut short.
NaluTurn(p, l) ==
  LET len == p[l.at][2]
  IN  IF l.at > Len(p) THEN l
      ELSE IF len = 0 THEN [l EXCEPT !.at = @ + 1]
      ELSE IF l.at + len > Len(p) THEN [l EXCEPT !.at = Len(p) + 1]
      ELSE [at |-> l.at + 1 + len, kept |-> l.kept \o SubSeq(p, l.at, l.at + len)]

\* The NAL units from position i on; there are no more than p has units.
Nalus(p, i) ==
  LET turn[k \in 0..Len(p)] ==
        IF k = 0 THEN [at |-> i, kept |-> <<>>] ELSE NaluTurn(p, turn[k - 1])
  IN  turn[Len(p)].kept

\* The frame of a video message, as a sequence of at most one.  Unit 1 holds
\* the codec and the packet type, unit 2 of a sequence header the AVC version
\* and profile.
Frame(p, timestamp) ==
  LET sps == Sets(p, 4, p[3][2])
      pps == Sets(p, sps.at + 1, p[sps.at][2])
      nalu == Nalus(p, 2)
  IN  IF p = <<>> \/ p[1][1] # "avc" THEN <<>>
      ELSE CASE p[1][2] = "header" ->
                  IF Len(p) < 3 \/ ~sps.ok \/ sps.at > Len(p) \/ ~pps.ok THEN <<>>
                  ELSE <<[timestamp |-> timestamp, sps |-> sps.set, pps |-> pps.set, nalu |-> <<>>]>>
             [] p[1][2] = "nalu" ->
                  IF nalu = <<>> THEN <<>>
                  ELSE <<[timestamp |-> timestamp, sps |-> <<>>, pps |-> <<>>, nalu |-> nalu]>>
             [] OTHER -> <<>>

\* GetRTMPMessage returns the frame, or goes on when the message has none.
handleVideo ==
  /\ Dispatch({"VIDEO"})
  /\ LET f == Frame(inbox.payload, inbox.timestamp)
     IN  /\ frames' = frames \o f
         /\ errCount' = IF f = <<>> THEN errCount ELSE 0
  /\ UNCHANGED <<phase, publishing, down>>

\* Audio, control messages, what the session does not know and empty commands
\* are dropped.
Drop ==
  /\ Dispatch(Types \ {"VIDEO"})
  /\ inbox.type \in AmfTypes => inbox.payload = <<>>
  /\ UNCHANGED <<serverVars, down>>

\* What a misaligned endpoint returns may be dropped, fail to decode, or come
\* out as a frame (of which the first is remembered).
HandleGarbled ==
  /\ phase = "open" /\ inbox = Garbled
  /\ Handled
  /\ UNCHANGED <<out, outSize, wire, csState, inSize, sync, views, sent, got, clientVars>>
  /\ \/ UNCHANGED <<serverVars, down>>
     \/ Fail
     \/ /\ frames' = IF Garbled \in {frames[i] : i \in DOMAIN frames}
                     THEN frames ELSE Append(frames, Garbled)
        /\ errCount' = 0
        /\ UNCHANGED <<phase, publishing, down>>

-----------------------------------------------------------------------------
(***************************************************************************)
(* The publisher (external).                                               *)
(***************************************************************************)
Msg(type, stream, timestamp, payload) ==
  [type |-> type, streamId |-> stream, timestamp |-> timestamp, payload |-> payload]

\* A command [name, tx, args] as a message.
CommandMessage(c) ==
  Msg("COMMAND_AMF0", 0, 0, encodeString(c.name) \o encodeNumber(c.tx) \o c.args)

\* Units preceded by their number.
Counted(u) == <<<<"len", Len(u)>>>> \o u
All(us) == Flatten([i \in DOMAIN us |-> Counted(us[i])])

\* A picture [timestamp, sps, pps, nals] as a message: a sequence header when
\* it has parameter sets, else a frame of NAL units.
IsHeader(v) == v.sps # <<>> \/ v.pps # <<>>

VideoMessage(v) ==
  Msg("VIDEO", 1, v.timestamp,
      IF IsHeader(v)
      THEN <<<<"avc", "header">>, <<"cfg", 1>>, <<"n", Len(v.sps)>>>> \o All(v.sps)
           \o <<<<"n", Len(v.pps)>>>> \o All(v.pps)
      ELSE <<<<"avc", "nalu">>>> \o All(v.nals))

ASSUME SessionAssumption ==
  /\ OutSize \in Positive /\ ClientSize \in Positive
  /\ Resizes \in Nat /\ Retries \in Nat
  /\ {ControlStream, CommandStream, VideoStream, OtherStream} \subseteq ChunkStreams
  /\ SetChunkSize \notin AmfTypes \cup {"VIDEO", "WINDOW_ACK_SIZE", "SET_PEER_BANDWIDTH",
                                      "USER_CONTROL", "S012"}
  /\ Garbled \notin Records \cup {None}
  /\ \A u \in Units : u[1] = "count" => u[2] \in Nat
  /\ Texts \subseteq Fits

\* What an encoder sends: commands, pictures, chunk sizes, and beside them
\* neither commands nor video, nor data that is named like a command.
ASSUME PublisherAssumption ==
  /\ Commands \in Seq([name : Fits, tx : Nat, args : Seq(Units)])
  /\ Pictures \in Seq([timestamp : Nat, sps : Seq(Seq(Units)), pps : Seq(Seq(Units)),
                       nals : Seq(Seq(Units))])
  /\ \A i \in DOMAIN Commands : CommandMessage(Commands[i]) \in Message
  /\ \A i \in DOMAIN Pictures : VideoMessage(Pictures[i]) \in Message
  /\ Others \in Seq(Message)
  /\ \A i \in DOMAIN Others :
       LET o == Others[i]
       IN  /\ o.type \notin {"COMMAND_AMF0", "VIDEO", SetChunkSize}
           /\ o.type = "DATA_AMF0" => Command(o.payload) \notin Answered
  /\ Sizes \subseteq Message
  /\ \A m \in Sizes : m.type = SetChunkSize

Heard(name, tx) == \E i \in DOMAIN heard : heard[i] = <<name, tx>>

\* A publisher waits for what its next command builds upon.
MaySend(c) ==
  CASE c.name = "connect" -> TRUE
    [] c.name = "publish" -> \E d \in {Commands[i] : i \in 1..asked} :
                               d.name = "createStream" /\ Heard("_result", d.tx)
    [] OTHER -> \E d \in {Commands[i] : i \in 1..asked} :
                  d.name = "connect" /\ Heard("_result", d.tx)

ClientHello ==
  /\ down # <<>> /\ Head(down).type = "S012"
  /\ hello' = "C2"
  /\ down' = Tail(down)
  /\ UNCHANGED <<chunkVars, serverVars, clientSize, heard, asked, sentVideo, sentOther, resized>>

\* How the publisher reads a message: whole, or cut where it was not.
Whole(r) == MinOf(Len(r.payload), r.cut) = MinOf(Len(r.payload), clientSize)

Understood(r) ==
  IF ~Whole(r) THEN <<Garbled>>
  ELSE IF r.type # "COMMAND_AMF0" THEN <<>>
  ELSE <<<<Name(r.payload).value[2], TxValue(r.payload).value[2]>>>>

ClientRead ==
  /\ hello = "C2" /\ down # <<>>
  /\ down' = Tail(down)
  /\ clientSize' = IF Head(down).type = SetChunkSize
                   THEN SizeIn(Head(down).payload) ELSE clientSize
  /\ heard' = heard \o Understood(Head(down))
  /\ UNCHANGED <<chunkVars, serverVars, hello, asked, sentVideo, sentOther, resized>>

SendCommand ==
  /\ hello = "C2" /\ asked < Len(Commands)
  /\ MaySend(Commands[asked + 1])
  /\ \E f \in 0..3 : Begin(CommandStream, CommandMessage(Commands[asked + 1]), f)
  /\ asked' = asked + 1
  /\ UNCHANGED <<serverVars, down, hello, clientSize, heard, sentVideo, sentOther, resized>>

Publishing == Heard("onStatus", 0)

SendVideo ==
  /\ Publishing /\ sentVideo < Len(Pictures)
  /\ \E f \in 0..3 : Begin(VideoStream, VideoMessage(Pictures[sentVideo + 1]), f)
  /\ sentVideo' = sentVideo + 1
  /\ UNCHANGED <<serverVars, down, hello, clientSize, heard, asked, sentOther, resized>>

SendOther ==
  /\ Publishing /\ sentOther < Len(Others)
  /\ \E f \in 0..3 : Begin(OtherStream, Others[sentOther + 1], f)
  /\ sentOther' = sentOther + 1
  /\ UNCHANGED <<serverVars, down, hello, clientSize, heard, asked, sentVideo, resized>>

Announce ==
  /\ hello = "C2" /\ resized < Resizes
  /\ \E m \in Sizes : Begin(ControlStream, m, 0)
  /\ resized' = resized + 1
  /\ UNCHANGED <<serverVars, down, hello, clientSize, heard, asked, sentVideo, sentOther>>

SendRest(c) ==
  /\ Continue(c)
  /\ UNCHANGED sessionVars

-----------------------------------------------------------------------------
Init ==
  /\ ChunkInit
  /\ phase = "C0"
  /\ hello \in {"C1", "other version"}
  /\ down = <<>>
  /\ clientSize = ClientSize
  /\ heard = <<>>
  /\ asked = 0
  /\ sentVideo = 0 /\ sentOther = 0 /\ resized = 0
  /\ publishing = FALSE
  /\ frames = <<>>
  /\ errCount = 0

Server == \/ HandshakeC1 \/ HandshakeRefused \/ Open
          \/ ReadMessages \/ ReadFails
          \/ handleAMF \/ AMFFails \/ handleVideo \/ Drop \/ HandleGarbled

Client == ClientHello \/ ClientRead \/ SendCommand \/ SendVideo \/ SendOther \/ Announce

Next == Server \/ Client \/ \E c \in ChunkStreams : SendRest(c)

vars == <<chunkVars, sessionVars>>

\* Neither end rests while it has something to do: the session thread blocks
\* only in recv(), the publisher only when the connection takes no more.
Spec == Init /\ [][Next]_vars /\ WF_vars(Next)

-----------------------------------------------------------------------------
(***************************************************************************)
(* Correctness.                                                            *)
(***************************************************************************)

TypeOK ==
  /\ phase \in {"C0", "C2", "open", "closed"}
  /\ hello \in {"C1", "C2", "other version"}
  /\ clientSize \in {ClientSize, OutSize}
  /\ asked \in 0..Len(Commands)
  /\ sentVideo \in 0..Len(Pictures) /\ sentOther \in 0..Len(Others)
  /\ resized \in 0..Resizes
  /\ publishing \in BOOLEAN
  /\ errCount \in 0..Retries + 1

\* What a publisher must hear back for a command it sent.
Reply(c) ==
  CASE c.name = "publish" -> <<<<"onStatus", 0>>>>
    [] c.name \in {"connect", "createStream"} \/ (c.name \in Requests /\ c.tx > 0) ->
         <<<<"_result", c.tx>>>>
    [] OTHER -> <<>>

\* Every command is answered once, in the order of the commands, under its own
\* transaction id, and every answer is one the publisher can put together: the
\* constructor announces the chunk size before any answer is cut by it.
AnswersInOrder ==
  LET due == Flatten([i \in 1..asked |-> Reply(Commands[i])])
  IN  sync => /\ Len(heard) <= Len(due)
              /\ heard = SubSeq(due, 1, Len(heard))

\* The frame a picture must come out as: the last of each kind of parameter
\* set, or the NAL units that are not empty.
LastOf(s) == IF s = <<>> THEN <<>> ELSE s[Len(s)]

Picture(v) ==
  LET kept == Flatten([i \in DOMAIN v.nals |->
                        IF v.nals[i] = <<>> THEN <<>> ELSE Counted(v.nals[i])])
  IN  IF IsHeader(v)
      THEN <<[timestamp |-> v.timestamp, sps |-> LastOf(v.sps), pps |-> LastOf(v.pps), nalu |-> <<>>]>>
      ELSE IF kept = <<>> THEN <<>>
      ELSE <<[timestamp |-> v.timestamp, sps |-> <<>>, pps |-> <<>>, nalu |-> kept]>>

\* GetRTMPMessage returns the frames of exactly the pictures received so far,
\* complete and in order, with their timestamps, whatever is interleaved.
FramesInOrder ==
  LET pending == IF inbox \in {None, Garbled} THEN 0 ELSE IF inbox.type = "VIDEO" THEN 1 ELSE 0
      n == Len(got[VideoStream]) - pending
  IN  sync => frames = Flatten([i \in 1..n |-> Picture(Pictures[i])])

\* The decoder reads each value of a message at the place where the one before
\* it ended: behind a message it is to handle, a value of any depth is read
\* back, and missed when it is cut short.  Its strings and keys must fit the
\* 16-bit length; a longer one is read as its first bytes (see Amf).
CodecFaithful ==
  inbox \notin {None, Garbled} /\ inbox.type \in AmfTypes => Promised(inbox.payload)

\* A publisher that asks gets to publish, and all its pictures come out,
\* unless the connection was misread or the decoder failed too often in a row.
Publishes ==
  hello = "C1" ~> \/ frames = Flatten([i \in DOMAIN Pictures |-> Picture(Pictures[i])])
                  \/ ~sync
                  \/ phase = "closed"
=============================================================================
