--------------------------- MODULE MCRtmpSession ---------------------------
(* One publisher in small: the commands of an OBS connection, a sequence    *)
(* header and three frames, audio and metadata beside them.                 *)
EXTENDS RtmpSession

Command1(name, tx, args) == [name |-> name, tx |-> tx, args |-> args]

TheCommands ==
  <<Command1("connect", 1, <<>>), Command1("releaseStream", 2, encodeNull),
    Command1("createStream", 3, encodeNull), Command1("publish", 4, encodeNull)>>

Nal(x) == <<"nal", x>>

ThePictures ==
  <<[timestamp |-> 0, sps |-> <<<<Nal(1)>>, <<Nal(2)>>>>, pps |-> <<<<Nal(3)>>>>, nals |-> <<>>],
    [timestamp |-> 0, sps |-> <<>>, pps |-> <<>>, nals |-> <<<<Nal(4), Nal(5)>>, <<>>, <<Nal(6)>>>>],
    [timestamp |-> 2, sps |-> <<>>, pps |-> <<>>, nals |-> <<<<Nal(7)>>>>],
    [timestamp |-> 4, sps |-> <<>>, pps |-> <<>>, nals |-> <<<<Nal(8)>>>>]>>

\* Metadata cut short, and audio.
TheOthers ==
  <<Msg("DATA_AMF0", 1, 0, encodeString("onMetaData") \o encodeECMAArray(1) \o encodeKey("encoder")
                           \o beginObject),
    Msg("AUDIO", 1, 1, <<<<"aac", 1>>>>)>>

SizeMessage(n) == Msg(SetChunkSize, 0, 0, <<<<"size", n>>>>)
TheSizes == {SizeMessage(2), SizeMessage(9)}

AllMessages ==
  {CommandMessage(TheCommands[i]) : i \in DOMAIN TheCommands}
  \cup {VideoMessage(ThePictures[i]) : i \in DOMAIN ThePictures}
  \cup {TheOthers[i] : i \in DOMAIN TheOthers}
  \cup TheSizes

AllUnits == UNION {{m.payload[i] : i \in DOMAIN m.payload} : m \in AllMessages}
AllTypes == {m.type : m \in AllMessages}

\* What a publisher goes on to send over a misread connection is not explored.
MisreadEnds == ~sync => UNCHANGED out

TheValues ==
  LET leaf == {Null, <<"NUMBER", 1>>, <<"STRING", "a">>, <<"BOOLEAN", 1>>, <<"STRICT_ARRAY", <<Null>>>>}
      Of(vs) == {<<"OBJECT", kvs>> : kvs \in {<<>>} \cup {<<<<"k", v>>>> : v \in vs}
                                             \cup {<<<<"k", v>>, <<"l", Null>>>> : v \in vs}}
  IN  leaf \cup Of(leaf) \cup Of(Of(leaf))

\* Two strings too long: one of 65536 bytes, whose length is written as 0, and
\* one that is read as "a", a number behind it.
TheSpill ==
  [str \in {"long", "longer"} |->
     IF str = "long" THEN <<"", <<<<"byte", 0>>>>>> ELSE <<"a", <<<<"tag", "NUMBER">>, <<"double", 1>>>>>>]
=============================================================================
