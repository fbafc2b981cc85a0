-------------------------------- MODULE Amf --------------------------------
(***************************************************************************)
(* The AMF0 codec of librtmp/AMF.cpp.  A buffer is a sequence of units,    *)
(* each one field of the format as <<kind, content>>: a type tag, a double, *)
(* a byte, a string with its length (an empty one ends an object), a 32-bit *)
(* count.  A value, AMFValue, is <<type, content>>.                        *)
(***************************************************************************)
EXTENDS Naturals, Sequences

CONSTANTS Depth,    \* bound on the objects nested in a value
          Values,   \* the values of which the codec's promises are checked
          Spill     \* the strings longer than 65535 bytes, each with what is
                    \* written of it: the bytes that its length modulo 2^16
                    \* covers, and those behind, as a reader takes them

ASSUME DepthAssumption == Depth \in Nat

AmfUnits == ({"tag", "string"} \X STRING) \cup ({"double", "byte", "count"} \X Nat)

ASSUME SpillAssumption ==
  \A str \in DOMAIN Spill : Spill[str][1] \in STRING /\ Spill[str][2] \in Seq(AmfUnits)

\* The strings whose length a length field can hold.
Fits == STRING \ DOMAIN Spill

Null == <<"NULL", 0>>
Scalar == [NUMBER |-> "double", BOOLEAN |-> "byte", STRING |-> "string"]
EndKey == <<"string", "">>
ObjectEnd == <<"tag", "OBJECT_END">>

-----------------------------------------------------------------------------
(***************************************************************************)
(* AMFDecoder.  A reader takes the buffer and a position and gives a value *)
(* and the position after it, or throws.                                   *)
(***************************************************************************)
Throw == [ok |-> FALSE, value |-> Null, next |-> 0]
Got(v, i) == [ok |-> TRUE, value |-> v, next |-> i]

\* The unit at position i is there, and of this kind.
Has(s, i, kind) == i \in 1..Len(s) /\ s[i][1] = kind

\* One element read as v, and the elements read after it as r.
Cons(v, element, r) ==
  IF v.ok /\ r.ok THEN Got(<<element>> \o r.value, r.next) ELSE Throw

Typed(t, r) == IF r.ok THEN Got(<<t, r.value>>, r.next) ELSE Throw

\* The readers call one another: read[<<r, i, n>>] is what reader r gives at
\* position i, with n items left for that of a strict array.
Readers == {"value", "object", "array", "items"}

readValue(s, i, read) ==
  IF ~Has(s, i, "tag") THEN Throw
  ELSE LET t == s[i][2]
       IN  CASE t \in DOMAIN Scalar ->
                  IF Has(s, i + 1, Scalar[t]) THEN Got(<<t, s[i + 1][2]>>, i + 2) ELSE Throw
             [] t = "OBJECT" -> Typed(t, read[<<"object", i + 1, 0>>])
             [] t = "ECMA_ARRAY" ->
                  IF Has(s, i + 1, "count") THEN Typed(t, read[<<"array", i + 2, 0>>]) ELSE Throw
             [] t = "STRICT_ARRAY" ->
                  IF Has(s, i + 1, "count")
                  THEN Typed(t, read[<<"items", i + 2, s[i + 1][2]>>]) ELSE Throw
             [] OTHER -> Got(Null, i + 1)

\* The members of an object, or of an ECMA array (which may stop where the
\* buffer does), up to the end marker.
readMembers(s, i, r, read) ==
  LET v == read[<<"value", i + 1, 0>>]
  IN  IF ~Has(s, i, "string") THEN IF r = "object" \/ i <= Len(s) THEN Throw ELSE Got(<<>>, i)
      ELSE IF s[i] # EndKey
      THEN IF v.ok THEN Cons(v, <<s[i][2], v.value>>, read[<<r, v.next, 0>>]) ELSE Throw
      ELSE IF i = Len(s) THEN IF r = "object" THEN Throw ELSE Got(<<>>, i + 1)
      ELSE IF r = "object" /\ s[i + 1] # ObjectEnd THEN Throw ELSE Got(<<>>, i + 2)

readItems(s, i, n, read) ==
  LET v == read[<<"value", i, 0>>]
  IN  IF n = 0 THEN Got(<<>>, i)
      ELSE IF v.ok THEN Cons(v, v.value, read[<<"items", v.next, n - 1>>]) ELSE Throw

Reading(s, q, read) ==
  CASE q[1] = "value" -> readValue(s, q[2], read)
    [] q[1] \in {"object", "array"} -> readMembers(s, q[2], q[1], read)
    [] q[1] = "items" -> readItems(s, q[2], q[3], read)

decode(s, i) ==
  LET read[q \in Readers \X Nat \X Nat] == Reading(s, q, read)
  IN  read[<<"value", i, 0>>]

-----------------------------------------------------------------------------
(***************************************************************************)
(* AMFEncoder.  writeShortString casts a length to 16 bits and writes all  *)
(* the bytes.                                                              *)
(***************************************************************************)
writeShortString(str) ==
  IF str \in DOMAIN Spill THEN <<<<"string", Spill[str][1]>>>> \o Spill[str][2]
  ELSE <<<<"string", str>>>>

encodeNull == <<<<"tag", "NULL">>>>
encodeScalar(t, x) == <<<<"tag", t>>, <<Scalar[t], x>>>>
encodeNumber(n) == encodeScalar("NUMBER", n)
encodeString(str) == <<<<"tag", "STRING">>>> \o writeShortString(str)
beginObject == <<<<"tag", "OBJECT">>>>
encodeKey(k) == writeShortString(k)
\* Mutant: the empty key without the end marker.
endObjectKeyOnly == <<EndKey>>

endObject == <<EndKey, ObjectEnd>>
encodeECMAArray(n) == <<<<"tag", "ECMA_ARRAY">>, <<"count", n>>>>

SE == INSTANCE SequencesExt
Flatten(ss) == SE!FlattenSeq(ss)

\* The values of which the codec promises anything: strings and keys have a
\* length that 16 bits can hold, a key is not empty, and objects are in objects
\* Depth deep at most.
Scalars == ({"NUMBER"} \X Nat) \cup ({"BOOLEAN"} \X {0, 1}) \cup ({"STRING"} \X Fits)
Arrays == {"ECMA_ARRAY", "STRICT_ARRAY"} \X Seq({Null} \cup Scalars)
Objects(values) == {"OBJECT"} \X Seq((Fits \ {""}) \X values)

Nested[n \in 0..Depth] ==
  LET leaf == {Null} \cup Scalars \cup Arrays
  IN  IF n = 0 THEN leaf ELSE leaf \cup Objects(Nested[n - 1])

encodeMembers(kvs, encode) ==
  Flatten([i \in DOMAIN kvs |-> encodeKey(kvs[i][1]) \o encode[kvs[i][2]]])

\* Arrays come out as null.
Encoding(v, encode) ==
  CASE v[1] = "STRING" -> encodeString(v[2])
    [] v[1] \in {"NUMBER", "BOOLEAN"} -> encodeScalar(v[1], v[2])
    [] v[1] = "OBJECT" -> beginObject \o encodeMembers(v[2], encode) \o endObject
    [] OTHER -> encodeNull

encodeValue[v \in Nested[Depth]] == Encoding(v, encodeValue)

-----------------------------------------------------------------------------
(***************************************************************************)
(* What the codec promises of a value v behind what buffer p holds: what   *)
(* is encoded is read back, the whole of it and nothing more, an array     *)
(* having become null; a value cut short throws; an ECMA array cut after a *)
(* member (which no exception reports) gives the members before the cut.   *)
(* A string too long for its length field is read, without an exception,   *)
(* as its first bytes, and the reader stops before the others.             *)
(***************************************************************************)
FlattenedMembers(kvs, flattened) ==
  [i \in DOMAIN kvs |-> <<kvs[i][1], flattened[kvs[i][2]]>>]

Flattening(v, flattened) ==
  CASE v[1] = "OBJECT" -> <<v[1], FlattenedMembers(v[2], flattened)>>
    [] v[1] \in {"ECMA_ARRAY", "STRICT_ARRAY"} -> Null
    [] OTHER -> v

Flattened[v \in Nested[Depth]] == Flattening(v, Flattened)

ASSUME ValuesAssumption == Values \subseteq Nested[Depth]

ReadsBack(p, v) ==
  LET s == p \o encodeValue[v]
  IN  decode(s, Len(p) + 1) = Got(Flattened[v], Len(s) + 1)

CutThrows(p, v) ==
  LET s == p \o encodeValue[v]
  IN  \A n \in Len(p)..Len(s) - 1 : ~decode(SubSeq(s, 1, n), Len(p) + 1).ok

CutArray(p, kvs) ==
  \A n \in 0..Len(kvs) :
    LET kept == SubSeq(kvs, 1, n)
        s == p \o encodeECMAArray(Len(kvs)) \o encodeMembers(kept, encodeValue)
    IN  decode(s, Len(p) + 1) = Got(<<"ECMA_ARRAY", FlattenedMembers(kept, Flattened)>>, Len(s) + 1)

LongIsCut(p, str) ==
  LET s == p \o encodeString(str)
  IN  decode(s, Len(p) + 1) = Got(<<"STRING", Spill[str][1]>>, Len(p) + 3)

Promised(p) ==
  /\ \A v \in Values :
       /\ ReadsBack(p, v)
       /\ CutThrows(p, v)
       /\ v[1] = "OBJECT" => CutArray(p, v[2])
  /\ \A str \in DOMAIN Spill : LongIsCut(p, str)
=============================================================================
