-------------------------- MODULE IpcBridge_proofs --------------------------
(***************************************************************************)
(* Proofs about IpcBridge.  The half words of a connection that are in its *)
(* buffer or under way are those of the packets written and not handled,   *)
(* one packet after the other.  This is said with the places where the     *)
(* packets end, not by building the bytes up: the invariant is then kept   *)
(* without induction over the packets.                                     *)
(***************************************************************************)
EXTENDS IpcBridge, SequenceTheorems, Induction, TLAPS

Bits == Packets \X Nat

BridgeTypeOK ==
  /\ TypeOK
  /\ link # None => link \in 1..made
  /\ up \in [Conns -> Seq(Bits)]
  /\ mapTable \in [DOMAIN mapTable -> Seq(Bits)]
  /\ sent \in [Conns -> Seq(Packets)] /\ got \in [Conns -> Seq(Packets)]
  /\ \A c \in Conns : c > made => sent[c] = <<>> /\ got[c] = <<>> /\ up[c] = <<>>

\* at says where in b the packets of s after the first n end.
Ends(s, n, b, at) ==
  /\ at \in [n..Len(s) -> 0..Len(b)]
  /\ at[n] = 0 /\ at[Len(s)] = Len(b)
  /\ \A i, j \in n..Len(s) : i <= j => at[i] <= at[j]
  /\ \A i \in n + 1..Len(s) :
       /\ at[i] = at[i - 1] + s[i].size
       /\ \A k \in 1..s[i].size : b[at[i - 1] + k] = <<s[i], k>>

\* The half words b are the packets of s after the first n.
Framed(s, n, b) == n \in 0..Len(s) /\ \E at : Ends(s, n, b, at)

Pending(c) == Buffer(c) \o up[c]

FramedAll == \A c \in Conns \ cut : Framed(sent[c], Len(got[c]), Pending(c))

IInv == BridgeTypeOK /\ FramedAll

-----------------------------------------------------------------------------
(***************************************************************************)
(* Framing.                                                                *)
(***************************************************************************)

\* Only what the half words are counts.
LEMMA FramedSame ==
  ASSUME NEW s, NEW n, NEW b \in Seq(Bits), NEW d \in Seq(Bits), Framed(s, n, b),
         Len(d) = Len(b), \A i \in 1..Len(b) : d[i] = b[i]
  PROVE  Framed(s, n, d)
BY SeqEqual

\* What BridgeAssumption says of one packet.
LEMMA PacketType ==
  ASSUME NEW m \in Packets
  PROVE  m.code \in Nat /\ m.size \in Nat /\ m.size >= 1 /\ m.size >= Code
<1>1. m \in [code : Nat, size : Nat, ok : BOOLEAN] /\ m.size >= Code
  BY BridgeAssumption
<1>2. m.code \in Nat /\ m.size \in Nat
  BY <1>1
<1> QED
  BY <1>1, <1>2 DEF Code

\* at is a witness.
LEMMA FramedBy ==
  ASSUME NEW s, NEW n, NEW b, NEW at, Ends(s, n, b, at), n \in 0..Len(s)
  PROVE  Framed(s, n, b)
BY Zenon DEF Framed

\* Nothing is pending at first.
LEMMA FramedEmpty == Framed(<<>>, 0, <<>>)
<1> DEFINE at == [i \in 0..0 |-> 0]
<1>1. Len(<<>>) = 0
  OBVIOUS
<1>2. at \in [0..0 -> 0..0] /\ at[0] = 0 /\ (\A i, j \in 0..0 : i <= j => at[i] <= at[j])
  OBVIOUS
<1>3. 0 + 1..0 = {}
  OBVIOUS
<1> HIDE DEF at
<1>4. Ends(<<>>, 0, <<>>, at)
  BY <1>1, <1>2, <1>3, Zenon DEF Ends
<1>5. 0 \in 0..Len(<<>>)
  BY <1>1
<1> QED
  BY <1>4, <1>5, FramedBy

\* A packet written is framed behind the others.
LEMMA FramedWrite ==
  ASSUME NEW s \in Seq(Packets), NEW n \in Nat, NEW b \in Seq(Bits), NEW m \in Packets,
         NEW d \in Seq(Bits), Framed(s, n, b),
         Len(d) = Len(b) + m.size,
         \A i \in 1..Len(b) : d[i] = b[i],
         \A k \in 1..m.size : d[Len(b) + k] = <<m, k>>
  PROVE  Framed(Append(s, m), n, d)
<1> DEFINE t == Append(s, m)
           l == Len(s)
<1>1. PICK at : Ends(s, n, b, at)
  BY DEF Framed
<1>2. /\ n \in 0..l /\ l \in Nat /\ Len(b) \in Nat /\ m.size \in Nat
      /\ \A i \in 1..l : s[i] \in Packets /\ s[i].size \in Nat
      /\ Len(d) \in Nat /\ Len(d) = Len(b) + m.size
  <2>1. n \in 0..l /\ l \in Nat /\ Len(b) \in Nat /\ Len(d) \in Nat
    BY DEF Framed
  <2>2. m.size \in Nat
    BY PacketType
  <2>3. \A i \in 1..l : s[i] \in Packets /\ s[i].size \in Nat
    BY PacketType, ElementOfSeq
  <2> QED
    BY <2>1, <2>2, <2>3
<1>3. Len(t) = l + 1 /\ t[l + 1] = m /\ \A i \in 1..l : t[i] = s[i]
  BY <1>2
<1> DEFINE to == [i \in n..Len(t) |-> IF i = l + 1 THEN Len(d) ELSE at[i]]
<1>4. /\ at \in [n..l -> 0..Len(b)]
      /\ at[n] = 0 /\ at[l] = Len(b)
      /\ \A i, j \in n..l : i <= j => at[i] <= at[j]
      /\ \A i \in n + 1..l :
           /\ at[i] = at[i - 1] + s[i].size
           /\ \A k \in 1..s[i].size : b[at[i - 1] + k] = <<s[i], k>>
  BY <1>1 DEF Ends
<1>5. to \in [n..Len(t) -> 0..Len(d)]
  BY <1>2, <1>3, <1>4
<1>6. \A i \in n..l : to[i] = at[i] /\ at[i] \in 0..Len(b)
  <2> SUFFICES ASSUME NEW i \in n..l PROVE to[i] = at[i] /\ at[i] \in 0..Len(b)
    OBVIOUS
  <2>1. i \in n..Len(t) /\ i # l + 1
    BY <1>2, <1>3
  <2> QED
    BY <1>4, <2>1
<1>7. to[l + 1] = Len(d)
  BY <1>2, <1>3
<1>8. to[n] = 0 /\ to[Len(t)] = Len(d)
  BY <1>2, <1>3, <1>4, <1>6, <1>7
<1> HIDE DEF to, t, l
<1>9. \A i, j \in n..Len(t) : i <= j => to[i] <= to[j]
  <2> SUFFICES ASSUME NEW i \in n..l + 1, NEW j \in n..l + 1, i <= j PROVE to[i] <= to[j]
    BY <1>3
  <2>1. CASE j = l + 1
    <3>1. to[j] = Len(d)
      BY <1>7, <2>1
    <3>2. CASE i = j
      BY <1>2, <3>1, <3>2
    <3>3. CASE i # j
      <4>1. i \in n..l
        BY <1>2, <2>1, <3>3
      <4>2. to[i] = at[i] /\ at[i] \in 0..Len(b)
        BY <1>6, <4>1
      <4> QED
        BY <1>2, <3>1, <4>2
    <3> QED
      BY <3>2, <3>3
  <2>2. CASE j # l + 1
    <3>1. i \in n..l /\ j \in n..l
      BY <1>2, <2>2
    <3> QED
      BY <1>4, <1>6, <3>1
  <2> QED
    BY <2>1, <2>2
<1>10. ASSUME NEW i \in n + 1..Len(t)
       PROVE  /\ to[i] = to[i - 1] + t[i].size
              /\ \A k \in 1..t[i].size : d[to[i - 1] + k] = <<t[i], k>>
  <2>1. CASE i = l + 1
    <3>1. i - 1 = l /\ l \in n..l /\ t[i] = m /\ to[i] = Len(d)
      BY <1>2, <1>3, <1>7, <2>1
    <3>2. to[i - 1] = Len(b)
      BY <1>4, <1>6, <3>1
    <3> QED
      BY <3>1, <3>2
  <2>2. CASE i # l + 1
    <3>1. i \in n + 1..l /\ i \in n..l /\ i - 1 \in n..l /\ i \in 1..l
      BY <1>2, <1>3, <2>2
    <3>2. /\ to[i] = at[i] /\ to[i - 1] = at[i - 1] /\ t[i] = s[i]
          /\ at[i] \in 0..Len(b) /\ at[i - 1] \in 0..Len(b) /\ s[i].size \in Nat
      BY <1>2, <1>3, <1>6, <3>1
    <3>3. /\ at[i] = at[i - 1] + s[i].size
          /\ \A k \in 1..s[i].size : b[at[i - 1] + k] = <<s[i], k>>
      BY <1>4, <3>1
    <3>4. \A k \in 1..s[i].size : at[i - 1] + k \in 1..Len(b)
      <4> DEFINE e == at[i - 1]
                 f == at[i]
                 y == s[i].size
                 w == Len(b)
      <4>1. e \in Nat /\ f \in Nat /\ f = e + y /\ f <= w /\ y \in Nat /\ w \in Nat
        BY <1>2, <3>2, <3>3
      <4>2. \A k \in 1..y : e + k \in 1..w
        <5> HIDE DEF e, f, y, w
        <5> QED
          BY <4>1
      <4> QED
        BY <4>2
    <3> QED
      BY <3>2, <3>3, <3>4
  <2> QED
    BY <2>1, <2>2
<1>11. Ends(t, n, d, to)
  BY <1>5, <1>8, <1>9, <1>10 DEF Ends
<1>12. n \in 0..Len(t)
  BY <1>2, <1>3
<1> QED
  BY <1>11, <1>12 DEF Framed, t

\* The same, of half words appended.
LEMMA FramedConcat ==
  ASSUME NEW s \in Seq(Packets), NEW n \in Nat, NEW b \in Seq(Bits), NEW m \in Packets,
         NEW w \in Seq(Bits), Framed(s, n, b),
         Len(w) = m.size, \A k \in 1..m.size : w[k] = <<m, k>>
  PROVE  Framed(Append(s, m), n, b \o w)
<1> DEFINE d == b \o w
<1>1. m.size \in Nat /\ Len(b) \in Nat
  BY PacketType
<1>2. d \in Seq(Bits) /\ Len(d) = Len(b) + m.size
      /\ \A i \in 1..Len(b) + m.size : d[i] = IF i <= Len(b) THEN b[i] ELSE w[i - Len(b)]
  BY ConcatProperties
<1> HIDE DEF d
<1>3. \A i \in 1..Len(b) : d[i] = b[i]
  BY <1>1, <1>2
<1>4. ASSUME NEW k \in 1..m.size PROVE d[Len(b) + k] = <<m, k>>
  <2>1. Len(b) + k \in 1..Len(b) + m.size /\ ~(Len(b) + k <= Len(b)) /\ (Len(b) + k) - Len(b) = k
    BY <1>1
  <2>2. d[Len(b) + k] = w[(Len(b) + k) - Len(b)]
    BY <1>2, <2>1
  <2> QED
    BY <2>1, <2>2
<1>5. Framed(Append(s, m), n, d)
  BY <1>2, <1>3, <1>4, FramedWrite
<1> QED
  BY <1>5 DEF d

\* The first half word is that of the next packet, and all of the packet
\* follows.  Without it the next one comes first.
LEMMA FramedParse ==
  ASSUME NEW s \in Seq(Packets), NEW n \in Nat, NEW b \in Seq(Bits), b # <<>>,
         Framed(s, n, b)
  PROVE  /\ n + 1 \in 1..Len(s) /\ b[1] = <<s[n + 1], 1>> /\ s[n + 1] \in Packets
         /\ s[n + 1].size \in 1..Len(b)
         /\ \A d \in Seq(Bits) :
              /\ Len(d) = Len(b) - s[n + 1].size
              /\ \A i \in 1..Len(d) : d[i] = b[s[n + 1].size + i]
              => Framed(s, n + 1, d)
<1> DEFINE l == Len(s)
           z == s[n + 1].size
<1>1. PICK at : Ends(s, n, b, at)
  BY DEF Framed
<1>2. /\ n \in 0..l /\ l \in Nat /\ Len(b) \in Nat \ {0}
      /\ \A i \in 1..l : s[i] \in Packets /\ s[i].size \in Nat /\ s[i].size >= 1
  BY PacketType, EmptySeq DEF Framed
<1>3. /\ at \in [n..l -> 0..Len(b)]
      /\ at[n] = 0 /\ at[l] = Len(b)
      /\ \A i, j \in n..l : i <= j => at[i] <= at[j]
      /\ \A i \in n + 1..l :
           /\ at[i] = at[i - 1] + s[i].size
           /\ \A k \in 1..s[i].size : b[at[i - 1] + k] = <<s[i], k>>
  BY <1>1 DEF Ends
<1>4. n + 1 \in n + 1..l /\ n + 1 \in 1..l /\ n + 1 \in n..l /\ (n + 1) - 1 = n
  BY <1>2, <1>3
<1>5. /\ at[n + 1] = z /\ z \in 1..Len(b) /\ s[n + 1] \in Packets
      /\ b[1] = <<s[n + 1], 1>>
  <2>1. at[n + 1] = at[n] + z /\ z \in Nat /\ z >= 1 /\ at[n + 1] \in 0..Len(b)
    BY <1>2, <1>3, <1>4
  <2>2. \A k \in 1..z : b[at[n] + k] = <<s[n + 1], k>>
    BY <1>3, <1>4
  <2>3. 1 \in 1..z /\ at[n] + 1 = 1
    BY <1>3, <2>1
  <2> QED
    BY <1>2, <1>3, <1>4, <2>1, <2>2, <2>3
<1>6. ASSUME NEW d \in Seq(Bits), Len(d) = Len(b) - z, \A i \in 1..Len(d) : d[i] = b[z + i]
      PROVE  Framed(s, n + 1, d)
  <2> DEFINE to == [i \in n + 1..l |-> at[i] - z]
  <2>0. \A i \in n + 1..l : to[i] = at[i] - z
    OBVIOUS
  <2>1. \A i \in n + 1..l : at[i] \in z..Len(b) /\ to[i] = at[i] - z
    <3> HIDE DEF to
    <3> SUFFICES ASSUME NEW i \in n + 1..l PROVE at[i] \in z..Len(b)
      BY <2>0
    <3>1. i \in n..l /\ n + 1 <= i
      BY <1>2
    <3>2. at[i] \in 0..Len(b)
      BY <1>3, <3>1
    <3>3. at[n + 1] <= at[i]
      BY <1>3, <1>4, <3>1
    <3> HIDE DEF z, l
    <3> QED
      BY <1>2, <1>5, <3>2, <3>3
  <2>2. to \in [n + 1..l -> 0..Len(d)]
    BY <1>2, <1>5, <1>6, <2>1
  <2>3. to[n + 1] = 0 /\ to[l] = Len(d)
    BY <1>2, <1>3, <1>4, <1>5, <1>6, <2>1
  <2>4. \A i, j \in n + 1..l : i <= j => to[i] <= to[j]
    <3> SUFFICES ASSUME NEW i \in n + 1..l, NEW j \in n + 1..l, i <= j PROVE to[i] <= to[j]
      OBVIOUS
    <3>1. i \in n..l /\ j \in n..l
      BY <1>2
    <3>2. at[i] <= at[j]
      BY <1>3, <3>1
    <3>3. /\ at[i] \in z..Len(b) /\ at[j] \in z..Len(b) /\ z \in Nat /\ Len(b) \in Nat
          /\ to[i] = at[i] - z /\ to[j] = at[j] - z
      BY <1>2, <1>5, <2>1
    <3> HIDE DEF to, z, l
    <3> QED
      BY <3>2, <3>3
  <2> HIDE DEF to, z, l
  <2>5. ASSUME NEW i \in (n + 1) + 1..l
        PROVE  /\ to[i] = to[i - 1] + s[i].size
               /\ \A k \in 1..s[i].size : d[to[i - 1] + k] = <<s[i], k>>
    <3>1. i \in n + 1..l /\ i - 1 \in n + 1..l /\ i \in 1..l
      BY <1>2
    <3>2. /\ at[i] \in z..Len(b) /\ at[i - 1] \in z..Len(b) /\ s[i].size \in Nat /\ z \in Nat
          /\ to[i] = at[i] - z /\ to[i - 1] = at[i - 1] - z
      BY <1>2, <1>5, <2>1, <3>1
    <3>3. /\ at[i] = at[i - 1] + s[i].size
          /\ \A k \in 1..s[i].size : b[at[i - 1] + k] = <<s[i], k>>
      BY <1>3, <3>1
    <3>4. ASSUME NEW k \in 1..s[i].size PROVE d[to[i - 1] + k] = <<s[i], k>>
      <4> DEFINE e == at[i - 1]
                 f == at[i]
                 g == to[i - 1]
                 y == s[i].size
                 w == Len(b)
                 v == Len(d)
      <4>1. e \in z..w /\ f \in z..w /\ y \in Nat /\ z \in Nat /\ g = e - z
        BY <3>2
      <4>2. f = e + y
        BY <3>3
      <4>3. v = w - z /\ w \in Nat
        BY <1>2, <1>6
      <4>4. k \in 1..y
        OBVIOUS
      <4>5. g + k \in 1..v /\ z + (g + k) = e + k
        <5> HIDE DEF e, f, g, y, w, v
        <5> QED
          BY <4>1, <4>2, <4>3, <4>4
      <4> QED
        BY <1>6, <3>3, <4>5
    <3>5. to[i] = to[i - 1] + s[i].size
      BY <3>2, <3>3
    <3> QED
      BY <3>4, <3>5
  <2>6. Ends(s, n + 1, d, to)
    BY <2>2, <2>3, <2>4, <2>5 DEF Ends, l
  <2> QED
    BY <1>4, <2>6 DEF Framed, l
<1> QED
  BY <1>4, <1>5, <1>6

-----------------------------------------------------------------------------
(***************************************************************************)
(* Types.                                                                  *)
(***************************************************************************)

\* The half words of a packet.
LEMMA HalfWordsProperties ==
  ASSUME NEW m \in Packets
  PROVE  /\ HalfWords(m) \in Seq(Bits)
         /\ Len(HalfWords(m)) = m.size
         /\ \A k \in 1..m.size : HalfWords(m)[k] = <<m, k>>
<1>1. m.size \in Nat
  BY PacketType
<1>2. \A k \in 1..m.size : <<m, k>> \in Bits
  BY <1>1 DEF Bits
<1>3. HalfWords(m) \in [1..m.size -> Bits]
  BY <1>2 DEF HalfWords
<1>4. \A k \in 1..m.size : HalfWords(m)[k] = <<m, k>>
  BY DEF HalfWords
<1> QED
  BY <1>1, <1>3, <1>4

\* What is left when the first n half words are gone.
LEMMA DroppedProperties ==
  ASSUME NEW b \in Seq(Bits), NEW n \in 0..Len(b)
  PROVE  /\ Dropped(b, n) \in Seq(Bits)
         /\ Len(Dropped(b, n)) = Len(b) - n
         /\ \A i \in 1..Len(Dropped(b, n)) : Dropped(b, n)[i] = b[n + i]
<1>1. Len(b) \in Nat /\ n + 1 \in Int /\ Len(b) \in Int /\ n \in Nat
  OBVIOUS
<1>2. \A i \in n + 1..Len(b) : b[i] \in Bits
  BY <1>1, ElementOfSeq
<1>3. /\ SubSeq(b, n + 1, Len(b)) \in Seq(Bits)
      /\ Len(SubSeq(b, n + 1, Len(b))) = IF n + 1 <= Len(b) THEN Len(b) - (n + 1) + 1 ELSE 0
      /\ \A i \in 1..Len(b) - (n + 1) + 1 :
           SubSeq(b, n + 1, Len(b))[i] = b[(n + 1) + i - 1]
  BY <1>1, <1>2, SubSeqProperties
<1>4. Len(b) - (n + 1) + 1 = Len(b) - n
  BY <1>1
<1>5. Len(SubSeq(b, n + 1, Len(b))) = Len(b) - n
  BY <1>1, <1>3
<1>6. \A i \in 1..Len(b) - n : SubSeq(b, n + 1, Len(b))[i] = b[n + i]
  BY <1>1, <1>3, <1>4
<1> QED
  BY <1>3, <1>5, <1>6 DEF Dropped

\* The first n half words.
LEMMA TakenType ==
  ASSUME NEW b \in Seq(Bits), NEW n \in 1..Len(b)
  PROVE  SubSeq(b, 1, n) \in Seq(Bits)
<1>1. \A i \in 1..n : b[i] \in Bits
  BY ElementOfSeq
<1> QED
  BY <1>1, SubSeqProperties, 1 \in Int, n \in Int

\* Buffers hold half words, those of absent connections none.
LEMMA BufferType ==
  ASSUME BridgeTypeOK, NEW c \in Conns
  PROVE  Buffer(c) \in Seq(Bits) /\ up[c] \in Seq(Bits) /\ Pending(c) \in Seq(Bits)
<1>1. <<>> \in Seq(Bits)
  BY EmptySeq
<1>2. Buffer(c) \in Seq(Bits)
  BY <1>1 DEF Buffer, BridgeTypeOK
<1>3. up[c] \in Seq(Bits)
  BY DEF BridgeTypeOK
<1> QED
  BY <1>2, <1>3, ConcatProperties DEF Pending

\* A buffer replaced.
LEMMA BufferedType ==
  ASSUME BridgeTypeOK, NEW c \in connections, NEW b \in Seq(Bits), NEW t, t = Buffered(c, b)
  PROVE  /\ DOMAIN t \subseteq connections
         /\ t \in [DOMAIN t -> Seq(Bits)]
BY DEF Buffered, BridgeTypeOK, TypeOK

\* Only the buffer of c is another.
LEMMA BufferChanged ==
  ASSUME NEW c \in Conns, NEW b, mapTable' = Buffered(c, b)
  PROVE  Buffer(c)' = b /\ \A d \in Conns \ {c} : Buffer(d)' = Buffer(d)
<1>1. DOMAIN mapTable' = DOMAIN mapTable \cup {c}
  BY DEF Buffered
<1>2. \A d \in DOMAIN mapTable' : mapTable'[d] = IF d = c THEN b ELSE mapTable[d]
  BY <1>1 DEF Buffered
<1>3. Buffer(c)' = b
  BY <1>1, <1>2 DEF Buffer
<1>4. ASSUME NEW d \in Conns \ {c} PROVE Buffer(d)' = Buffer(d)
  BY <1>1, <1>2 DEF Buffer
<1> QED
  BY <1>3, <1>4

\* The connections there are.
LEMMA ConnsMade ==
  ASSUME BridgeTypeOK
  PROVE  /\ made \in Nat /\ made <= MaxConns /\ MaxConns \in Nat
         /\ 1..made \subseteq Conns /\ connections \subseteq Conns
         /\ \A c \in Conns : c \in 1..made \/ c > made
<1>1. made \in Nat /\ made <= MaxConns /\ MaxConns \in Nat
  BY BridgeAssumption DEF BridgeTypeOK, TypeOK
<1>2. 1..made \subseteq Conns /\ \A c \in Conns : c \in 1..made \/ c > made
  BY <1>1 DEF Conns
<1>3. connections \subseteq 1..made
  BY DEF BridgeTypeOK, TypeOK
<1> QED
  BY <1>1, <1>2, <1>3

\* What reading n half words does to isLogin.
ReadOne(n) ==
  LET data == SubSeq(down[link], 1, n)
      code == IF data[1][2] = 1 THEN data[1][1].code ELSE 0
  IN  isLogin' = (code = 1015 \/ (isLogin /\ code \notin {1012, 1017}))

\* SpringBoard's steps.
LEMMA SpringBoardType ==
  ASSUME BridgeTypeOK, SpringBoard \/ Write \/ Respring
  PROVE  BridgeTypeOK'
<1> USE DEF clientVars, serverVars
<1>1. CASE Connect
  <2>1. made' = made + 1 /\ made + 1 \in 0..MaxConns /\ link' \in Conns /\ link' \in 1..made'
    BY <1>1, ConnsMade DEF Connect, Conns
  <2>2. 1..made \subseteq 1..made'
    BY <2>1, ConnsMade
  <2>3. \A c \in Conns : c > made' => c > made
    BY <2>1, ConnsMade DEF Conns
  <2>4. TypeOK'
    BY <1>1, <2>1, <2>2 DEF Connect, BridgeTypeOK, TypeOK
  <2> QED
    BY <1>1, <2>1, <2>3, <2>4 DEF Connect, BridgeTypeOK
<1>2. CASE Read
  <2>1. isLogin' \in BOOLEAN
    <3>1. PICK n \in 1..Len(down[link]) : ReadOne(n)
      BY <1>2 DEF Read, ReadOne
    <3> QED
      BY <3>1, Zenon DEF ReadOne
  <2>2. TypeOK'
    BY <1>2, <2>1 DEF Read, BridgeTypeOK, TypeOK
  <2> QED
    BY <1>2, <2>2 DEF Read, BridgeTypeOK
<1>3. CASE ReadEnd
  <2>1. TypeOK'
    BY <1>3 DEF ReadEnd, reconnect, BridgeTypeOK, TypeOK
  <2> QED
    BY <1>3, <2>1 DEF ReadEnd, reconnect, BridgeTypeOK
<1>4. CASE Write
  <2>1. PICK m \in Packets : write(m)
    BY <1>4 DEF Write
  <2>2. link \in 1..made /\ link \in Conns /\ link # None
    BY <2>1, ConnsMade DEF write, BridgeTypeOK
  <2>3. CASE link \in cut
    <3>1. TypeOK'
      BY <2>1, <2>2, <2>3 DEF write, reconnect, BridgeTypeOK, TypeOK
    <3> QED
      BY <2>1, <2>2, <2>3, <3>1 DEF write, reconnect, BridgeTypeOK
  <2>4. CASE link \notin cut
    <3>1. TypeOK'
      BY <2>1, <2>4 DEF write, BridgeTypeOK, TypeOK
    <3>2. up[link] \o HalfWords(m) \in Seq(Bits)
      BY <2>2, BufferType, HalfWordsProperties, ConcatProperties
    <3>3. up' \in [Conns -> Seq(Bits)]
      BY <2>1, <2>4, <3>2 DEF write, BridgeTypeOK
    <3>4. Append(sent[link], m) \in Seq(Packets)
      BY <2>2, AppendProperties DEF BridgeTypeOK
    <3>5. sent' \in [Conns -> Seq(Packets)]
      BY <2>1, <2>4, <3>4 DEF write, BridgeTypeOK
    <3>6. ASSUME NEW c \in Conns, c > made' PROVE sent'[c] = <<>> /\ got'[c] = <<>> /\ up'[c] = <<>>
      <4>1. made' = made /\ c > made /\ c # link
        BY <2>1, <2>2, <3>6, ConnsMade DEF write
      <4> QED
        BY <2>1, <2>4, <4>1 DEF write, BridgeTypeOK
    <3> QED
      BY <2>1, <2>4, <3>1, <3>3, <3>5, <3>6 DEF write, BridgeTypeOK
  <2> QED
    BY <2>3, <2>4
<1>5. CASE Respring
  <2>1. link \in 1..made /\ ended' \subseteq 1..made /\ failing' \subseteq connections
    BY <1>5 DEF Respring, BridgeTypeOK, TypeOK
  <2>2. TypeOK'
    BY <1>5, <2>1 DEF Respring, BridgeTypeOK, TypeOK
  <2> QED
    BY <1>5, <2>2 DEF Respring, BridgeTypeOK
<1> QED
  BY <1>1, <1>2, <1>3, <1>4, <1>5 DEF SpringBoard

\* mediaserverd's end.
LEMMA DiesType ==
  ASSUME BridgeTypeOK, Dies, kills' \in 0..MaxKills
  PROVE  BridgeTypeOK'
<1> USE DEF clientVars
<1>1. TypeOK'
  BY DEF Dies, BridgeTypeOK, TypeOK
<1>2. up' \in [Conns -> Seq(Bits)] /\ \A c \in Conns : up'[c] = <<>>
  BY EmptySeq DEF Dies
<1>3. mapTable' \in [DOMAIN mapTable' -> Seq(Bits)]
  BY DEF Dies
<1> QED
  BY <1>1, <1>2, <1>3 DEF Dies, BridgeTypeOK

\* A buffer that is not empty begins with a half word of a packet.
LEMMA FrontType ==
  ASSUME NEW b \in Seq(Bits), Complete(b)
  PROVE  /\ Len(b) \in Nat /\ Len(b) >= 2 /\ b # <<>>
         /\ Front(b) \in Packets /\ b[1] = <<Front(b), b[1][2]>>
<1>1. Len(b) \in Nat /\ Len(b) >= 2 /\ 1 \in 1..Len(b)
  BY DEF Complete, Code
<1>2. b[1] \in Bits
  BY <1>1, ElementOfSeq
<1>3. b # <<>>
  BY <1>1, EmptySeq
<1> QED
  BY <1>1, <1>2, <1>3 DEF Front, Bits

\* parse: takes the whole of a packet it does not refuse.
LEMMA TakesAll ==
  ASSUME NEW m \in Packets, m.ok
  PROVE  Takes(m) = m.size
BY BridgeAssumption

\* mediaserverd's steps.
LEMMA MediaserverdType ==
  ASSUME BridgeTypeOK, Mediaserverd
  PROVE  BridgeTypeOK'
<1> USE DEF clientVars, serverVars
<1>1. ASSUME NEW c \in Conns, AcceptCallBack(c) PROVE BridgeTypeOK'
  <2>1. connections' \subseteq 1..made \ cut
    BY <1>1, ConnsMade DEF AcceptCallBack, BridgeTypeOK, TypeOK, Conns
  <2>2. TypeOK'
    BY <1>1, <2>1 DEF AcceptCallBack, RunLoop, BridgeTypeOK, TypeOK
  <2> QED
    BY <1>1, <2>2 DEF AcceptCallBack, BridgeTypeOK
<1>2. ASSUME NEW c \in Conns, ReadStreamCB(c) PROVE BridgeTypeOK'
  <2>1. PICK n \in 1..Len(up[c]) :
          /\ mapTable' = Buffered(c, Buffer(c) \o SubSeq(up[c], 1, n))
          /\ up' = [up EXCEPT ![c] = Dropped(@, n)]
    BY <1>2 DEF ReadStreamCB
  <2>2. c \in connections
    BY <1>2 DEF ReadStreamCB
  <2>3. Buffer(c) \o SubSeq(up[c], 1, n) \in Seq(Bits)
    BY BufferType, TakenType, ConcatProperties
  <2>4. DOMAIN mapTable' \subseteq connections /\ mapTable' \in [DOMAIN mapTable' -> Seq(Bits)]
    BY <2>1, <2>2, <2>3, BufferedType
  <2>5. Dropped(up[c], n) \in Seq(Bits)
    BY BufferType, DroppedProperties, n \in 0..Len(up[c])
  <2>6. up' \in [Conns -> Seq(Bits)]
    BY <2>1, <2>5 DEF BridgeTypeOK
  <2>7. ASSUME NEW d \in Conns, d > made' PROVE sent'[d] = <<>> /\ got'[d] = <<>> /\ up'[d] = <<>>
    <3>1. made' = made /\ d > made /\ c \in 1..made
      BY <1>2, <2>2, <2>7 DEF ReadStreamCB, BridgeTypeOK, TypeOK
    <3>2. d # c
      BY <3>1, ConnsMade
    <3> QED
      BY <1>2, <2>1, <3>1, <3>2 DEF ReadStreamCB, BridgeTypeOK
  <2>8. TypeOK'
    BY <1>2, <2>2, <2>4 DEF ReadStreamCB, BridgeTypeOK, TypeOK
  <2> QED
    BY <1>2, <2>4, <2>6, <2>7, <2>8 DEF ReadStreamCB, BridgeTypeOK
<1>3. ASSUME NEW c \in Conns, ErrorOccurred(c) PROVE BridgeTypeOK'
  BY <1>3, DiesType DEF ErrorOccurred, CloseConnection, BridgeTypeOK, TypeOK
<1>4. CASE ParseEnd
  <2>1. TypeOK'
    BY <1>4 DEF ParseEnd, BridgeTypeOK, TypeOK
  <2> QED
    BY <1>4, <2>1 DEF ParseEnd, BridgeTypeOK
<1>5. CASE Parse
  <2> DEFINE c == parsing
             b == Buffer(c)
             m == Front(b)
  <2>1. c \in connections /\ c \in Conns /\ c \in 1..made
    BY <1>5, ConnsMade DEF Parse, BridgeTypeOK, TypeOK
  <2>2. Complete(b) /\ Aligned(b) /\ m.ok /\ mapTable' = Buffered(c, Rest(b))
        /\ got' = [got EXCEPT ![c] = Append(@, m)]
    BY <1>5 DEF Parse
  <2>3. b \in Seq(Bits) /\ m \in Packets /\ Takes(m) \in 0..Len(b)
    <3>1. b \in Seq(Bits)
      BY <2>1, BufferType
    <3>2. m \in Packets /\ Len(b) \in Nat
      BY <2>2, <3>1, FrontType
    <3>3. Takes(m) = m.size /\ m.size \in Nat
      BY <2>2, <3>2, TakesAll, PacketType
    <3>4. Takes(m) <= Len(b)
      BY <2>2 DEF Complete
    <3> QED
      BY <3>1, <3>2, <3>3, <3>4
  <2>4. Rest(b) \in Seq(Bits)
    BY <2>3, DroppedProperties DEF Rest
  <2>5. DOMAIN mapTable' \subseteq connections /\ mapTable' \in [DOMAIN mapTable' -> Seq(Bits)]
    BY <2>1, <2>2, <2>4, BufferedType
  <2>6. Append(got[c], m) \in Seq(Packets)
    BY <2>1, <2>3, AppendProperties DEF BridgeTypeOK
  <2>7. got' \in [Conns -> Seq(Packets)]
    BY <2>2, <2>6 DEF BridgeTypeOK
  <2>8. ASSUME NEW d \in Conns, d > made' PROVE sent'[d] = <<>> /\ got'[d] = <<>> /\ up'[d] = <<>>
    <3>1. made' = made /\ d > made /\ d # c
      BY <1>5, <2>1, <2>8, ConnsMade DEF Parse
    <3> QED
      BY <1>5, <2>2, <3>1 DEF Parse, BridgeTypeOK
  <2>9. asking' \in Nat
    BY <1>5 DEF Parse, BridgeTypeOK, TypeOK
  <2>10. failing' \subseteq connections
    BY <1>5 DEF Parse, sendAll, BridgeTypeOK, TypeOK
  <2>11. TypeOK'
    BY <1>5, <2>5, <2>9, <2>10 DEF Parse, BridgeTypeOK, TypeOK
  <2> QED
    BY <1>5, <2>5, <2>7, <2>8, <2>11 DEF Parse, BridgeTypeOK
<1>6. CASE ParseRefuses
  BY <1>6, DiesType DEF ParseRefuses, remove, CloseConnection, BridgeTypeOK, TypeOK
<1>7. CASE LoginAnswered
  <2>1. asking' \in Nat /\ failing' \subseteq connections
    BY <1>7 DEF LoginAnswered, sendAll, BridgeTypeOK, TypeOK
  <2>2. TypeOK'
    BY <1>7, <2>1 DEF LoginAnswered, BridgeTypeOK, TypeOK
  <2> QED
    BY <1>7, <2>2 DEF LoginAnswered, BridgeTypeOK
<1>8. CASE listen
  <2>1. TypeOK'
    BY <1>8 DEF listen, BridgeTypeOK, TypeOK
  <2> QED
    BY <1>8, <2>1 DEF listen, BridgeTypeOK
<1> QED
  BY <1>1, <1>2, <1>3, <1>4, <1>5, <1>6, <1>7, <1>8 DEF Mediaserverd

\* Every step.
LEMMA TypeStep ==
  ASSUME BridgeTypeOK, [Next]_vars
  PROVE  BridgeTypeOK'
<1>1. CASE SpringBoard \/ Write \/ Respring
  BY <1>1, SpringBoardType
<1>2. CASE Mediaserverd
  BY <1>2, MediaserverdType
<1>3. CASE Killed
  <2>1. kills' \in 0..MaxKills
    BY <1>3, BridgeAssumption DEF Killed, BridgeTypeOK, TypeOK
  <2> QED
    BY <1>3, <2>1, DiesType DEF Killed
<1>4. CASE UNCHANGED vars
  <2>1. TypeOK'
    BY <1>4 DEF vars, clientVars, serverVars, BridgeTypeOK, TypeOK
  <2> QED
    BY <1>4, <2>1 DEF vars, clientVars, serverVars, BridgeTypeOK
<1> QED
  BY <1>1, <1>2, <1>3, <1>4 DEF Next

-----------------------------------------------------------------------------
(***************************************************************************)
(* The half words pending.                                                 *)
(***************************************************************************)
\* A connection none of whose half words moves stays framed.
LEMMA Untouched ==
  ASSUME NEW c, UNCHANGED <<up[c], sent[c], got[c], Buffer(c)>>,
         Framed(sent[c], Len(got[c]), Pending(c))
  PROVE  Framed(sent'[c], Len(got'[c]), Pending(c)')
BY DEF Pending

\* Steps that move no half words and handle none.
LEMMA FramedQuiet ==
  ASSUME FramedAll, UNCHANGED <<up, sent, got, mapTable>>, cut \subseteq cut'
  PROVE  FramedAll'
<1> SUFFICES ASSUME NEW c \in Conns \ cut' PROVE Framed(sent'[c], Len(got'[c]), Pending(c)')
  BY DEF FramedAll
<1>1. Framed(sent[c], Len(got[c]), Pending(c))
  BY DEF FramedAll
<1> QED
  BY <1>1 DEF Pending, Buffer

\* After mediaserverd's end only connections not yet made are left.
LEMMA FramedDies ==
  ASSUME BridgeTypeOK, Dies
  PROVE  FramedAll'
<1> SUFFICES ASSUME NEW c \in Conns \ cut' PROVE Framed(sent'[c], Len(got'[c]), Pending(c)')
  BY DEF FramedAll
<1>1. cut' = 1..made /\ c > made
  BY ConnsMade DEF Dies
<1>2. sent'[c] = <<>> /\ got'[c] = <<>> /\ up'[c] = <<>>
  BY <1>1 DEF Dies, BridgeTypeOK
<1>3. Buffer(c)' = <<>>
  BY DEF Dies, Buffer
<1>4. <<>> \o <<>> = <<>> /\ Len(<<>>) = 0
  OBVIOUS
<1>5. Pending(c)' = <<>>
  BY <1>2, <1>3, <1>4 DEF Pending
<1> QED
  BY <1>2, <1>4, <1>5, FramedEmpty

\* A packet is written.
LEMMA WriteFramed ==
  ASSUME BridgeTypeOK, FramedAll, NEW m \in Packets, write(m)
  PROVE  FramedAll'
<1>1. CASE link \in cut
  BY <1>1, FramedQuiet DEF write, serverVars
<1>2. CASE link \notin cut
  <2>0. PICK c \in Conns : c = link /\ c \in 1..made
    BY ConnsMade DEF write, BridgeTypeOK
  <2> DEFINE w == HalfWords(m)
  <2>1. c \notin cut /\ cut' = cut
    BY <1>2, <2>0 DEF write
  <2>2. /\ up' = [up EXCEPT ![c] = @ \o w] /\ sent' = [sent EXCEPT ![c] = Append(@, m)]
        /\ got' = got /\ mapTable' = mapTable
    BY <1>2, <2>0 DEF write, serverVars
  <2>3. up'[c] = up[c] \o w /\ sent'[c] = Append(sent[c], m) /\ \A e : Buffer(e)' = Buffer(e)
    BY <2>1, <2>2 DEF BridgeTypeOK, Buffer
  <2>4. ASSUME NEW e \in Conns \ cut', e # c
        PROVE  Framed(sent'[e], Len(got'[e]), Pending(e)')
    <3>1. sent'[e] = sent[e] /\ up'[e] = up[e] /\ got'[e] = got[e] /\ Buffer(e)' = Buffer(e)
      BY <2>2, <2>3, <2>4 DEF BridgeTypeOK
    <3>2. Framed(sent[e], Len(got[e]), Pending(e))
      BY <2>1 DEF FramedAll
    <3> QED
      BY <3>1, <3>2, Untouched
  <2>5. w \in Seq(Bits) /\ Len(w) = m.size /\ m.size \in Nat /\ \A k \in 1..m.size : w[k] = <<m, k>>
    BY HalfWordsProperties, PacketType
  <2>6. Buffer(c) \in Seq(Bits) /\ up[c] \in Seq(Bits) /\ Pending(c) \in Seq(Bits)
    BY <2>1, BufferType
  <2>7. Pending(c)' = Pending(c) \o w
    <3>1. (Buffer(c) \o up[c]) \o w = Buffer(c) \o (up[c] \o w)
      <4> DEFINE x == Buffer(c)
                 y == up[c]
      <4>1. x \in Seq(Bits) /\ y \in Seq(Bits) /\ w \in Seq(Bits)
        BY <2>5, <2>6
      <4>2. (x \o y) \o w = x \o (y \o w)
        <5> HIDE DEF x, y, w
        <5> QED
          BY <4>1, ConcatAssociative, SMTT(60)
      <4> QED
        BY <4>2
    <3> QED
      BY <2>3, <3>1 DEF Pending
  <2>8. sent[c] \in Seq(Packets) /\ Len(got[c]) \in Nat /\ Framed(sent[c], Len(got[c]), Pending(c))
    BY <2>1 DEF BridgeTypeOK, FramedAll
  <2>9. Framed(Append(sent[c], m), Len(got[c]), Pending(c) \o w)
    BY <2>5, <2>6, <2>8, FramedConcat
  <2>10. Framed(sent'[c], Len(got'[c]), Pending(c)')
    BY <2>2, <2>3, <2>7, <2>9
  <2> QED
    BY <2>4, <2>10 DEF FramedAll
<1> QED
  BY <1>1, <1>2

\* Half words that move to the buffer keep their order.
LEMMA JoinRead ==
  ASSUME NEW b \in Seq(Bits), NEW u \in Seq(Bits), NEW n \in 1..Len(u)
  PROVE  (b \o SubSeq(u, 1, n)) \o Dropped(u, n) = b \o u
<1>1. SubSeq(u, 1, n) \in Seq(Bits) /\ Dropped(u, n) \in Seq(Bits)
  BY TakenType, DroppedProperties, n \in 0..Len(u)
<1>2. SubSeq(u, 1, n) \o SubSeq(u, n + 1, Len(u)) = SubSeq(u, 1, Len(u))
  <2>1. 1 \in 1..Len(u) + 1 /\ n \in 1 - 1..Len(u) /\ Len(u) \in n..Len(u)
    OBVIOUS
  <2> QED
    BY <2>1, ConcatAdjacentSubSeq
<1>3. SubSeq(u, 1, n) \o Dropped(u, n) = u
  BY <1>2, SubSeqFull DEF Dropped
<1>4. (b \o SubSeq(u, 1, n)) \o Dropped(u, n) = b \o (SubSeq(u, 1, n) \o Dropped(u, n))
  <2> DEFINE x == SubSeq(u, 1, n)
             y == Dropped(u, n)
  <2>1. x \in Seq(Bits) /\ y \in Seq(Bits)
    BY <1>1
  <2> HIDE DEF x, y
  <2>2. (b \o x) \o y = b \o (x \o y)
    BY <2>1, ConcatAssociative, SMTT(60)
  <2> QED
    BY <2>2 DEF x, y
<1> QED
  BY <1>3, <1>4

\* parse: takes the next packet, and the rest stays framed.
LEMMA FramedRest ==
  ASSUME NEW s \in Seq(Packets), NEW n \in Nat, NEW b \in Seq(Bits), NEW u \in Seq(Bits),
         Framed(s, n, b \o u), Complete(b), Aligned(b), Front(b).ok
  PROVE  /\ n + 1 \in 1..Len(s) /\ Front(b) = s[n + 1]
         /\ Framed(s, n + 1, Rest(b) \o u)
<1> DEFINE p == b \o u
           m == Front(b)
           r == Rest(b)
           d == r \o u
<1>1. /\ Len(b) \in Nat /\ Len(b) >= 2 /\ b # <<>> /\ m \in Packets
      /\ m.size \in Nat /\ Takes(m) = m.size /\ m.size <= Len(b) /\ Len(u) \in Nat
  <2>1. Len(b) \in Nat /\ Len(b) >= 2 /\ b # <<>> /\ m \in Packets
    BY FrontType
  <2>2. Takes(m) = m.size /\ m.size \in Nat
    BY <2>1, TakesAll, PacketType
  <2>3. Takes(m) <= Len(b)
    BY DEF Complete
  <2> QED
    BY <2>1, <2>2, <2>3
<1>2. /\ p \in Seq(Bits) /\ Len(p) = Len(b) + Len(u)
      /\ \A i \in 1..Len(b) + Len(u) : p[i] = IF i <= Len(b) THEN b[i] ELSE u[i - Len(b)]
  BY ConcatProperties
<1>3. /\ r \in Seq(Bits) /\ Len(r) = Len(b) - m.size
      /\ \A i \in 1..Len(r) : r[i] = b[m.size + i]
  BY <1>1, DroppedProperties, m.size \in 0..Len(b) DEF Rest
<1> HIDE DEF r, p
<1>4. /\ d \in Seq(Bits) /\ Len(d) = Len(r) + Len(u)
      /\ \A i \in 1..Len(r) + Len(u) : d[i] = IF i <= Len(r) THEN r[i] ELSE u[i - Len(r)]
  BY <1>3, ConcatProperties
<1> HIDE DEF d
<1>5. p # <<>> /\ p[1] = b[1]
  <2>1. 1 \in 1..Len(b) + Len(u) /\ 1 <= Len(b) /\ Len(p) # 0
    BY <1>1, <1>2
  <2> QED
    BY <1>2, <2>1, EmptySeq
<1>6. /\ n + 1 \in 1..Len(s) /\ p[1] = <<s[n + 1], 1>>
      /\ \A e \in Seq(Bits) :
           /\ Len(e) = Len(p) - s[n + 1].size
           /\ \A i \in 1..Len(e) : e[i] = p[s[n + 1].size + i]
           => Framed(s, n + 1, e)
  BY <1>2, <1>5, FramedParse DEF p
<1>7. m = s[n + 1]
  BY <1>5, <1>6 DEF Front
<1>8. Len(d) = Len(p) - m.size
  BY <1>1, <1>2, <1>3, <1>4
<1>9. ASSUME NEW i \in 1..Len(d) PROVE d[i] = p[m.size + i]
  <2> DEFINE z == m.size
             x == Len(b)
             y == Len(u)
             v == Len(r)
  <2>0. z \in Nat /\ x \in Nat /\ y \in Nat /\ z <= x /\ v = x - z /\ i \in 1..v + y
    BY <1>1, <1>3, <1>4
  <2>1. CASE i <= v
    <3>1. z + i \in 1..x + y /\ z + i <= x /\ i \in 1..v
      <4> HIDE DEF z, x, y, v
      <4> QED
        BY <2>0, <2>1
    <3>2. d[i] = r[i] /\ r[i] = b[z + i]
      BY <1>3, <1>4, <2>0, <2>1, <3>1
    <3>3. p[z + i] = b[z + i]
      BY <1>2, <3>1
    <3> QED
      BY <3>2, <3>3
  <2>2. CASE ~(i <= v)
    <3>1. z + i \in 1..x + y /\ ~(z + i <= x) /\ (z + i) - x = i - v
      <4> HIDE DEF z, x, y, v
      <4> QED
        BY <2>0, <2>2
    <3>2. d[i] = u[i - v]
      BY <1>4, <2>0, <2>2
    <3>3. p[z + i] = u[(z + i) - x]
      BY <1>2, <3>1
    <3> QED
      BY <3>1, <3>2, <3>3
  <2> QED
    BY <2>1, <2>2
<1>10. Framed(s, n + 1, d)
  BY <1>4, <1>6, <1>7, <1>8, <1>9
<1> QED
  BY <1>6, <1>7, <1>10 DEF d, r

\* Half words come in.
LEMMA ReadFramed ==
  ASSUME BridgeTypeOK, FramedAll, NEW c \in Conns, ReadStreamCB(c)
  PROVE  FramedAll'
<1>1. PICK n \in 1..Len(up[c]) :
        /\ mapTable' = Buffered(c, Buffer(c) \o SubSeq(up[c], 1, n))
        /\ up' = [up EXCEPT ![c] = Dropped(@, n)]
  BY DEF ReadStreamCB
<1>2. c \in connections /\ cut' = cut /\ sent' = sent /\ got' = got
  BY DEF ReadStreamCB
<1>3. Buffer(c) \in Seq(Bits) /\ up[c] \in Seq(Bits)
  BY BufferType
<1>4. Buffer(c) \o SubSeq(up[c], 1, n) \in Seq(Bits)
  BY <1>3, TakenType, ConcatProperties
<1>6. up'[c] = Dropped(up[c], n) /\ \A d \in Conns \ {c} : up'[d] = up[d]
  BY <1>1 DEF BridgeTypeOK
<1>7. Buffer(c)' = Buffer(c) \o SubSeq(up[c], 1, n)
  BY <1>1, BufferChanged
<1>8. \A d \in Conns \ {c} : Buffer(d)' = Buffer(d)
  BY <1>1, BufferChanged
<1> SUFFICES ASSUME NEW d \in Conns \ cut' PROVE Framed(sent'[d], Len(got'[d]), Pending(d)')
  BY DEF FramedAll
<1>9. Framed(sent[d], Len(got[d]), Pending(d))
  BY <1>2 DEF FramedAll
<1>10. Pending(d)' = Pending(d)
  <2>0. Pending(c)' = Pending(c)
    <3>1. (Buffer(c) \o SubSeq(up[c], 1, n)) \o Dropped(up[c], n) = Buffer(c) \o up[c]
      <4> DEFINE x == Buffer(c)
                 y == up[c]
      <4>1. x \in Seq(Bits) /\ y \in Seq(Bits) /\ n \in 1..Len(y)
        BY <1>3
      <4>2. (x \o SubSeq(y, 1, n)) \o Dropped(y, n) = x \o y
        <5> HIDE DEF x, y
        <5> QED
          BY <4>1, JoinRead
      <4> QED
        BY <4>2
    <3> QED
      BY <1>6, <1>7, <3>1 DEF Pending
  <2>1. CASE d = c
    BY <2>0, <2>1
  <2>2. CASE d # c
    BY <1>6, <1>8, <2>2 DEF Pending
  <2> QED
    BY <2>1, <2>2
<1> QED
  BY <1>2, <1>9, <1>10

\* parse: takes the packet that was written next.
LEMMA ParseFramed ==
  ASSUME BridgeTypeOK, FramedAll, Parse
  PROVE  /\ FramedAll'
         /\ \E c \in Conns : /\ Len(got[c]) < Len(sent[c])
                             /\ got' = [got EXCEPT ![c] = Append(@, sent[c][Len(@) + 1])]
                             /\ sent' = sent
<1>0. PICK c \in connections : c = parsing
  BY DEF Parse, BridgeTypeOK, TypeOK
<1>1. c \in Conns /\ c \notin cut
  BY ConnsMade DEF BridgeTypeOK, TypeOK
<1> DEFINE b == Buffer(c)
           u == up[c]
           s == sent[c]
           n == Len(got[c])
<1>2. /\ Complete(b) /\ Aligned(b) /\ Front(b).ok /\ mapTable' = Buffered(c, Rest(b))
      /\ got' = [got EXCEPT ![c] = Append(@, Front(b))]
      /\ up' = up /\ sent' = sent /\ cut' = cut
  BY <1>0 DEF Parse
<1>3. /\ b \in Seq(Bits) /\ u \in Seq(Bits) /\ s \in Seq(Packets) /\ got[c] \in Seq(Packets)
      /\ n \in Nat
  BY <1>1, BufferType DEF BridgeTypeOK
<1>4. Framed(s, n, b \o u)
  BY <1>1 DEF FramedAll, Pending
<1>5. n + 1 \in 1..Len(s) /\ Front(b) = s[n + 1] /\ Framed(s, n + 1, Rest(b) \o u)
  <2> HIDE DEF b, u, s, n
  <2> QED
    BY <1>2, <1>3, <1>4, FramedRest
<1>8. Buffer(c)' = Rest(b) /\ \A d \in Conns \ {c} : Buffer(d)' = Buffer(d)
  BY <1>1, <1>2, BufferChanged
<1>9. Len(got'[c]) = n + 1 /\ \A d \in Conns \ {c} : got'[d] = got[d]
  <2>1. Front(b) \in Packets
    BY <1>2, <1>3, FrontType
  <2>2. Len(Append(got[c], Front(b))) = n + 1
    BY <1>3, <2>1, AppendProperties
  <2> QED
    BY <1>1, <1>2, <2>2 DEF BridgeTypeOK
<1>10. Pending(c)' = Rest(b) \o u
  BY <1>2, <1>8 DEF Pending
<1>11. ASSUME NEW d \in Conns \ cut' PROVE Framed(sent'[d], Len(got'[d]), Pending(d)')
  <2>1. CASE d = c
    BY <1>2, <1>5, <1>9, <1>10, <2>1
  <2>2. CASE d # c
    <3>1. Framed(sent[d], Len(got[d]), Pending(d))
      BY <1>2 DEF FramedAll
    <3> QED
      BY <1>2, <1>8, <1>9, <2>2, <3>1 DEF Pending
  <2> QED
    BY <2>1, <2>2
<1>12. FramedAll'
  BY <1>11 DEF FramedAll
<1>13. /\ Len(got[c]) < Len(sent[c])
       /\ got' = [got EXCEPT ![c] = Append(@, sent[c][Len(@) + 1])]
       /\ sent' = sent
  BY <1>2, <1>3, <1>5
<1> QED
  BY <1>1, <1>12, <1>13

\* Every step keeps the half words framed.
LEMMA FramedStep ==
  ASSUME BridgeTypeOK, FramedAll, [Next]_vars
  PROVE  FramedAll'
<1> USE DEF clientVars, serverVars
<1>1. CASE Connect
  BY <1>1, FramedQuiet DEF Connect
<1>2. CASE Read
  BY <1>2, FramedQuiet DEF Read
<1>3. CASE ReadEnd
  BY <1>3, FramedQuiet DEF ReadEnd
<1>4. CASE Write
  BY <1>4, WriteFramed DEF Write
<1>5. CASE Respring
  BY <1>5, FramedQuiet DEF Respring
<1>6. ASSUME NEW c \in Conns, AcceptCallBack(c) PROVE FramedAll'
  BY <1>6, FramedQuiet DEF AcceptCallBack
<1>7. ASSUME NEW c \in Conns, ReadStreamCB(c) PROVE FramedAll'
  BY <1>7, ReadFramed
<1>8. ASSUME NEW c \in Conns, ErrorOccurred(c) PROVE FramedAll'
  BY <1>8, FramedDies DEF ErrorOccurred, CloseConnection
<1>9. CASE ParseEnd
  BY <1>9, FramedQuiet DEF ParseEnd
<1>10. CASE Parse
  BY <1>10, ParseFramed
<1>11. CASE ParseRefuses
  BY <1>11, FramedDies DEF ParseRefuses, remove, CloseConnection
<1>12. CASE LoginAnswered
  BY <1>12, FramedQuiet DEF LoginAnswered
<1>13. CASE listen
  BY <1>13, FramedQuiet DEF listen
<1>14. CASE Killed
  BY <1>14, FramedDies DEF Killed
<1>8a. CASE UNCHANGED vars
  BY <1>8a, FramedQuiet DEF vars
<1> QED
  BY <1>1, <1>2, <1>3, <1>4, <1>5, <1>6, <1>7, <1>8, <1>9, <1>10, <1>11, <1>12, <1>13, <1>14, <1>8a
     DEF Next, SpringBoard, Mediaserverd

\* At first there is nothing.
LEMMA InitInv ==
  ASSUME Init
  PROVE  BridgeTypeOK /\ FramedAll
<1>1. TypeOK
  <2>1. DOMAIN mapTable = {}
    BY DEF Init
  <2>2. made \in 0..MaxConns /\ kills \in 0..MaxKills /\ asking \in Nat
    BY BridgeAssumption DEF Init
  <2>3. link \in Conns \cup {None} /\ isLogin \in BOOLEAN /\ alive \in BOOLEAN
    BY DEF Init
  <2>4. ended = {} /\ cut = {} /\ connections = {} /\ failing = {} /\ parsing = None
    BY DEF Init
  <2> QED
    BY <2>1, <2>2, <2>3, <2>4 DEF TypeOK
<1>2. <<>> \in Seq(Bits) /\ <<>> \in Seq(Packets) /\ Len(<<>>) = 0 /\ <<>> \o <<>> = <<>>
  BY EmptySeq
<1>3. mapTable \in [DOMAIN mapTable -> Seq(Bits)]
  BY DEF Init
<1>4. BridgeTypeOK
  BY <1>1, <1>2, <1>3 DEF Init, BridgeTypeOK
<1>5. ASSUME NEW c \in Conns PROVE sent[c] = <<>> /\ got[c] = <<>> /\ Pending(c) = <<>>
  <2>1. up[c] = <<>> /\ Buffer(c) = <<>>
    BY DEF Init, Buffer
  <2> QED
    BY <1>2, <2>1 DEF Init, Pending
<1> QED
  <2>1. ASSUME NEW c \in Conns PROVE Framed(sent[c], Len(got[c]), Pending(c))
    BY <1>2, <1>5, FramedEmpty
  <2> QED
    BY <1>4, <2>1 DEF FramedAll

\* A step of the bridge is a step of the channel, or none.
LEMMA ChannelStep ==
  ASSUME BridgeTypeOK, FramedAll, [Next]_vars
  PROVE  [Transport!Next]_(Transport!vars)
<1> USE DEF clientVars, serverVars, Transport!vars
<1>1. CASE Write
  <2>1. PICK m \in Packets : write(m)
    BY <1>1 DEF Write
  <2>2. CASE link \in cut
    BY <2>1, <2>2 DEF write
  <2>3. CASE link \notin cut
    <3>1. link \in Conns
      BY <2>1, ConnsMade DEF write, BridgeTypeOK
    <3>2. Transport!Send(link, m)
      BY <2>1, <2>3 DEF write, Transport!Send
    <3> QED
      BY <3>1, <3>2 DEF Transport!Next
  <2> QED
    BY <2>2, <2>3
<1>2. CASE Parse
  BY <1>2, ParseFramed DEF Transport!Next, Transport!Deliver
<1>3. CASE UNCHANGED <<sent, got>>
  BY <1>3
<1>4. CASE SpringBoard \/ Respring
  BY <1>3, <1>4 DEF SpringBoard, Connect, Read, ReadEnd, Respring
<1>5. CASE Mediaserverd
  BY <1>2, <1>3, <1>5 DEF Mediaserverd, AcceptCallBack, ReadStreamCB, ErrorOccurred, CloseConnection,
    Dies, ParseEnd, ParseRefuses, remove, LoginAnswered, listen
<1>6. CASE Killed
  BY <1>3, <1>6 DEF Killed, Dies
<1>7. CASE UNCHANGED vars
  BY <1>3, <1>7 DEF vars
<1> QED
  BY <1>1, <1>4, <1>5, <1>6, <1>7 DEF Next

-----------------------------------------------------------------------------
(***************************************************************************)
(* The bytes of packets, built up one after the other (Bytes), are what the *)
(* framing describes by its ends.                                          *)
(***************************************************************************)

\* A place behind the first lo of lo + sz ones is one of the sz that follow.
LEMMA SecondPart ==
  ASSUME NEW lo \in Nat, NEW sz \in Nat, NEW k \in 1..lo + sz, ~(k <= lo)
  PROVE  k - lo \in 1..sz /\ lo + (k - lo) = k
OBVIOUS

\* Half words cut off a framed sequence at two ends in a row differ by a packet.
LEMMA EndsStep ==
  ASSUME NEW s \in Seq(Packets), NEW n \in 0..Len(s), NEW b \in Seq(Bits), NEW at,
         Ends(s, n, b, at), NEW i \in n + 1..Len(s)
  PROVE  SubSeq(b, 1, at[i]) = SubSeq(b, 1, at[i - 1]) \o HalfWords(s[i])
<1> DEFINE x == SubSeq(b, 1, at[i])
           y == SubSeq(b, 1, at[i - 1])
           w == HalfWords(s[i])
<1>1. /\ i \in n..Len(s) /\ i - 1 \in n..Len(s) /\ i \in 1..Len(s)
      /\ at[i] \in 0..Len(b) /\ at[i - 1] \in 0..Len(b) /\ Len(b) \in Nat
  BY DEF Ends
<1>2. s[i] \in Packets /\ s[i].size \in Nat
  BY <1>1, PacketType, ElementOfSeq
<1>3. at[i] = at[i - 1] + s[i].size /\ \A k \in 1..s[i].size : b[at[i - 1] + k] = <<s[i], k>>
  BY DEF Ends
<1>4. w \in Seq(Bits) /\ Len(w) = s[i].size /\ \A k \in 1..s[i].size : w[k] = <<s[i], k>>
  BY <1>2, HalfWordsProperties
<1>5. ASSUME NEW m \in 0..Len(b)
      PROVE  /\ SubSeq(b, 1, m) \in Seq(Bits) /\ Len(SubSeq(b, 1, m)) = m
             /\ \A k \in 1..m : SubSeq(b, 1, m)[k] = b[k]
  <2>1. \A k \in 1..m : b[k] \in Bits
    BY ElementOfSeq
  <2> QED
    BY <2>1, SubSeqProperties, 1 \in Int, m \in Int
<1>6. x \in Seq(Bits) /\ Len(x) = at[i] /\ \A k \in 1..at[i] : x[k] = b[k]
  BY <1>1, <1>5
<1>7. y \in Seq(Bits) /\ Len(y) = at[i - 1] /\ \A k \in 1..at[i - 1] : y[k] = b[k]
  BY <1>1, <1>5
<1> HIDE DEF x, y, w
<1>8. y \o w \in Seq(Bits) /\ Len(y \o w) = at[i - 1] + s[i].size
      /\ \A k \in 1..at[i - 1] + s[i].size :
           (y \o w)[k] = IF k <= at[i - 1] THEN y[k] ELSE w[k - at[i - 1]]
  <2>1. y \in Seq(Bits) /\ w \in Seq(Bits) /\ Len(y) = at[i - 1] /\ Len(w) = s[i].size
    BY <1>4, <1>7
  <2>2. y \o w \in Seq(Bits) /\ Len(y \o w) = Len(y) + Len(w)
        /\ \A k \in 1..Len(y) + Len(w) : (y \o w)[k] = IF k <= Len(y) THEN y[k] ELSE w[k - Len(y)]
    BY <2>1, ConcatProperties
  <2> QED
    BY <2>1, <2>2
<1>9. ASSUME NEW k \in 1..at[i] PROVE x[k] = (y \o w)[k]
  <2>1. CASE k <= at[i - 1]
    <3>1. k \in 1..at[i - 1] /\ k \in 1..at[i - 1] + s[i].size
      BY <1>1, <1>2, <1>3, <2>1
    <3> QED
      BY <1>6, <1>7, <1>8, <2>1, <3>1
  <2>2. CASE ~(k <= at[i - 1])
    <3>1. k - at[i - 1] \in 1..s[i].size /\ at[i - 1] + (k - at[i - 1]) = k
      <4>1. at[i - 1] \in Nat /\ k \in 1..at[i - 1] + s[i].size
        BY <1>1, <1>3
      <4> QED
        BY <1>2, <2>2, <4>1, SecondPart
    <3>2. b[at[i - 1] + (k - at[i - 1])] = <<s[i], k - at[i - 1]>>
      BY <1>3, <3>1
    <3>3. (y \o w)[k] = w[k - at[i - 1]]
      BY <1>3, <1>8, <2>2
    <3> QED
      BY <1>4, <1>6, <3>1, <3>2, <3>3
  <2> QED
    BY <2>1, <2>2
<1>10. x = y \o w
  BY <1>3, <1>6, <1>8, <1>9, SeqEqual
<1> QED
  BY <1>10 DEF x, y, w

\* The half words framed are the bytes of the packets after the first n: by
\* induction over these, the first i of them are those up to the i-th end.
LEMMA FramedBytes ==
  ASSUME NEW s \in Seq(Packets), NEW n \in Nat, NEW b \in Seq(Bits), Framed(s, n, b)
  PROVE  Bytes(Dropped(s, n)) = b
<1> DEFINE t == Dropped(s, n)
           N == Len(s) - n
<1>1. PICK at : Ends(s, n, b, at)
  BY DEF Framed
<1>2. n \in 0..Len(s) /\ Len(s) \in Nat /\ N \in Nat
  BY DEF Framed
<1>3. Len(t) = N /\ \A i \in 1..N : t[i] = s[n + i]
  <2>1. \A i \in n + 1..Len(s) : s[i] \in Packets
    BY <1>2, ElementOfSeq
  <2>2. /\ Len(SubSeq(s, n + 1, Len(s))) = IF n + 1 <= Len(s) THEN Len(s) - (n + 1) + 1 ELSE 0
        /\ \A i \in 1..Len(s) - (n + 1) + 1 :
             SubSeq(s, n + 1, Len(s))[i] = s[(n + 1) + i - 1]
    BY <1>2, <2>1, SubSeqProperties, n + 1 \in Int, Len(s) \in Int
  <2> QED
    BY <1>2, <2>2 DEF Dropped
<1> DEFINE g == [i \in 0..N |-> SubSeq(b, 1, at[n + i])]
           Builds(f) == f = [i \in 0..N |-> IF i = 0 THEN <<>> ELSE f[i - 1] \o HalfWords(t[i])]
           Up == CHOOSE f : Builds(f)
<1>4. g[0] = <<>>
  <2>1. at[n] = 0
    BY <1>1 DEF Ends
  <2>2. SubSeq(b, 1, 0) = <<>>
    BY SubSeqProperties, 1 \in Int, 0 \in Int, EmptySeq
  <2> QED
    BY <1>2, <2>1, <2>2
<1>5. ASSUME NEW i \in 1..N PROVE g[i] = g[i - 1] \o HalfWords(t[i])
  <2>1. n + i \in n + 1..Len(s) /\ (n + i) - 1 = n + (i - 1) /\ i \in 0..N /\ i - 1 \in 0..N
    BY <1>2
  <2>2. SubSeq(b, 1, at[n + i]) = SubSeq(b, 1, at[n + (i - 1)]) \o HalfWords(s[n + i])
    BY <1>1, <1>2, <2>1, EndsStep
  <2> QED
    BY <1>3, <2>1, <2>2
<1>6. Bytes(t) = Up[N]
  BY <1>3 DEF Bytes
<1> HIDE DEF t, N
<1>7. Builds(g)
  <2>1. ASSUME NEW i \in 0..N
        PROVE  g[i] = IF i = 0 THEN <<>> ELSE g[i - 1] \o HalfWords(t[i])
    <3> HIDE DEF g
    <3>1. i = 0 \/ i \in 1..N
      BY <1>2
    <3> QED
      BY <1>4, <1>5, <3>1
  <2>2. g = [i \in 0..N |-> g[i]]
    OBVIOUS
  <2> HIDE DEF g
  <2> QED
    BY <2>1, <2>2
<1> HIDE DEF g
<1>8. Builds(Up)
  <2> HIDE DEF Builds
  <2> QED
    BY <1>7
<1> HIDE DEF Up
<1>9. \A i \in 0..N : Up[i] = IF i = 0 THEN <<>> ELSE Up[i - 1] \o HalfWords(t[i])
  BY <1>8, Zenon
<1> HIDE DEF Builds
<1> DEFINE S == {i \in 0..N : Up[i] = g[i]}
<1>10. 0 \in S
  BY <1>2, <1>4, <1>9
<1>11. \A i \in 0..N - 1 : i \in S => i + 1 \in S
  <2> SUFFICES ASSUME NEW i \in 0..N - 1, Up[i] = g[i] PROVE Up[i + 1] = g[i + 1]
    BY <1>2
  <2>1. i + 1 \in 1..N /\ i + 1 \in 0..N /\ (i + 1) - 1 = i
    BY <1>2
  <2>2. Up[i + 1] = Up[i] \o HalfWords(t[i + 1])
    <3>1. i + 1 # 0
      BY <2>1
    <3>2. Up[i + 1] = Up[(i + 1) - 1] \o HalfWords(t[i + 1])
      BY <1>9, <2>1, <3>1, Zenon
    <3> QED
      BY <2>1, <3>2
  <2> QED
    BY <1>5, <2>1, <2>2
<1> HIDE DEF S
<1>12. 0..N \subseteq S
  BY <1>2, <1>10, <1>11, UpTo
<1>13. Up[N] = g[N]
  BY <1>2, <1>12 DEF S
<1>14. g[N] = SubSeq(b, 1, at[Len(s)])
  <2>1. N \in 0..N /\ n + N = Len(s)
    BY <1>2 DEF N
  <2> QED
    BY <2>1, Zenon DEF g
<1>15. SubSeq(b, 1, at[Len(s)]) = b
  <2>1. at[Len(s)] = Len(b)
    BY <1>1 DEF Ends
  <2>2. \A k \in 1..Len(b) : b[k] \in Bits
    BY ElementOfSeq
  <2>3. /\ SubSeq(b, 1, Len(b)) \in Seq(Bits) /\ Len(SubSeq(b, 1, Len(b))) = Len(b)
        /\ \A k \in 1..Len(b) : SubSeq(b, 1, Len(b))[k] = b[k]
    BY <2>2, SubSeqProperties, 1 \in Int, Len(b) \in Nat
  <2> QED
    BY <2>1, <2>3, SeqEqual
<1> QED
  BY <1>6, <1>13, <1>14, <1>15 DEF t

-----------------------------------------------------------------------------
(***************************************************************************)
(* Theorems.                                                               *)
(***************************************************************************)

\* The kinds of the variables and the framing of what is pending hold always.
THEOREM BridgeInvariant == Spec => []IInv
<1>1. Init => IInv
  BY InitInv DEF IInv
<1>2. IInv /\ [Next]_vars => IInv'
  BY TypeStep, FramedStep DEF IInv
<1> QED
  BY <1>1, <1>2, PTL DEF Spec

\* TypeOK: the tables of the sockets and of VCamBridge speak of connections
\* that are there.
THEOREM TypeCorrect == Spec => []TypeOK
<1>1. IInv => TypeOK
  BY DEF IInv, BridgeTypeOK
<1> QED
  BY <1>1, BridgeInvariant, PTL

\* However the bytes of a connection are cut and joined on their way and whichever
\* process goes away, its buffer in VCamBridge and what is under way together are
\* the packets written and not handled, whole and in order.
THEOREM BytesConserved == Spec => []Conserved
<1>1. IInv => Conserved
  <2> SUFFICES ASSUME IInv, NEW c \in 1..made \ cut
               PROVE  Bytes(Dropped(sent[c], Len(got[c]))) = Pending(c)
    BY DEF Conserved, Pending
  <2>1. c \in Conns
    BY ConnsMade DEF IInv
  <2>2. sent[c] \in Seq(Packets) /\ got[c] \in Seq(Packets) /\ Pending(c) \in Seq(Bits)
    BY <2>1, BufferType DEF IInv, BridgeTypeOK
  <2>3. Framed(sent[c], Len(got[c]), Pending(c))
    BY <2>1 DEF IInv, FramedAll
  <2> QED
    BY <2>2, <2>3, FramedBytes, Len(got[c]) \in Nat
<1> QED
  BY <1>1, BridgeInvariant, PTL

\* However recv() cuts and joins what was written, and whichever process goes
\* away, parse: gets the packets of each connection in order, each once.
THEOREM BridgeIsChannel == Spec => ImplementsChannel
<1>1. Init => Transport!Init
  BY DEF Init, Transport!Init
<1>2. IInv /\ [Next]_vars => [Transport!Next]_(Transport!vars)
  BY ChannelStep DEF IInv
<1> QED
  BY <1>1, <1>2, BridgeInvariant, PTL DEF Spec, ImplementsChannel, Transport!Spec
=============================================================================
