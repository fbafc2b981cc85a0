------------------------- MODULE RtmpSession_proofs -------------------------
(***************************************************************************)
(* Proofs about RtmpSession.                                               *)
(***************************************************************************)
EXTENDS RtmpSession, ChunkStream_proofs, Induction

-----------------------------------------------------------------------------
(***************************************************************************)
(* The sequences of a sequence of sequences ss, one behind the other.      *)
(***************************************************************************)

\* Joined(ss)[n] is the first n of them.
Joined(ss) == CHOOSE f : f = [i \in 1..Len(ss) |-> IF i = 1 THEN ss[i] ELSE f[i - 1] \o ss[i]]

LEMMA FlattenIsJoined ==
  ASSUME NEW ss
  PROVE  Flatten(ss) = IF Len(ss) = 0 THEN ss ELSE Joined(ss)[Len(ss)]
BY DEF Flatten, SE!FlattenSeq, Joined

\* The recursion that defines Joined has a solution.
LEMMA JoinedExists ==
  ASSUME NEW ss, NEW N \in Nat
  PROVE  \E f : f = [i \in 1..N |-> IF i = 1 THEN ss[i] ELSE f[i - 1] \o ss[i]]
<1> DEFINE S == {n \in Nat : \E f : f = [i \in 1..n |-> IF i = 1 THEN ss[i] ELSE f[i - 1] \o ss[i]]}
<1>1. 0 \in S
  <2> DEFINE f == [i \in 1..0 |-> <<>>]
  <2>1. f = [i \in 1..0 |-> IF i = 1 THEN ss[i] ELSE f[i - 1] \o ss[i]]
    OBVIOUS
  <2> QED
    BY <2>1
<1>2. ASSUME NEW n \in Nat, n \in S PROVE n + 1 \in S
  <2>1. PICK f : f = [i \in 1..n |-> IF i = 1 THEN ss[i] ELSE f[i - 1] \o ss[i]]
    BY <1>2
  <2> DEFINE g == [i \in 1..n + 1 |-> IF i \in 1..n THEN f[i] ELSE
                                      IF i = 1 THEN ss[i] ELSE f[i - 1] \o ss[i]]
  <2>2. ASSUME NEW i \in 1..n + 1
        PROVE  g[i] = IF i = 1 THEN ss[i] ELSE g[i - 1] \o ss[i]
    <3>1. i # 1 => i - 1 \in 1..n /\ g[i - 1] = f[i - 1]
      OBVIOUS
    <3>2. i \in 1..n => f[i] = IF i = 1 THEN ss[i] ELSE f[i - 1] \o ss[i]
      BY <2>1
    <3>3. g[i] = IF i \in 1..n THEN f[i] ELSE IF i = 1 THEN ss[i] ELSE f[i - 1] \o ss[i]
      OBVIOUS
    <3> HIDE DEF g
    <3> QED
      BY <3>1, <3>2, <3>3
  <2>3. g = [i \in 1..n + 1 |-> g[i]]
    OBVIOUS
  <2> HIDE DEF g
  <2>4. g = [i \in 1..n + 1 |-> IF i = 1 THEN ss[i] ELSE g[i - 1] \o ss[i]]
    BY <2>2, <2>3, Zenon
  <2>5. \E h : h = [i \in 1..n + 1 |-> IF i = 1 THEN ss[i] ELSE h[i - 1] \o ss[i]]
    BY <2>4, Zenon
  <2>6. n + 1 \in Nat
    OBVIOUS
  <2> QED
    BY <2>5, <2>6, Zenon
<1> HIDE DEF S
<1>3. Nat \subseteq S
  BY <1>1, <1>2, SetInduction
<1> QED
  BY <1>3 DEF S

LEMMA JoinedIs ==
  ASSUME NEW ss, Len(ss) \in Nat
  PROVE  Joined(ss) = [i \in 1..Len(ss) |-> IF i = 1 THEN ss[i] ELSE Joined(ss)[i - 1] \o ss[i]]
BY JoinedExists, Zenon DEF Joined

LEMMA JoinedAt ==
  ASSUME NEW ss, NEW n \in Nat, Len(ss) = n, NEW i \in 1..n
  PROVE  Joined(ss)[i] = IF i = 1 THEN ss[i] ELSE Joined(ss)[i - 1] \o ss[i]
<1> DEFINE J == Joined(ss)
<1>1. J = [j \in 1..n |-> IF j = 1 THEN ss[j] ELSE J[j - 1] \o ss[j]]
  BY JoinedIs
<1> HIDE DEF J
<1>2. J[i] = IF i = 1 THEN ss[i] ELSE J[i - 1] \o ss[i]
  BY <1>1, Zenon
<1> QED
  BY <1>2 DEF J

\* First(ss, n) is the first n sequences of ss.
First(ss, n) == [i \in 1..n |-> ss[i]]

LEMMA FirstLen ==
  ASSUME NEW ss, NEW n \in Nat
  PROVE  Len(First(ss, n)) = n /\ \A i \in 1..n : First(ss, n)[i] = ss[i]
BY LenProperties DEF First

LEMMA JoinedType ==
  ASSUME NEW ss, NEW S, NEW n \in Nat, Len(ss) = n, \A i \in 1..n : ss[i] \in Seq(S),
         NEW i \in 1..n
  PROVE  Joined(ss)[i] \in Seq(S)
<1> DEFINE J == Joined(ss)
           T == {k \in 0..n : k # 0 => J[k] \in Seq(S)}
<1>1. \A k \in 1..n : J[k] = IF k = 1 THEN ss[k] ELSE J[k - 1] \o ss[k]
  BY JoinedAt
<1> HIDE DEF J
<1>2. 0 \in T
  OBVIOUS
<1>3. ASSUME NEW k \in 0..n - 1, k \in T PROVE k + 1 \in T
  <2>1. k + 1 \in 1..n /\ ss[k + 1] \in Seq(S)
    OBVIOUS
  <2>2. CASE k = 0
    BY <1>1, <2>1, <2>2
  <2>3. CASE k # 0
    <3>0. k + 1 # 1 /\ k + 1 - 1 = k /\ J[k] \in Seq(S)
      BY <1>3, <2>3
    <3>1. J[k] \in Seq(S) /\ J[k + 1] = J[k] \o ss[k + 1]
      <4>1. PICK j \in 1..n : j = k + 1
        BY <2>1
      <4>2. J[j] = IF j = 1 THEN ss[j] ELSE J[j - 1] \o ss[j]
        BY <1>1
      <4>3. j # 1 /\ j - 1 = k
        BY <3>0, <4>1
      <4>4. J[j] = J[k] \o ss[j]
        BY <4>2, <4>3, Zenon
      <4> QED
        BY <3>0, <4>1, <4>4, Zenon
    <3>2. J[k + 1] \in Seq(S)
      BY <2>1, <3>1, ConcatProperties
    <3> QED
      BY <2>1, <3>2
  <2> QED
    BY <2>2, <2>3
<1> HIDE DEF T
<1>4. 0..n \subseteq T
  BY <1>2, <1>3, UpTo
<1> QED
  BY <1>4 DEF T, J

LEMMA JoinedAgrees ==
  ASSUME NEW ss, NEW n \in Nat, NEW i \in 1..n
  PROVE  Joined(First(ss, n))[i] = Joined(First(ss, n + 1))[i]
<1> DEFINE a == First(ss, n)
           b == First(ss, n + 1)
           T == {k \in 0..n : k # 0 => Joined(a)[k] = Joined(b)[k]}
<1>1. /\ Len(a) = n /\ Len(b) = n + 1
      /\ \A k \in 1..n : a[k] = ss[k] /\ b[k] = ss[k]
  BY FirstLen
<1> HIDE DEF a, b
<1>2. 0 \in T
  OBVIOUS
<1>3. ASSUME NEW k \in 0..n - 1, k \in T PROVE k + 1 \in T
  <2>1. k + 1 \in 1..n /\ k + 1 \in 1..n + 1 /\ n + 1 \in Nat /\ a[k + 1] = b[k + 1]
    BY <1>1
  <2>2. Joined(a)[k + 1] = IF k + 1 = 1 THEN a[k + 1] ELSE Joined(a)[k + 1 - 1] \o a[k + 1]
    BY <1>1, <2>1, JoinedAt
  <2>3. Joined(b)[k + 1] = IF k + 1 = 1 THEN b[k + 1] ELSE Joined(b)[k + 1 - 1] \o b[k + 1]
    BY <1>1, <2>1, JoinedAt
  <2>4. k + 1 - 1 = k
    OBVIOUS
  <2>5. k + 1 # 1 => Joined(a)[k] = Joined(b)[k]
    BY <1>3
  <2>6. Joined(a)[k + 1] = Joined(b)[k + 1]
    BY <2>1, <2>2, <2>3, <2>4, <2>5, Zenon
  <2> QED
    BY <2>1, <2>6
<1> HIDE DEF T
<1>4. 0..n \subseteq T
  BY <1>2, <1>3, UpTo
<1> QED
  BY <1>4 DEF T, a, b

LEMMA FlattenNone ==
  ASSUME NEW ss
  PROVE  Flatten(First(ss, 0)) = <<>>
<1>1. First(ss, 0) = <<>> /\ Len(First(ss, 0)) = 0
  BY FirstLen DEF First
<1> QED
  BY <1>1, FlattenIsJoined

LEMMA FlattenFirst ==
  ASSUME NEW ss, NEW S, NEW n \in Nat, \A i \in 1..n : ss[i] \in Seq(S)
  PROVE  Flatten(First(ss, n)) \in Seq(S)
<1>1. CASE n = 0
  <2>1. Flatten(First(ss, 0)) = <<>> /\ <<>> \in Seq(S)
    BY FlattenNone
  <2> QED
    BY <1>1, <2>1, Zenon
<1>2. CASE n # 0
  <2> DEFINE a == First(ss, n)
  <2>1. Len(a) = n /\ \A i \in 1..n : a[i] \in Seq(S)
    BY FirstLen
  <2> HIDE DEF a
  <2>2. Joined(a)[n] \in Seq(S)
    BY <1>2, <2>1, JoinedType
  <2> QED
    BY <1>2, <2>1, <2>2, FlattenIsJoined DEF a
<1> QED
  BY <1>1, <1>2

LEMMA FlattenOneMore ==
  ASSUME NEW ss, NEW S, NEW n \in Nat, \A i \in 1..n + 1 : ss[i] \in Seq(S)
  PROVE  Flatten(First(ss, n + 1)) = Flatten(First(ss, n)) \o ss[n + 1]
<1> DEFINE a == First(ss, n)
           b == First(ss, n + 1)
<1>1. Len(a) = n /\ Len(b) = n + 1 /\ b[n + 1] = ss[n + 1] /\ ss[n + 1] \in Seq(S)
  BY FirstLen
<1>2. Flatten(b) = Joined(b)[n + 1]
  BY <1>1, FlattenIsJoined
<1>3. Joined(b)[n + 1] = IF n + 1 = 1 THEN b[n + 1] ELSE Joined(b)[n + 1 - 1] \o b[n + 1]
  BY <1>1, JoinedAt
<1>4. CASE n = 0
  <2>1. Flatten(a) = <<>>
    BY <1>4, FlattenNone
  <2>2. Flatten(b) = ss[n + 1]
    BY <1>1, <1>2, <1>3, <1>4
  <2> QED
    BY <1>1, <2>1, <2>2, ConcatProperties
<1>5. CASE n # 0
  <2>1. Flatten(a) = Joined(a)[n] /\ Joined(a)[n] = Joined(b)[n]
    BY <1>1, <1>5, FlattenIsJoined, JoinedAgrees
  <2>2. n + 1 # 1 /\ n + 1 - 1 = n
    BY <1>5
  <2> QED
    BY <1>1, <1>2, <1>3, <2>1, <2>2, Zenon
<1> QED
  BY <1>4, <1>5

\* What the first sequences make is how all of them together begin.
LEMMA FlattenBegins ==
  ASSUME NEW ss, NEW S, NEW m \in Nat, NEW n \in 0..m, \A i \in 1..m : ss[i] \in Seq(S)
  PROVE  \E r \in Seq(S) : Flatten(First(ss, m)) = Flatten(First(ss, n)) \o r
<1> DEFINE F(k) == Flatten(First(ss, k))
           T == {k \in Nat : n + k <= m => \E r \in Seq(S) : F(n + k) = F(n) \o r}
<1>1. \A k \in 0..m : F(k) \in Seq(S)
  BY FlattenFirst
<1>2. \A k \in 0..m - 1 : F(k + 1) = F(k) \o ss[k + 1]
  BY FlattenOneMore
<1> HIDE DEF F
<1>3. 0 \in T
  <2>1. F(n) = F(n) \o <<>> /\ <<>> \in Seq(S) /\ n + 0 = n
    BY <1>1, ConcatProperties
  <2> QED
    BY <2>1
<1>4. ASSUME NEW k \in Nat, k \in T PROVE k + 1 \in T
  <2> SUFFICES ASSUME n + (k + 1) <= m
               PROVE  \E r \in Seq(S) : F(n + (k + 1)) = F(n) \o r
    OBVIOUS
  <2>1. PICK r \in Seq(S) : F(n + k) = F(n) \o r
    BY <1>4
  <2>2. /\ n + k \in 0..m - 1 /\ n + (k + 1) = (n + k) + 1
        /\ ss[n + (k + 1)] \in Seq(S) /\ n \in 0..m
    OBVIOUS
  <2>3. F(n + (k + 1)) = (F(n) \o r) \o ss[n + (k + 1)]
    BY <1>2, <2>1, <2>2
  <2>4. /\ F(n) \in Seq(S)
        /\ (F(n) \o r) \o ss[n + (k + 1)] = F(n) \o (r \o ss[n + (k + 1)])
        /\ r \o ss[n + (k + 1)] \in Seq(S)
    <3>1. F(n) \in Seq(S) /\ r \in Seq(S) /\ ss[n + (k + 1)] \in Seq(S)
      BY <1>1, <2>2
    <3>2. (F(n) \o r) \o ss[n + (k + 1)] = F(n) \o (r \o ss[n + (k + 1)])
      <4>1. PICK b \in Seq(S) : b = ss[n + (k + 1)]
        BY <3>1
      <4>2. PICK a \in Seq(S) : a = F(n)
        BY <3>1
      <4>3. (a \o r) \o b = a \o (r \o b)
        BY ConcatAssociative
      <4> QED
        BY <4>1, <4>2, <4>3, Zenon
    <3>3. r \o ss[n + (k + 1)] \in Seq(S)
      BY <3>1, ConcatProperties, Zenon
    <3> QED
      BY <3>1, <3>2, <3>3
  <2> QED
    BY <2>3, <2>4
<1> HIDE DEF T
<1>5. Nat \subseteq T
  BY <1>3, <1>4, SetInduction
<1>6. m - n \in T /\ n + (m - n) = m
  BY <1>5
<1> QED
  BY <1>6 DEF T, F

-----------------------------------------------------------------------------
(***************************************************************************)
(* The decoder.  The recursion of its readers is well founded: each reader *)
(* looks further on in the buffer, or at the same place with a reader that *)
(* looks further on.                                                       *)
(***************************************************************************)
Queries == Readers \X Nat \X Nat

Buffer(s) == Len(s) \in Nat /\ \A i \in 1..Len(s) : s[i][1] = "count" => s[i][2] \in Nat

Rest(s, q) == IF q[2] <= Len(s) THEN Len(s) + 1 - q[2] ELSE 0
Measure(s, q) == 2 * Rest(s, q) + (IF q[1] = "items" THEN 1 ELSE 0)

\* Where result r of query q ends.
Ends(s, q, r) ==
  /\ r.ok \in BOOLEAN /\ r.next \in Nat
  /\ r.ok => /\ r.next >= q[2]
             /\ q[2] <= Len(s) + 1 => r.next <= Len(s) + 1
             /\ q[1] = "value" => q[2] \in 1..Len(s) /\ r.next > q[2]

Agree(s, m, f, g) ==
  \A x \in Queries : Measure(s, x) < m => f[x] = g[x] /\ Ends(s, x, f[x])

LEMMA QueryType ==
  ASSUME NEW q \in Queries
  PROVE  /\ q[1] \in Readers /\ q[2] \in Nat /\ q[3] \in Nat
         /\ q = <<q[1], q[2], q[3]>>
BY DEF Queries

LEMMA MeasureType ==
  ASSUME NEW s, Buffer(s), NEW q \in Queries
  PROVE  Measure(s, q) \in 0..2 * Len(s) + 3
BY QueryType DEF Buffer, Rest, Measure

LEMMA TypedEnds ==
  ASSUME NEW t, NEW r, r.ok \in BOOLEAN, r.next \in Nat
  PROVE  /\ Typed(t, r).ok = r.ok /\ (r.ok => Typed(t, r).next = r.next)
         /\ Typed(t, r).next \in Nat
BY DEF Typed, Got, Throw

LEMMA ConsEnds ==
  ASSUME NEW v, NEW e, NEW r, v.ok \in BOOLEAN, r.ok \in BOOLEAN, r.next \in Nat
  PROVE  /\ Cons(v, e, r).ok = (v.ok /\ r.ok)
         /\ Cons(v, e, r).ok => Cons(v, e, r).next = r.next
         /\ Cons(v, e, r).next \in Nat
BY DEF Cons, Got, Throw

LEMMA ThrowEnds ==
  ASSUME NEW s, NEW q
  PROVE  Ends(s, q, Throw)
BY DEF Throw, Ends

LEMMA GotEnds ==
  ASSUME NEW s, NEW q, NEW v, NEW i \in Nat, i >= q[2],
         q[2] <= Len(s) + 1 => i <= Len(s) + 1,
         q[1] = "value" => q[2] \in 1..Len(s) /\ i > q[2]
  PROVE  Ends(s, q, Got(v, i))
BY DEF Got, Ends

LEMMA ValueReading ==
  ASSUME NEW s, Buffer(s), NEW q \in Queries, q[1] = "value", NEW f, NEW g,
         Agree(s, Measure(s, q), f, g)
  PROVE  /\ readValue(s, q[2], f) = readValue(s, q[2], g)
         /\ Ends(s, q, readValue(s, q[2], f))
<1> DEFINE i == q[2]
           t == s[i][2]
           n == s[i + 1][2]
<1>1. i \in Nat /\ Len(s) \in Nat
  BY QueryType DEF Buffer
<1>2. CASE ~Has(s, i, "tag")
  <2>1. \A h : readValue(s, i, h) = Throw
    BY <1>2 DEF readValue
  <2> QED
    BY <2>1, ThrowEnds, Zenon
<1>3. CASE Has(s, i, "tag")
  <2>1. i \in 1..Len(s)
    BY <1>3 DEF Has
  <2>2. CASE t \in DOMAIN Scalar
    <3>1. \A h : readValue(s, i, h) =
                   IF Has(s, i + 1, Scalar[t]) THEN Got(<<t, s[i + 1][2]>>, i + 2) ELSE Throw
      BY <1>3, <2>2 DEF readValue, Scalar
    <3>2. Has(s, i + 1, Scalar[t]) => i + 2 <= Len(s) + 1
      BY <1>1 DEF Has
    <3>3. CASE Has(s, i + 1, Scalar[t])
      <4>1. Ends(s, q, Got(<<t, s[i + 1][2]>>, i + 2))
        BY <1>1, <2>1, <3>2, <3>3, GotEnds
      <4> QED
        BY <3>1, <3>3, <4>1, Zenon
    <3>4. CASE ~Has(s, i + 1, Scalar[t])
      BY <3>1, <3>4, ThrowEnds, Zenon
    <3> QED
      BY <3>3, <3>4
  <2>3. CASE t = "OBJECT"
    <3>1. \A h : readValue(s, i, h) = Typed(t, h[<<"object", i + 1, 0>>])
      BY <1>3, <2>3 DEF readValue, Scalar
    <3> DEFINE x == <<"object", i + 1, 0>>
    <3>2. x \in Queries /\ Measure(s, x) < Measure(s, q)
      BY <1>1, <2>1 DEF Queries, Readers, Measure, Rest
    <3>3. f[x] = g[x] /\ Ends(s, x, f[x])
      BY <3>2 DEF Agree
    <3> QED
      BY <1>1, <2>1, <3>1, <3>3, TypedEnds DEF Ends
  <2>4. CASE t = "ECMA_ARRAY"
    <3>1. \A h : readValue(s, i, h) =
                   IF Has(s, i + 1, "count") THEN Typed(t, h[<<"array", i + 2, 0>>]) ELSE Throw
      BY <1>3, <2>4 DEF readValue, Scalar
    <3> DEFINE x == <<"array", i + 2, 0>>
    <3>2. x \in Queries /\ Measure(s, x) < Measure(s, q)
      BY <1>1, <2>1 DEF Queries, Readers, Measure, Rest
    <3>3. f[x] = g[x] /\ Ends(s, x, f[x])
      BY <3>2 DEF Agree
    <3>4. Has(s, i + 1, "count") => i + 2 <= Len(s) + 1
      BY <1>1 DEF Has
    <3>5. /\ f[x].ok \in BOOLEAN /\ f[x].next \in Nat
          /\ f[x].ok => f[x].next >= i + 2 /\ (i + 2 <= Len(s) + 1 => f[x].next <= Len(s) + 1)
      BY <3>3 DEF Ends
    <3>6. readValue(s, i, f) = readValue(s, i, g)
      BY <3>1, <3>3
    <3>7. CASE Has(s, i + 1, "count")
      <4>1. readValue(s, i, f) = Typed(t, f[x])
        BY <3>1, <3>7
      <4> QED
        BY <1>1, <2>1, <3>4, <3>5, <3>6, <3>7, <4>1, TypedEnds DEF Ends
    <3>8. CASE ~Has(s, i + 1, "count")
      BY <3>1, <3>8, ThrowEnds, Zenon
    <3> QED
      BY <3>7, <3>8
  <2>5. CASE t = "STRICT_ARRAY"
    <3>1. \A h : readValue(s, i, h) =
                   IF Has(s, i + 1, "count") THEN Typed(t, h[<<"items", i + 2, n>>]) ELSE Throw
      BY <1>3, <2>5 DEF readValue, Scalar
    <3>2. CASE Has(s, i + 1, "count")
      <4> DEFINE x == <<"items", i + 2, n>>
      <4>1. i + 2 <= Len(s) + 1 /\ n \in Nat
        BY <1>1, <3>2 DEF Has, Buffer
      <4>2. x \in Queries /\ Measure(s, x) < Measure(s, q)
        BY <1>1, <2>1, <4>1, SMTT(40) DEF Queries, Readers, Measure, Rest
      <4>3. f[x] = g[x] /\ Ends(s, x, f[x])
        BY <4>2 DEF Agree
      <4>4. /\ f[x].ok \in BOOLEAN /\ f[x].next \in Nat
            /\ f[x].ok => f[x].next >= i + 2 /\ f[x].next <= Len(s) + 1
        BY <4>1, <4>3 DEF Ends
      <4>5. readValue(s, i, f) = Typed(t, f[x]) /\ readValue(s, i, g) = Typed(t, g[x])
        BY <3>1, <3>2
      <4> QED
        BY <1>1, <2>1, <4>3, <4>4, <4>5, TypedEnds DEF Ends
    <3>3. CASE ~Has(s, i + 1, "count")
      BY <3>1, <3>3, ThrowEnds, Zenon
    <3> QED
      BY <3>2, <3>3
  <2>6. CASE t \notin DOMAIN Scalar \cup {"OBJECT", "ECMA_ARRAY", "STRICT_ARRAY"}
    <3>1. \A h : readValue(s, i, h) = Got(Null, i + 1)
      BY <1>3, <2>6 DEF readValue
    <3>2. Ends(s, q, Got(Null, i + 1))
      BY <1>1, <2>1, GotEnds
    <3> QED
      BY <3>1, <3>2, Zenon
  <2> QED
    BY <2>2, <2>3, <2>4, <2>5, <2>6
<1> QED
  BY <1>2, <1>3

LEMMA MembersReading ==
  ASSUME NEW s, Buffer(s), NEW q \in Queries, q[1] \in {"object", "array"}, NEW f, NEW g,
         Agree(s, Measure(s, q), f, g)
  PROVE  /\ readMembers(s, q[2], q[1], f) = readMembers(s, q[2], q[1], g)
         /\ Ends(s, q, readMembers(s, q[2], q[1], f))
<1> DEFINE i == q[2]
           r == q[1]
           x == <<"value", i + 1, 0>>
<1>1. i \in Nat /\ Len(s) \in Nat /\ r \in Readers
  BY QueryType DEF Buffer
<1>2. CASE ~Has(s, i, "string")
  <2>1. \A h : readMembers(s, i, r, h) =
                 IF r = "object" \/ i <= Len(s) THEN Throw ELSE Got(<<>>, i)
    BY <1>2 DEF readMembers
  <2>2. ASSUME ~(r = "object" \/ i <= Len(s))
        PROVE  Ends(s, q, Got(<<>>, i))
    BY <1>1, <2>2, GotEnds
  <2> QED
    BY <2>1, <2>2, ThrowEnds, Zenon
<1>3. CASE Has(s, i, "string") /\ s[i] = EndKey
  <2>1. \A h : readMembers(s, i, r, h) =
                 IF i = Len(s) THEN IF r = "object" THEN Throw ELSE Got(<<>>, i + 1)
                 ELSE IF r = "object" /\ s[i + 1] # ObjectEnd THEN Throw ELSE Got(<<>>, i + 2)
    BY <1>3 DEF readMembers
  <2>2. i \in 1..Len(s)
    BY <1>3 DEF Has
  <2>3. i # Len(s) => Ends(s, q, Got(<<>>, i + 2))
    BY <1>1, <2>2, GotEnds
  <2>4. Ends(s, q, Got(<<>>, i + 1))
    BY <1>1, <2>2, GotEnds
  <2> QED
    BY <2>1, <2>3, <2>4, ThrowEnds, Zenon
<1>4. CASE Has(s, i, "string") /\ s[i] # EndKey
  <2>1. \A h : readMembers(s, i, r, h) =
                 IF h[x].ok THEN Cons(h[x], <<s[i][2], h[x].value>>, h[<<r, h[x].next, 0>>])
                 ELSE Throw
    BY <1>4 DEF readMembers
  <2>2. i \in 1..Len(s)
    BY <1>4 DEF Has
  <2>3. x \in Queries /\ Measure(s, x) < Measure(s, q)
    BY <1>1, <2>2 DEF Queries, Readers, Measure, Rest
  <2>4. f[x] = g[x] /\ Ends(s, x, f[x])
    BY <2>3 DEF Agree
  <2>5. CASE ~f[x].ok
    BY <2>1, <2>4, <2>5, ThrowEnds, Zenon
  <2>6. CASE f[x].ok
    <3> DEFINE y == <<r, f[x].next, 0>>
    <3>1. f[x].ok = TRUE /\ f[x].next \in Nat /\ f[x].next > i + 1 /\ f[x].next <= Len(s) + 1
      BY <1>1, <2>2, <2>4, <2>6 DEF Ends
    <3>2. y \in Queries /\ Measure(s, y) < Measure(s, q)
      BY <1>1, <2>2, <3>1, SMTT(40) DEF Queries, Readers, Measure, Rest
    <3>3. f[y] = g[y] /\ Ends(s, y, f[y])
      BY <3>2 DEF Agree
    <3>4. /\ f[y].ok \in BOOLEAN /\ f[y].next \in Nat
          /\ f[y].ok => f[y].next >= f[x].next /\ f[y].next <= Len(s) + 1
      BY <3>1, <3>3 DEF Ends
    <3>5. /\ readMembers(s, i, r, f) = Cons(f[x], <<s[i][2], f[x].value>>, f[y])
          /\ readMembers(s, i, r, g) = Cons(g[x], <<s[i][2], g[x].value>>, g[y])
      BY <2>1, <2>4, <2>6
    <3> HIDE DEF x, y
    <3> QED
      BY <1>1, <2>2, <2>4, <3>1, <3>3, <3>4, <3>5, ConsEnds DEF Ends
  <2> QED
    BY <2>5, <2>6
<1> QED
  BY <1>2, <1>3, <1>4

LEMMA ItemsReading ==
  ASSUME NEW s, Buffer(s), NEW q \in Queries, q[1] = "items", NEW f, NEW g,
         Agree(s, Measure(s, q), f, g)
  PROVE  /\ readItems(s, q[2], q[3], f) = readItems(s, q[2], q[3], g)
         /\ Ends(s, q, readItems(s, q[2], q[3], f))
<1> DEFINE i == q[2]
           n == q[3]
           x == <<"value", i, 0>>
<1>1. i \in Nat /\ n \in Nat /\ Len(s) \in Nat
  BY QueryType DEF Buffer
<1>2. CASE n = 0
  <2>1. \A h : readItems(s, i, n, h) = Got(<<>>, i)
    BY <1>2 DEF readItems
  <2>2. Ends(s, q, Got(<<>>, i))
    BY <1>1, GotEnds
  <2> QED
    BY <2>1, <2>2, Zenon
<1>3. CASE n # 0
  <2>1. \A h : readItems(s, i, n, h) =
                 IF h[x].ok THEN Cons(h[x], h[x].value, h[<<"items", h[x].next, n - 1>>])
                 ELSE Throw
    BY <1>3 DEF readItems
  <2>3. x \in Queries /\ Measure(s, x) < Measure(s, q)
    BY <1>1 DEF Queries, Readers, Measure, Rest
  <2>4. f[x] = g[x] /\ Ends(s, x, f[x])
    BY <2>3 DEF Agree
  <2>5. CASE ~f[x].ok
    BY <2>1, <2>4, <2>5, ThrowEnds, Zenon
  <2>6. CASE f[x].ok
    <3> DEFINE y == <<"items", f[x].next, n - 1>>
    <3>1. /\ f[x].ok = TRUE /\ f[x].next \in Nat /\ f[x].next > i /\ f[x].next <= Len(s) + 1
          /\ i \in 1..Len(s)
      BY <1>1, <2>4, <2>6 DEF Ends
    <3>2. y \in Queries /\ Measure(s, y) < Measure(s, q)
      <4>1. y \in Queries
        BY <1>1, <1>3, <3>1 DEF Queries, Readers
      <4>2. Rest(s, y) < Rest(s, q) /\ Rest(s, y) \in Nat /\ Rest(s, q) \in Nat
        BY <1>1, <3>1, SMTT(40) DEF Rest
      <4>3. Measure(s, y) = 2 * Rest(s, y) + 1 /\ Measure(s, q) = 2 * Rest(s, q) + 1
        BY DEF Measure
      <4> QED
        BY <4>1, <4>2, <4>3
    <3>3. f[y] = g[y] /\ Ends(s, y, f[y])
      BY <3>2 DEF Agree
    <3>4. /\ f[y].ok \in BOOLEAN /\ f[y].next \in Nat
          /\ f[y].ok => f[y].next >= f[x].next /\ f[y].next <= Len(s) + 1
      BY <3>1, <3>3 DEF Ends
    <3>5. /\ readItems(s, i, n, f) = Cons(f[x], f[x].value, f[y])
          /\ readItems(s, i, n, g) = Cons(g[x], g[x].value, g[y])
      BY <2>1, <2>4, <2>6
    <3> HIDE DEF x, y
    <3> QED
      BY <1>1, <2>4, <3>1, <3>3, <3>4, <3>5, ConsEnds, SMTT(40) DEF Ends
  <2> QED
    BY <2>5, <2>6
<1> QED
  BY <1>2, <1>3

\* What a reader gives depends on queries of smaller measure only.
LEMMA ReadingAgrees ==
  ASSUME NEW s, Buffer(s), NEW q \in Queries, NEW f, NEW g, Agree(s, Measure(s, q), f, g)
  PROVE  Reading(s, q, f) = Reading(s, q, g) /\ Ends(s, q, Reading(s, q, f))
<1>1. CASE q[1] = "value"
  BY <1>1, ValueReading DEF Reading
<1>2. CASE q[1] \in {"object", "array"}
  BY <1>2, MembersReading DEF Reading
<1>3. CASE q[1] = "items"
  BY <1>3, ItemsReading DEF Reading
<1> QED
  BY <1>1, <1>2, <1>3, QueryType DEF Readers

\* The readers exist: stage k knows the results of the queries of measure less
\* than k.
LEMMA ReaderExists ==
  ASSUME NEW s, Buffer(s)
  PROVE  \E f : f = [q \in Queries |-> Reading(s, q, f)]
<1> DEFINE Known(k, f) ==
             \A q \in Queries : Measure(s, q) < k => f[q] = Reading(s, q, f) /\ Ends(s, q, f[q])
           T == {k \in Nat : \E f : Known(k, f)}
<1>0. \A q \in Queries : Measure(s, q) \in 0..2 * Len(s) + 3
  BY MeasureType
<1>1. 0 \in T
  BY <1>0
<1>2. ASSUME NEW k \in Nat, k \in T PROVE k + 1 \in T
  <2>1. PICK f : Known(k, f)
    BY <1>2
  <2> DEFINE g == [q \in Queries |-> IF Measure(s, q) < k THEN f[q] ELSE Reading(s, q, f)]
  <2>2. ASSUME NEW q \in Queries, Measure(s, q) < k + 1
        PROVE  g[q] = Reading(s, q, g) /\ Ends(s, q, g[q])
    <3>1. g[q] = IF Measure(s, q) < k THEN f[q] ELSE Reading(s, q, f)
      OBVIOUS
    <3>2. \A x \in Queries : Measure(s, x) < k => g[x] = f[x]
      OBVIOUS
    <3> HIDE DEF g
    <3>3. Agree(s, Measure(s, q), f, g)
      BY <1>0, <2>1, <2>2, <3>2 DEF Agree
    <3>4. Reading(s, q, f) = Reading(s, q, g) /\ Ends(s, q, Reading(s, q, f))
      BY <3>3, ReadingAgrees
    <3>5. Measure(s, q) < k => f[q] = Reading(s, q, f)
      BY <2>1
    <3> QED
      BY <3>1, <3>4, <3>5, Zenon
  <2> HIDE DEF g
  <2>3. Known(k + 1, g)
    BY <2>2
  <2> QED
    BY <2>3
<1> HIDE DEF Known, T
<1>3. Nat \subseteq T
  BY <1>1, <1>2, SetInduction
<1>4. 2 * Len(s) + 4 \in Nat
  BY DEF Buffer
<1>5. PICK f : Known(2 * Len(s) + 4, f)
  BY <1>3, <1>4 DEF T
<1>6. \A q \in Queries : f[q] = Reading(s, q, f) /\ Ends(s, q, f[q])
  BY <1>0, <1>5 DEF Known, Buffer
<1> DEFINE g == [q \in Queries |-> f[q]]
<1>7. \A q \in Queries : g[q] = f[q]
  OBVIOUS
<1>8. g = [q \in Queries |-> g[q]]
  OBVIOUS
<1> HIDE DEF g
<1>9. \A q \in Queries : g[q] = Reading(s, q, g)
  <2> SUFFICES ASSUME NEW q \in Queries PROVE g[q] = Reading(s, q, g)
    OBVIOUS
  <2>1. Agree(s, Measure(s, q), f, g)
    BY <1>6, <1>7 DEF Agree
  <2> QED
    BY <1>6, <1>7, <2>1, ReadingAgrees
<1> QED
  BY <1>8, <1>9, Zenon

Reader(s) == CHOOSE f : f = [q \in Queries |-> Reading(s, q, f)]

LEMMA ReaderIs ==
  ASSUME NEW s, Buffer(s)
  PROVE  /\ \A q \in Queries : Reader(s)[q] = Reading(s, q, Reader(s))
         /\ \A i : decode(s, i) = Reader(s)[<<"value", i, 0>>]
<1>1. Reader(s) = [q \in Queries |-> Reading(s, q, Reader(s))]
  BY ReaderExists, Zenon DEF Reader
<1>2. \A i : decode(s, i) = Reader(s)[<<"value", i, 0>>]
  BY DEF decode, Reader, Queries
<1> QED
  BY <1>1, <1>2, Zenon

LEMMA ReaderEnds ==
  ASSUME NEW s, Buffer(s), NEW q \in Queries
  PROVE  Ends(s, q, Reader(s)[q])
<1> DEFINE R == Reader(s)
           T == {k \in Nat : \A x \in Queries : Measure(s, x) < k => Ends(s, x, R[x])}
<1>0. \A x \in Queries : Measure(s, x) \in 0..2 * Len(s) + 3
  BY MeasureType
<1>1. \A x \in Queries : R[x] = Reading(s, x, R)
  BY ReaderIs
<1> HIDE DEF R
<1>2. 0 \in T
  BY <1>0
<1>3. ASSUME NEW k \in Nat, k \in T PROVE k + 1 \in T
  <2>1. ASSUME NEW x \in Queries, Measure(s, x) < k + 1 PROVE Ends(s, x, R[x])
    <3>1. Agree(s, Measure(s, x), R, R)
      BY <1>0, <1>3, <2>1 DEF Agree
    <3> QED
      BY <1>1, <3>1, ReadingAgrees
  <2> QED
    BY <2>1
<1> HIDE DEF T
<1>4. Nat \subseteq T
  BY <1>2, <1>3, SetInduction
<1>5. 2 * Len(s) + 4 \in Nat /\ Measure(s, q) < 2 * Len(s) + 4
  BY <1>0 DEF Buffer
<1> QED
  BY <1>4, <1>5 DEF T, R

\* A value that decode returns lies within the buffer and is not empty,
\* whatever the buffer holds: the bounds checks of AMFDecoder's readers.
THEOREM DecoderStaysInside ==
  ASSUME NEW s, Buffer(s), NEW i \in Nat, decode(s, i).ok
  PROVE  i \in 1..Len(s) /\ decode(s, i).next \in i + 1..Len(s) + 1
<1> DEFINE q == <<"value", i, 0>>
<1>1. q \in Queries /\ decode(s, i) = Reader(s)[q]
  BY ReaderIs DEF Queries, Readers
<1>2. Ends(s, q, decode(s, i))
  BY <1>1, ReaderEnds
<1> QED
  BY <1>2 DEF Ends, Buffer

LEMMA DecodeIs ==
  ASSUME NEW s, Buffer(s), NEW i \in Nat
  PROVE  decode(s, i) = readValue(s, i, Reader(s))
<1> DEFINE q == <<"value", i, 0>>
<1>1. q \in Queries /\ decode(s, i) = Reader(s)[q] /\ q[1] = "value" /\ q[2] = i
  BY ReaderIs DEF Queries, Readers
<1>2. Reader(s)[q] = Reading(s, q, Reader(s))
  BY <1>1, ReaderIs
<1> QED
  BY <1>1, <1>2 DEF Reading

\* A number, a string or a boolean is read back.
LEMMA DecodeScalar ==
  ASSUME NEW s, Buffer(s), NEW i \in Nat, NEW t \in DOMAIN Scalar, NEW x,
         i \in 1..Len(s), i + 1 \in 1..Len(s),
         s[i] = <<"tag", t>>, s[i + 1] = <<Scalar[t], x>>
  PROVE  decode(s, i) = Got(<<t, x>>, i + 2)
<1>1. Has(s, i, "tag") /\ s[i][2] = t /\ Has(s, i + 1, Scalar[t]) /\ s[i + 1][2] = x
  BY DEF Has
<1> DEFINE u == s[i][2]
<1>2. Has(s, i, "tag") /\ u \in DOMAIN Scalar
  BY <1>1
<1>3. readValue(s, i, Reader(s)) =
        IF Has(s, i + 1, Scalar[u]) THEN Got(<<u, s[i + 1][2]>>, i + 2) ELSE Throw
  BY <1>2 DEF readValue, Scalar
<1>4. readValue(s, i, Reader(s)) = Got(<<t, x>>, i + 2)
  BY <1>1, <1>3, Zenon
<1> QED
  BY <1>4, DecodeIs

-----------------------------------------------------------------------------
(***************************************************************************)
(* The session and the chunk layer.                                        *)
(***************************************************************************)

\* What a step of the session does to the chunk layer: it begins a message of
\* one of the publisher's four kinds, goes on with one, reads or fails to, hands
\* the message read to the session, or leaves it alone.
LEMMA SessionStep ==
  ASSUME [Next]_vars
  PROVE  \/ SendCommand \/ SendVideo \/ SendOther \/ Announce
         \/ \E c \in ChunkStreams : SendRest(c)
         \/ ReadMessages \/ ReadFails
         \/ handleAMF \/ AMFFails \/ handleVideo \/ Drop \/ HandleGarbled
         \/ HandshakeC1 \/ HandshakeRefused \/ Open \/ ClientHello \/ ClientRead
         \/ UNCHANGED vars
BY DEF Next, Server, Client

LEMMA StreamsThere ==
  /\ ControlStream \in ChunkStreams /\ CommandStream \in ChunkStreams
  /\ VideoStream \in ChunkStreams /\ OtherStream \in ChunkStreams
  /\ ControlStream = 2 /\ CommandStream = 3 /\ VideoStream = 4 /\ OtherStream = 6
BY SessionAssumption DEF ControlStream, CommandStream, VideoStream, OtherStream

LEMMA MessageHandled ==
  ASSUME NEW types, Dispatch(types)
  PROVE  /\ inbox # None /\ inbox # Garbled /\ inbox' = None /\ inbox.type \in types
         /\ UNCHANGED <<out, outSize, wire, csState, inSize, sync, views, sent, got>>
         /\ UNCHANGED clientVars
BY DEF Dispatch, Handled

LEMMA HandlersDispatch ==
  ASSUME handleAMF \/ AMFFails \/ handleVideo \/ Drop \/ HandleGarbled
  PROVE  /\ inbox # None /\ inbox' = None
         /\ UNCHANGED <<out, outSize, wire, csState, inSize, sync, views, sent, got>>
         /\ UNCHANGED clientVars
<1>1. Garbled # None
  BY SessionAssumption
<1> QED
  BY <1>1, MessageHandled DEF handleAMF, AMFFails, handleVideo, Drop, HandleGarbled, Handled

\* The publisher's messages may be sent.
LEMMA PublisherMessages ==
  /\ Len(Commands) \in Nat /\ Len(Pictures) \in Nat /\ Len(Others) \in Nat
  /\ \A i \in 1..Len(Commands) :
       /\ Commands[i] \in [name : Fits, tx : Nat, args : Seq(Units)]
       /\ CommandMessage(Commands[i]) \in Message
  /\ \A i \in 1..Len(Pictures) :
       /\ Pictures[i] \in [timestamp : Nat, sps : Seq(Seq(Units)), pps : Seq(Seq(Units)),
                          nals : Seq(Seq(Units))]
       /\ VideoMessage(Pictures[i]) \in Message
  /\ \A i \in 1..Len(Others) : Others[i] \in Message
<1>1. /\ Commands \in Seq([name : Fits, tx : Nat, args : Seq(Units)])
      /\ Pictures \in Seq([timestamp : Nat, sps : Seq(Seq(Units)), pps : Seq(Seq(Units)),
                           nals : Seq(Seq(Units))])
      /\ Others \in Seq(Message)
  BY PublisherAssumption
<1>2. /\ Len(Commands) \in Nat /\ Len(Pictures) \in Nat /\ Len(Others) \in Nat
      /\ DOMAIN Commands = 1..Len(Commands) /\ DOMAIN Pictures = 1..Len(Pictures)
      /\ DOMAIN Others = 1..Len(Others)
  BY <1>1, LenProperties
<1>3. /\ \A i \in 1..Len(Commands) : CommandMessage(Commands[i]) \in Message
      /\ \A i \in 1..Len(Pictures) : VideoMessage(Pictures[i]) \in Message
  BY <1>2, PublisherAssumption
<1>4. \A i \in 1..Len(Commands) : Commands[i] \in [name : Fits, tx : Nat, args : Seq(Units)]
  BY <1>1, <1>2, ElementOfSeq
<1>5. \A i \in 1..Len(Others) : Others[i] \in Message
  BY <1>1, <1>2, ElementOfSeq
<1>6. \A i \in 1..Len(Pictures) :
        Pictures[i] \in [timestamp : Nat, sps : Seq(Seq(Units)), pps : Seq(Seq(Units)),
                        nals : Seq(Seq(Units))]
  BY <1>1, <1>2, ElementOfSeq
<1> QED
  BY <1>2, <1>3, <1>4, <1>5, <1>6

LEMMA SessionChunkStep ==
  ASSUME asked \in Nat, sentVideo \in Nat, sentOther \in Nat, [Next]_vars
  PROVE  [ChunkNext]_chunkVars
<1>1. CASE SendCommand
  <2>1. PICK f \in 0..3 : Begin(CommandStream, CommandMessage(Commands[asked + 1]), f)
    BY <1>1 DEF SendCommand
  <2>2. asked + 1 \in 1..Len(Commands)
    BY <1>1, PublisherMessages DEF SendCommand
  <2> QED
    BY <2>1, <2>2, StreamsThere, PublisherMessages DEF ChunkNext, Publish
<1>2. CASE SendVideo
  <2>1. PICK f \in 0..3 : Begin(VideoStream, VideoMessage(Pictures[sentVideo + 1]), f)
    BY <1>2 DEF SendVideo
  <2>2. sentVideo + 1 \in 1..Len(Pictures)
    BY <1>2, PublisherMessages DEF SendVideo
  <2> QED
    BY <2>1, <2>2, StreamsThere, PublisherMessages DEF ChunkNext, Publish
<1>3. CASE SendOther
  <2>1. PICK f \in 0..3 : Begin(OtherStream, Others[sentOther + 1], f)
    BY <1>3 DEF SendOther
  <2>2. sentOther + 1 \in 1..Len(Others)
    BY <1>3, PublisherMessages DEF SendOther
  <2> QED
    BY <2>1, <2>2, StreamsThere, PublisherMessages DEF ChunkNext, Publish
<1>4. CASE Announce
  <2>1. PICK m \in Sizes : Begin(ControlStream, m, 0)
    BY <1>4 DEF Announce
  <2>2. m \in Message /\ 0 \in 0..3
    BY PublisherAssumption
  <2> QED
    BY <2>1, <2>2, StreamsThere DEF ChunkNext, Publish
<1>5. CASE \E c \in ChunkStreams : SendRest(c)
  BY <1>5 DEF SendRest, ChunkNext, Publish
<1>6. CASE ReadMessages \/ ReadFails
  BY <1>6 DEF ReadMessages, ReadFails, ChunkNext
<1>7. CASE handleAMF \/ AMFFails \/ handleVideo \/ Drop \/ HandleGarbled
  BY <1>7, HandlersDispatch DEF ChunkNext, Handle, Handled
<1>8. CASE HandshakeC1 \/ HandshakeRefused \/ Open
  <2>1. UNCHANGED chunkVars
    <3>1. HandshakeC1 => UNCHANGED chunkVars
      BY SMT DEF HandshakeC1
    <3>2. HandshakeRefused => UNCHANGED chunkVars
      BY Zenon DEF HandshakeRefused
    <3>3. Open => UNCHANGED chunkVars
      BY SMT DEF Open
    <3> QED
      BY <1>8, <3>1, <3>2, <3>3
  <2> QED
    BY <2>1
<1>9. CASE ClientHello \/ ClientRead
  <2>1. UNCHANGED chunkVars
    BY <1>9, SMT DEF ClientHello, ClientRead
  <2> QED
    BY <2>1
<1>10. CASE UNCHANGED vars
  <2>1. UNCHANGED chunkVars
    BY <1>10, SMT DEF vars
  <2> QED
    BY <2>1
<1> QED
  BY <1>1, <1>2, <1>3, <1>4, <1>5, <1>6, <1>7, <1>8, <1>9, <1>10, SessionStep, Zenon

-----------------------------------------------------------------------------
(***************************************************************************)
(* What the server writes.                                                 *)
(***************************************************************************)
\* The strings it writes: type tags, and texts.
Strings == Texts \cup {"STRING", "NUMBER", "NULL", "OBJECT", "OBJECT_END", ""}

Contents == Strings \cup Nat \cup {u[2] : u \in Units}
Fields == {"tag", "string", "double", "size"} \X Contents

\* The payloads that begin with string n and number tx.
Begun(n, tx) ==
  {p \in Seq(Fields) :
     /\ Len(p) >= 4
     /\ p[1] = <<"tag", "STRING">> /\ p[2] = <<"string", n>>
     /\ p[3] = <<"tag", "NUMBER">> /\ p[4] = <<"double", tx>>}

\* What a command read whole says.
Said(r) ==
  IF r.type # "COMMAND_AMF0" THEN <<>>
  ELSE <<<<Name(r.payload).value[2], TxValue(r.payload).value[2]>>>>

Sayings == Contents \X Contents

DownTypes == {"S012", "WINDOW_ACK_SIZE", "SET_PEER_BANDWIDTH", "USER_CONTROL", "COMMAND_AMF0",
              SetChunkSize}

Downs ==
  {r \in [type : DownTypes, payload : Seq(Fields), cut : {OutSize}] :
     /\ IF r.type = "COMMAND_AMF0"
        THEN \E n \in Contents, tx \in Contents : r.payload \in Begun(n, tx)
        ELSE Len(r.payload) <= 1
     /\ r.type = SetChunkSize => SizeIn(r.payload) = OutSize}

LEMMA ShortSeqs ==
  ASSUME NEW S, NEW x \in S, NEW y \in S
  PROVE  <<x>> \in Seq(S) /\ <<x, y>> \in Seq(S)
OBVIOUS

LEMMA JoinOne ==
  ASSUME NEW a, NEW b
  PROVE  <<a>> \o <<b>> = <<a, b>>
<1> DEFINE S == {a, b}
           c == <<a>> \o <<b>>
           d == <<a, b>>
<1>1. <<a>> \in Seq(S) /\ <<b>> \in Seq(S) /\ d \in Seq(S)
  OBVIOUS
<1>2. Len(<<a>>) = 1 /\ Len(<<b>>) = 1 /\ Len(d) = 2 /\ d[1] = a /\ d[2] = b
      /\ <<a>>[1] = a /\ <<b>>[1] = b
  OBVIOUS
<1>3. /\ c \in Seq(S) /\ Len(c) = 2 /\ c[1] = a /\ c[2] = b
  BY <1>1, <1>2, ConcatProperties
<1> HIDE DEF c, d, S
<1> QED
  <2>1. \A i \in 1..Len(c) : c[i] = d[i]
    <3>1. \A i \in 1..2 : i = 1 \/ i = 2
      OBVIOUS
    <3> QED
      BY <1>2, <1>3, <3>1
  <2>2. c = d
    BY <1>1, <1>2, <1>3, <2>1, SeqEqual
  <2> QED
    BY <2>2 DEF c, d

\* A string that fits comes out whole, as a value and as a key.
LEMMA FitWritten ==
  ASSUME NEW x \in Fits
  PROVE  /\ encodeString(x) = <<<<"tag", "STRING">>, <<"string", x>>>>
         /\ encodeKey(x) = <<<<"string", x>>>>
<1>1. writeShortString(x) = <<<<"string", x>>>>
  BY Zenon DEF writeShortString, Fits
<1>2. <<<<"tag", "STRING">>>> \o <<<<"string", x>>>> = <<<<"tag", "STRING">>, <<"string", x>>>>
  BY JoinOne
<1> QED
  BY <1>1, <1>2, Zenon DEF encodeString, encodeKey

LEMMA NumberType ==
  ASSUME NEW x \in Contents
  PROVE  /\ encodeNumber(x) \in Seq(Fields)
         /\ encodeNumber(x) = <<<<"tag", "NUMBER">>, <<"double", x>>>>
<1>1. encodeNumber(x) = <<<<"tag", "NUMBER">>, <<"double", x>>>>
  BY DEF encodeNumber, encodeScalar, Scalar
<1>2. <<"tag", "NUMBER">> \in Fields /\ <<"double", x>> \in Fields
  <2>1. "NUMBER" \in Contents
    BY DEF Contents, Strings
  <2> QED
    BY <2>1 DEF Fields
<1> HIDE DEF Fields
<1> QED
  BY <1>1, <1>2

LEMMA EncodedType ==
  ASSUME NEW x \in Texts
  PROVE  /\ encodeString(x) \in Seq(Fields) /\ encodeKey(x) \in Seq(Fields)
         /\ encodeString(x) = <<<<"tag", "STRING">>, <<"string", x>>>>
<1>1. /\ encodeString(x) = <<<<"tag", "STRING">>, <<"string", x>>>>
      /\ encodeKey(x) = <<<<"string", x>>>>
  BY SessionAssumption, FitWritten
<1>2. <<"tag", "STRING">> \in Fields /\ <<"string", x>> \in Fields
  <2>1. "STRING" \in Contents /\ x \in Contents
    BY DEF Contents, Strings
  <2> QED
    BY <2>1 DEF Fields
<1> HIDE DEF Fields
<1> QED
  BY <1>1, <1>2

LEMMA MarkersType ==
  /\ beginObject \in Seq(Fields) /\ endObject \in Seq(Fields) /\ encodeNull \in Seq(Fields)
<1>1. /\ <<"tag", "OBJECT">> \in Fields /\ <<"tag", "NULL">> \in Fields
      /\ <<"string", "">> \in Fields /\ <<"tag", "OBJECT_END">> \in Fields
  <2>1. "OBJECT" \in Contents /\ "NULL" \in Contents /\ "" \in Contents /\ "OBJECT_END" \in Contents
    BY DEF Contents, Strings
  <2> QED
    BY <2>1 DEF Fields
<1> HIDE DEF Fields
<1>2. beginObject \in Seq(Fields)
  BY <1>1, ShortSeqs, Zenon DEF beginObject
<1>3. endObject \in Seq(Fields)
  BY <1>1, ShortSeqs, Zenon DEF endObject, EndKey, ObjectEnd
<1>4. encodeNull \in Seq(Fields)
  BY <1>1, ShortSeqs, Zenon DEF encodeNull
<1> QED
  BY <1>2, <1>3, <1>4

LEMMA JoinType ==
  \A a, b \in Seq(Fields) : a \o b \in Seq(Fields)
BY ConcatProperties

LEMMA BegunWith ==
  ASSUME NEW n \in Texts, NEW tx \in Contents
  PROVE  encodeString(n) \o encodeNumber(tx) \in Begun(n, tx)
<1> DEFINE a == encodeString(n)
           b == encodeNumber(tx)
<1>1. /\ a \in Seq(Fields) /\ b \in Seq(Fields)
      /\ Len(a) = 2 /\ a[1] = <<"tag", "STRING">> /\ a[2] = <<"string", n>>
      /\ Len(b) = 2 /\ b[1] = <<"tag", "NUMBER">> /\ b[2] = <<"double", tx>>
  BY EncodedType, NumberType
<1> HIDE DEF a, b
<1>2. /\ a \o b \in Seq(Fields) /\ Len(a \o b) = Len(a) + Len(b)
      /\ \A i \in 1..Len(a) + Len(b) : (a \o b)[i] = IF i <= Len(a) THEN a[i] ELSE b[i - Len(a)]
  BY <1>1, ConcatProperties
<1>3. (a \o b)[1] = a[1] /\ (a \o b)[2] = a[2] /\ (a \o b)[3] = b[1] /\ (a \o b)[4] = b[2]
  BY <1>1, <1>2
<1>4. Len(a \o b) >= 4
  BY <1>1, <1>2
<1>5. a \o b \in Begun(n, tx)
  BY <1>1, <1>2, <1>3, <1>4, Zenon DEF Begun
<1> QED
  BY <1>5 DEF a, b

LEMMA BegunOn ==
  ASSUME NEW n, NEW tx
  PROVE  \A p \in Begun(n, tx), r \in Seq(Fields) : p \o r \in Begun(n, tx)
<1> SUFFICES ASSUME NEW p \in Begun(n, tx), NEW r \in Seq(Fields)
             PROVE  p \o r \in Begun(n, tx)
  OBVIOUS
<1>1. p \in Seq(Fields) /\ Len(p) >= 4
  BY DEF Begun
<1>2. /\ p \o r \in Seq(Fields) /\ Len(p \o r) = Len(p) + Len(r)
      /\ \A i \in 1..Len(p) + Len(r) : (p \o r)[i] = IF i <= Len(p) THEN p[i] ELSE r[i - Len(p)]
  BY <1>1, ConcatProperties
<1>3. Len(p) \in Nat /\ Len(r) \in Nat
  BY <1>1, LenProperties
<1>4. \A i \in 1..4 : (p \o r)[i] = p[i]
  BY <1>1, <1>2, <1>3
<1>5. Len(p \o r) >= 4
  BY <1>1, <1>2, <1>3
<1> DEFINE q == p \o r
<1> HIDE DEF q
<1>6. q[1] = p[1] /\ q[2] = p[2] /\ q[3] = p[3] /\ q[4] = p[4]
  <2>1. \A i \in 1..4 : q[i] = p[i]
    BY <1>4 DEF q
  <2>2. 1 \in 1..4 /\ 2 \in 1..4 /\ 3 \in 1..4 /\ 4 \in 1..4
    OBVIOUS
  <2> QED
    BY <2>1, <2>2, Zenon
<1> QED
  BY <1>2, <1>5, <1>6, Zenon DEF Begun, q

\* A payload that begins with a string and a number is decoded to them.
LEMMA OpeningReads ==
  ASSUME NEW n, NEW tx, NEW p, Buffer(p), Len(p) >= 4,
         p[1] = <<"tag", "STRING">>, p[2] = <<"string", n>>,
         p[3] = <<"tag", "NUMBER">>, p[4] = <<"double", tx>>
  PROVE  /\ Name(p) = Got(<<"STRING", n>>, 3) /\ TxValue(p) = Got(<<"NUMBER", tx>>, 5)
         /\ HasTx(p)
<1>1. Len(p) \in Nat
  BY DEF Buffer
<1>2. /\ "STRING" \in DOMAIN Scalar /\ Scalar["STRING"] = "string"
      /\ "NUMBER" \in DOMAIN Scalar /\ Scalar["NUMBER"] = "double"
  BY DEF Scalar
<1>3. decode(p, 1) = Got(<<"STRING", n>>, 1 + 2)
  <2>1. 1 \in 1..Len(p) /\ 1 + 1 \in 1..Len(p) /\ 1 + 1 = 2 /\ 1 \in Nat
    BY <1>1
  <2> QED
    BY <1>2, <2>1, DecodeScalar
<1>4. decode(p, 3) = Got(<<"NUMBER", tx>>, 3 + 2)
  <2>1. 3 \in 1..Len(p) /\ 3 + 1 \in 1..Len(p) /\ 3 + 1 = 4 /\ 3 \in Nat
    BY <1>1
  <2> QED
    BY <1>2, <2>1, DecodeScalar
<1>5. Name(p) = Got(<<"STRING", n>>, 3)
  BY <1>3 DEF Name
<1>6. Name(p).next = 3
  BY <1>5 DEF Got
<1> QED
  BY <1>1, <1>4, <1>5, <1>6 DEF TxValue, HasTx

LEMMA BegunReads ==
  ASSUME NEW n, NEW tx, NEW p \in Begun(n, tx)
  PROVE  /\ Name(p) = Got(<<"STRING", n>>, 3) /\ TxValue(p) = Got(<<"NUMBER", tx>>, 5)
         /\ HasTx(p)
<1>1. /\ p \in Seq(Fields) /\ Len(p) \in Nat /\ Len(p) >= 4
      /\ \A i \in 1..Len(p) : p[i] \in Fields
      /\ p[1] = <<"tag", "STRING">> /\ p[2] = <<"string", n>>
      /\ p[3] = <<"tag", "NUMBER">> /\ p[4] = <<"double", tx>>
  BY LenProperties, ElementOfSeq DEF Begun
<1>2. Buffer(p)
  BY <1>1 DEF Buffer, Fields
<1> QED
  BY <1>1, <1>2, OpeningReads

\* The commands the server writes are such payloads, whatever tx is.
LEMMA ConnectBegun ==
  ASSUME NEW tx \in Contents
  PROVE  \E p \in Begun("_result", tx) : sendConnectResult(tx) = sendCommand(p)
<1> DEFINE B == Begun("_result", tx)
           F == Seq(Fields)
           Result == encodeString("_result") \o encodeNumber(tx)
           k1 == Member("fmsVer", encodeString("FMS/3,5,3,824"))
           k2 == Member("capabilities", encodeNumber(31))
           k3 == Member("mode", encodeNumber(1))
           k4 == Member("level", encodeString("status"))
           k5 == Member("code", encodeString("NetConnection.Connect.Success"))
           k6 == Member("description", encodeString("Connection succeeded."))
           k7 == Member("data", beginObject \o Member("version", encodeString("3,5,3,824")) \o endObject)
           k8 == Member("clientid", encodeNumber(1))
           k9 == Member("objectEncoding", encodeNumber(0))
           p1 == Result \o beginObject \o k1 \o k2 \o k3 \o endObject
           p2 == p1 \o beginObject \o k4 \o k5 \o k6 \o k7 \o k8 \o k9 \o endObject
<1>1. \A a, b \in F : a \o b \in F
  BY JoinType
<1>2. \A p \in B, r \in F : p \o r \in B
  BY BegunOn
<1>3. Result \in B
  <2>1. "_result" \in Texts
    BY DEF Texts
  <2> QED
    BY <2>1, BegunWith
<1>4. beginObject \in F /\ endObject \in F
  BY MarkersType
<1>5. k1 \in F /\ k2 \in F /\ k3 \in F /\ k4 \in F /\ k5 \in F /\ k6 \in F /\ k8 \in F /\ k9 \in F
  <2>1. /\ encodeString("FMS/3,5,3,824") \in F /\ encodeString("status") \in F
        /\ encodeString("NetConnection.Connect.Success") \in F
        /\ encodeString("Connection succeeded.") \in F
    BY EncodedType DEF Texts
  <2>3. encodeNumber(31) \in F /\ encodeNumber(1) \in F /\ encodeNumber(0) \in F
    BY NumberType DEF Contents
  <2>2. /\ encodeKey("fmsVer") \in F /\ encodeKey("capabilities") \in F /\ encodeKey("mode") \in F
        /\ encodeKey("level") \in F /\ encodeKey("code") \in F /\ encodeKey("description") \in F
        /\ encodeKey("clientid") \in F /\ encodeKey("objectEncoding") \in F
    BY EncodedType DEF Texts
  <2> HIDE DEF F
  <2> QED
    BY <1>1, <2>1, <2>2, <2>3 DEF Member
<1>6. k7 \in F
  <2>1. encodeKey("data") \in F /\ encodeKey("version") \in F /\ encodeString("3,5,3,824") \in F
    BY EncodedType DEF Texts
  <2> HIDE DEF F
  <2> QED
    BY <1>1, <1>4, <2>1 DEF Member
<1>7. sendConnectResult(tx) = sendCommand(p2)
  BY DEF sendConnectResult
<1> HIDE DEF B, F, Result, k1, k2, k3, k4, k5, k6, k7, k8, k9
<1>8. p1 \in B
  BY <1>2, <1>3, <1>4, <1>5
<1> HIDE DEF p1
<1>9. p2 \in B
  BY <1>2, <1>4, <1>5, <1>6, <1>8
<1> QED
  BY <1>7, <1>9 DEF B

LEMMA CreateStreamBegun ==
  ASSUME NEW tx \in Contents
  PROVE  \E p \in Begun("_result", tx) : sendCreateStreamResult(tx) = sendCommand(p)
<1> DEFINE B == Begun("_result", tx)
           F == Seq(Fields)
           p == encodeString("_result") \o encodeNumber(tx) \o encodeNull \o encodeNumber(1)
<1>1. \A q \in B, r \in F : q \o r \in B
  BY BegunOn
<1>2. encodeString("_result") \o encodeNumber(tx) \in B /\ encodeNull \in F /\ encodeNumber(1) \in F
  <2>1. "_result" \in Texts /\ 1 \in Contents
    BY DEF Contents, Texts
  <2> QED
    BY <2>1, BegunWith, MarkersType, NumberType
<1>3. p \in B
  <2> HIDE DEF B, F
  <2> QED
    BY <1>1, <1>2
<1> QED
  BY <1>3 DEF sendCreateStreamResult

LEMMA EmptyBegun ==
  ASSUME NEW tx \in Contents
  PROVE  \E p \in Begun("_result", tx) : sendEmptyResult(tx) = sendCommand(p)
<1> DEFINE B == Begun("_result", tx)
           F == Seq(Fields)
           p == encodeString("_result") \o encodeNumber(tx) \o encodeNull \o encodeNull
<1>1. \A q \in B, r \in F : q \o r \in B
  BY BegunOn
<1>2. encodeString("_result") \o encodeNumber(tx) \in B /\ encodeNull \in F
  <2>1. "_result" \in Texts
    BY DEF Texts
  <2> QED
    BY <2>1, BegunWith, MarkersType
<1>3. p \in B
  <2> HIDE DEF B, F
  <2> QED
    BY <1>1, <1>2
<1> QED
  BY <1>3 DEF sendEmptyResult

LEMMA PublishBegun ==
  \E p \in Begun("onStatus", 0) : sendPublishStart = sendCommand(p)
<1> DEFINE B == Begun("onStatus", 0)
           F == Seq(Fields)
           k1 == Member("level", encodeString("status"))
           k2 == Member("code", encodeString("NetStream.Publish.Start"))
           k3 == Member("description", encodeString("Publishing."))
           p == encodeString("onStatus") \o encodeNumber(0) \o encodeNull \o beginObject
                \o k1 \o k2 \o k3 \o endObject
<1>1. \A q \in B, r \in F : q \o r \in B
  BY BegunOn
<1>2. encodeString("onStatus") \o encodeNumber(0) \in B
  <2>1. "onStatus" \in Texts /\ 0 \in Contents
    BY DEF Contents, Texts
  <2> QED
    BY <2>1, BegunWith
<1>3. k1 \in F /\ k2 \in F /\ k3 \in F
  <2>1. /\ encodeKey("level") \in F /\ encodeKey("code") \in F /\ encodeKey("description") \in F
        /\ encodeString("status") \in F /\ encodeString("NetStream.Publish.Start") \in F
        /\ encodeString("Publishing.") \in F
    BY EncodedType DEF Texts
  <2> HIDE DEF F
  <2> QED
    BY <2>1, JoinType DEF Member, F
<1>4. encodeNull \in F /\ beginObject \in F /\ endObject \in F
  BY MarkersType
<1>5. p \in B
  <2> HIDE DEF B, F, k1, k2, k3
  <2> QED
    BY <1>1, <1>2, <1>3, <1>4
<1> QED
  BY <1>5 DEF sendPublishStart

LEMMA CommandDown ==
  ASSUME NEW n \in Contents, NEW tx \in Contents, NEW p \in Begun(n, tx),
         NEW r, r = message("COMMAND_AMF0", p)
  PROVE  r \in Downs /\ r.type = "COMMAND_AMF0" /\ Said(r) = <<<<n, tx>>>>
<1>1. r.type = "COMMAND_AMF0" /\ r.payload = p /\ r.type # SetChunkSize
  BY SessionAssumption DEF message, AmfTypes
<1>2. r \in [type : DownTypes, payload : Seq(Fields), cut : {OutSize}]
  <2>1. p \in Seq(Fields) /\ "COMMAND_AMF0" \in DownTypes
    BY DEF Begun, DownTypes
  <2> QED
    BY <2>1 DEF message
<1>3. r \in Downs
  BY <1>1, <1>2, Zenon DEF Downs
<1>4. Name(p).value = <<"STRING", n>> /\ TxValue(p).value = <<"NUMBER", tx>>
  BY BegunReads DEF Got
<1> QED
  BY <1>1, <1>3, <1>4 DEF Said

LEMMA ControlDown ==
  ASSUME NEW type \in DownTypes, type # "COMMAND_AMF0", NEW x \in Contents,
         type = SetChunkSize => x = OutSize,
         NEW r, r = message(type, <<<<"size", x>>>>)
  PROVE  r \in Downs /\ r.type = type /\ Said(r) = <<>>
<1>1. /\ r.type = type /\ r.payload = <<<<"size", x>>>> /\ r.cut = OutSize
      /\ Len(r.payload) = 1 /\ SizeIn(r.payload) = x
  BY DEF message, SizeIn
<1>2. r \in [type : DownTypes, payload : Seq(Fields), cut : {OutSize}]
  <2>1. <<"size", x>> \in Fields
    BY DEF Fields
  <2>2. <<<<"size", x>>>> \in Seq(Fields)
    BY <2>1, ShortSeqs
  <2> QED
    BY <2>2 DEF message
<1>3. r \in Downs
  BY <1>1, <1>2 DEF Downs
<1> QED
  BY <1>1, <1>3 DEF Said

-----------------------------------------------------------------------------
(***************************************************************************)
(* What a queue of messages says.                                          *)
(***************************************************************************)
Says(d) == Flatten([i \in DOMAIN d |-> Said(d[i])])

LEMMA SaidType ==
  ASSUME NEW r \in Downs
  PROVE  Said(r) \in Seq(Sayings)
<1>1. CASE r.type # "COMMAND_AMF0"
  BY <1>1 DEF Said
<1>2. CASE r.type = "COMMAND_AMF0"
  <2>1. PICK n \in Contents, tx \in Contents : r.payload \in Begun(n, tx)
    BY <1>2 DEF Downs
  <2>2. Name(r.payload).value = <<"STRING", n>> /\ TxValue(r.payload).value = <<"NUMBER", tx>>
    BY <2>1, BegunReads DEF Got
  <2>3. Said(r) = <<<<n, tx>>>> /\ <<n, tx>> \in Sayings
    BY <1>2, <2>2 DEF Said, Sayings
  <2> QED
    BY <2>3, ShortSeqs
<1> QED
  BY <1>1, <1>2

LEMMA SaysFirst ==
  ASSUME NEW d \in Seq(Downs)
  PROVE  /\ Len(d) \in Nat /\ DOMAIN d = 1..Len(d)
         /\ \A i \in 1..Len(d) : d[i] \in Downs
         /\ \A ss : (\A i \in 1..Len(d) : ss[i] = Said(d[i])) =>
              Says(d) = Flatten(First(ss, Len(d)))
<1>1. /\ Len(d) \in Nat /\ DOMAIN d = 1..Len(d)
      /\ \A i \in 1..Len(d) : d[i] \in Downs
  BY LenProperties, ElementOfSeq
<1>2. ASSUME NEW ss, \A i \in 1..Len(d) : ss[i] = Said(d[i])
      PROVE  First(ss, Len(d)) = [i \in DOMAIN d |-> Said(d[i])]
  BY <1>1, <1>2 DEF First
<1> QED
  BY <1>1, <1>2 DEF Says

LEMMA SaysType ==
  ASSUME NEW d \in Seq(Downs)
  PROVE  Says(d) \in Seq(Sayings)
<1> DEFINE ss == [i \in 1..Len(d) |-> Said(d[i])]
<1>1. Says(d) = Flatten(First(ss, Len(d))) /\ Len(d) \in Nat
  BY SaysFirst
<1>2. \A i \in 1..Len(d) : ss[i] \in Seq(Sayings)
  BY SaysFirst, SaidType
<1> HIDE DEF ss
<1> QED
  BY <1>1, <1>2, FlattenFirst

LEMMA SaysNone == Says(<<>>) = <<>>
<1> DEFINE d == <<>>
           ss == [i \in 1..0 |-> Said(d[i])]
<1>1. d \in Seq(Downs) /\ Len(d) = 0
  OBVIOUS
<1>2. Says(d) = Flatten(First(ss, 0))
  BY <1>1, SaysFirst
<1> QED
  BY <1>2, FlattenNone

LEMMA SaysAppend ==
  ASSUME NEW d \in Seq(Downs), NEW r \in Downs
  PROVE  Append(d, r) \in Seq(Downs) /\ Says(Append(d, r)) = Says(d) \o Said(r)
<1> DEFINE e == Append(d, r)
           n == Len(d)
           ss == [i \in 1..n + 1 |-> Said(e[i])]
<1>1. /\ e \in Seq(Downs) /\ n \in Nat /\ Len(e) = n + 1 /\ e[n + 1] = r
      /\ \A i \in 1..n : e[i] = d[i]
  BY AppendProperties, LenProperties
<1> HIDE DEF e
<1>2. /\ \A i \in 1..n + 1 : ss[i] \in Seq(Sayings)
      /\ ss[n + 1] = Said(r)
  BY <1>1, SaysFirst, SaidType
<1>3. Says(e) = Flatten(First(ss, n + 1))
  BY <1>1, SaysFirst
<1>4. Says(d) = Flatten(First(ss, n))
  BY <1>1, SaysFirst
<1> HIDE DEF ss, n
<1>5. Says(e) = Says(d) \o Said(r)
  BY <1>1, <1>2, <1>3, <1>4, FlattenOneMore
<1> QED
  BY <1>1, <1>5 DEF e

LEMMA FlattenFront ==
  ASSUME NEW ss, NEW S, NEW n \in Nat, \A i \in 1..n + 1 : ss[i] \in Seq(S),
         NEW tt, \A i \in 1..n : tt[i] = ss[i + 1]
  PROVE  Flatten(First(ss, n + 1)) = ss[1] \o Flatten(First(tt, n))
<1> DEFINE F(k) == Flatten(First(ss, k))
           G(k) == Flatten(First(tt, k))
           T == {k \in 0..n : F(k + 1) = ss[1] \o G(k)}
<1>1. /\ \A k \in 0..n : F(k + 1) = F(k) \o ss[k + 1]
      /\ F(0) = <<>>
  BY FlattenOneMore, FlattenNone
<1>2. /\ \A k \in 0..n : G(k) \in Seq(S)
      /\ G(0) = <<>>
  BY FlattenFirst, FlattenNone
<1>3. \A k \in 0..n - 1 : G(k + 1) = G(k) \o tt[k + 1]
  <2> SUFFICES ASSUME NEW k \in 0..n - 1 PROVE G(k + 1) = G(k) \o tt[k + 1]
    OBVIOUS
  <2>1. k \in Nat /\ \A i \in 1..k + 1 : tt[i] \in Seq(S)
    OBVIOUS
  <2>2. Flatten(First(tt, k + 1)) = Flatten(First(tt, k)) \o tt[k + 1]
    BY <2>1, FlattenOneMore
  <2> QED
    BY <2>2
<1> HIDE DEF F, G
<1>4. 0 \in T
  <2>0. 0 \in 0..n /\ 0 + 1 = 1 /\ ss[1] \in Seq(S)
    OBVIOUS
  <2>1. F(0 + 1) = <<>> \o ss[0 + 1] /\ 0 + 1 = 1 /\ ss[1] \in Seq(S)
    BY <1>1, <2>0, Zenon
  <2>2. <<>> \o ss[1] = ss[1] /\ ss[1] \o <<>> = ss[1]
    BY <2>1, ConcatEmptySeq
  <2>3. F(0 + 1) = ss[1] \o G(0)
    BY <1>2, <2>1, <2>2, Zenon
  <2> QED
    BY <2>3
<1>5. ASSUME NEW k \in 0..n - 1, k \in T PROVE k + 1 \in T
  <2>0. k + 1 \in 0..n /\ k + 1 \in 1..n /\ k \in 0..n - 1 /\ F(k + 1) = ss[1] \o G(k)
    BY <1>5
  <2>1. /\ F(k + 1) = ss[1] \o G(k) /\ k + 1 \in 0..n
        /\ F((k + 1) + 1) = F(k + 1) \o ss[(k + 1) + 1]
        /\ G(k + 1) = G(k) \o ss[(k + 1) + 1]
    <3>1. tt[k + 1] = ss[(k + 1) + 1]
      BY <2>0
    <3>2. F((k + 1) + 1) = F(k + 1) \o ss[(k + 1) + 1]
      BY <1>1, <2>0, Zenon
    <3>3. G(k + 1) = G(k) \o tt[k + 1]
      BY <1>3, <2>0, Zenon
    <3> QED
      BY <2>0, <3>1, <3>2, <3>3, Zenon
  <2>2. ss[1] \in Seq(S) /\ G(k) \in Seq(S) /\ ss[(k + 1) + 1] \in Seq(S)
    BY <1>2
  <2>3. PICK a, b, c \in Seq(S) : a = ss[1] /\ b = G(k) /\ c = ss[(k + 1) + 1]
    BY <2>2
  <2>4. (a \o b) \o c = a \o (b \o c)
    BY ConcatAssociative
  <2>5. F((k + 1) + 1) = ss[1] \o G(k + 1)
    BY <2>1, <2>3, <2>4, Zenon
  <2> QED
    BY <2>1, <2>5
<1> HIDE DEF T
<1>6. 0..n \subseteq T
  BY <1>4, <1>5, UpTo
<1> QED
  BY <1>6 DEF T, F, G

LEMMA SaysTail ==
  ASSUME NEW d \in Seq(Downs), d # <<>>
  PROVE  /\ Head(d) \in Downs /\ Tail(d) \in Seq(Downs)
         /\ Says(d) = Said(Head(d)) \o Says(Tail(d))
<1> DEFINE e == Tail(d)
<1>1. /\ Head(d) \in Downs /\ Head(d) = d[1] /\ e \in Seq(Downs)
      /\ Len(d) \in Nat /\ Len(d) # 0 /\ Len(e) = Len(d) - 1
      /\ \A i \in 1..Len(e) : e[i] = d[i + 1]
  BY HeadTailProperties, LenProperties, EmptySeq
<1> HIDE DEF e
<1>2. PICK n \in Nat : n = Len(e) /\ n + 1 = Len(d)
  BY <1>1
<1> DEFINE ss == [i \in 1..n + 1 |-> Said(d[i])]
           tt == [i \in 1..n |-> Said(e[i])]
<1>3. /\ \A i \in 1..n + 1 : ss[i] \in Seq(Sayings)
      /\ \A i \in 1..n : tt[i] = ss[i + 1]
      /\ ss[1] = Said(Head(d))
  BY <1>1, <1>2, SaysFirst, SaidType, SMTT(40)
<1>4. Says(d) = Flatten(First(ss, n + 1))
  BY <1>2, SaysFirst
<1>5. Says(e) = Flatten(First(tt, n))
  BY <1>1, <1>2, SaysFirst
<1> HIDE DEF ss, tt
<1>6. Says(d) = Said(Head(d)) \o Says(e)
  BY <1>3, <1>4, <1>5, FlattenFront
<1> QED
  BY <1>1, <1>6 DEF e

\* What an answer says.
AnswerSaid(cmd, tx) ==
  CASE cmd = "publish" -> <<<<"onStatus", 0>>>>
    [] cmd \in {"connect", "createStream"} \/ (cmd \in Requests /\ tx > 0) -> <<<<"_result", tx>>>>
    [] OTHER -> <<>>

\* e is d with further messages.
Extends(e, d) ==
  /\ e \in Seq(Downs) /\ Len(d) <= Len(e)
  /\ \A i \in 1..Len(d) : e[i] = d[i]

LEMMA ExtendsAppend ==
  ASSUME NEW d \in Seq(Downs), NEW e, Extends(e, d), NEW r \in Downs
  PROVE  Extends(Append(e, r), d)
<1>1. e \in Seq(Downs) /\ Len(e) \in Nat /\ Len(d) \in Nat /\ Len(d) <= Len(e)
  BY LenProperties DEF Extends
<1>2. /\ Append(e, r) \in Seq(Downs) /\ Len(Append(e, r)) = Len(e) + 1
      /\ \A i \in 1..Len(e) : Append(e, r)[i] = e[i]
  BY <1>1, AppendProperties
<1> QED
  BY <1>1, <1>2 DEF Extends

LEMMA SendOne ==
  ASSUME NEW d \in Seq(Downs), NEW r \in Downs
  PROVE  Extends(d \o <<r>>, d) /\ Says(d \o <<r>>) = Says(d) \o Said(r)
<1>1. d \o <<r>> = Append(d, r)
  BY AppendIsConcat
<1>2. Extends(d, d)
  BY LenProperties DEF Extends
<1> QED
  BY <1>1, <1>2, ExtendsAppend, SaysAppend

LEMMA SendTwo ==
  ASSUME NEW d \in Seq(Downs), NEW a \in Downs, NEW b \in Downs
  PROVE  /\ Extends(d \o (<<a>> \o <<b>>), d)
         /\ Says(d \o (<<a>> \o <<b>>)) = (Says(d) \o Said(a)) \o Said(b)
<1>1. <<a>> \in Seq(Downs) /\ <<b>> \in Seq(Downs)
  BY ShortSeqs
<1>2. d \o (<<a>> \o <<b>>) = (d \o <<a>>) \o <<b>>
  BY <1>1, ConcatAssociative
<1>3. d \o <<a>> = Append(d, a) /\ Append(d, a) \in Seq(Downs)
  BY AppendIsConcat, AppendProperties
<1>4. Append(d, a) \o <<b>> = Append(Append(d, a), b)
  BY <1>3, AppendIsConcat
<1>5. Extends(d, d)
  BY LenProperties DEF Extends
<1>6. Extends(Append(Append(d, a), b), d)
  BY <1>3, <1>5, ExtendsAppend
<1>7. Says(Append(Append(d, a), b)) = (Says(d) \o Said(a)) \o Said(b)
  BY <1>3, SaysAppend
<1> QED
  BY <1>2, <1>3, <1>4, <1>6, <1>7

LEMMA UserControlDown ==
  ASSUME NEW x \in Contents
  PROVE  \E r \in Downs : sendUserControl(x) = <<r>> /\ Said(r) = <<>>
<1> DEFINE r == message("USER_CONTROL", <<<<"size", x>>>>)
<1>1. "USER_CONTROL" \in DownTypes /\ "USER_CONTROL" # "COMMAND_AMF0" /\ "USER_CONTROL" # SetChunkSize
  BY SessionAssumption DEF DownTypes
<1>2. r \in Downs /\ Said(r) = <<>>
  BY <1>1, ControlDown
<1> QED
  BY <1>2 DEF sendUserControl, sendControl

LEMMA AnswerSends ==
  ASSUME NEW cmd, NEW tx \in Contents, NEW d \in Seq(Downs), NEW e, e = d \o Answer(cmd, tx)
  PROVE  /\ Extends(e, d)
         /\ Says(e) = Says(d) \o AnswerSaid(cmd, tx)
         /\ cmd \notin Answered => e = d /\ AnswerSaid(cmd, tx) = <<>>
<1>0. /\ "_result" \in Contents /\ "onStatus" \in Contents /\ 0 \in Contents /\ 1 \in Contents
      /\ Says(d) \in Seq(Sayings)
  BY SaysType DEF Contents, Strings, Texts
<1>1. CASE cmd = "connect"
  <2>1. Answer(cmd, tx) = sendConnectResult(tx) \o sendUserControl(0)
    BY <1>1 DEF Answer, Requests
  <2>2. PICK p \in Begun("_result", tx) : sendConnectResult(tx) = sendCommand(p)
    BY ConnectBegun
  <2>3. PICK a : a = message("COMMAND_AMF0", p)
    OBVIOUS
  <2>4. a \in Downs /\ Said(a) = <<<<"_result", tx>>>> /\ sendConnectResult(tx) = <<a>>
    BY <1>0, <2>2, <2>3, CommandDown DEF sendCommand
  <2>5. PICK b \in Downs : sendUserControl(0) = <<b>> /\ Said(b) = <<>>
    BY <1>0, UserControlDown
  <2>6. AnswerSaid(cmd, tx) = <<<<"_result", tx>>>> /\ cmd \in Answered
    BY <1>1 DEF AnswerSaid, Answered
  <2>7. Extends(e, d) /\ Says(e) = (Says(d) \o Said(a)) \o Said(b)
    <3>1. e = d \o (<<a>> \o <<b>>)
      BY <2>1, <2>4, <2>5
    <3> QED
      BY <2>4, <2>5, <3>1, SendTwo
  <2>8. (Says(d) \o Said(a)) \o <<>> = Says(d) \o Said(a)
    BY <1>0, <2>4, SaidType, ConcatProperties, ConcatEmptySeq
  <2> QED
    BY <2>4, <2>5, <2>6, <2>7, <2>8, Zenon
<1>2. CASE cmd = "createStream"
  <2>1. Answer(cmd, tx) = sendCreateStreamResult(tx)
    BY <1>2 DEF Answer, Requests
  <2>2. PICK p \in Begun("_result", tx) : sendCreateStreamResult(tx) = sendCommand(p)
    BY CreateStreamBegun
  <2>3. PICK a : a = message("COMMAND_AMF0", p)
    OBVIOUS
  <2>4. a \in Downs /\ Said(a) = <<<<"_result", tx>>>> /\ sendCreateStreamResult(tx) = <<a>>
    BY <1>0, <2>2, <2>3, CommandDown DEF sendCommand
  <2>5. AnswerSaid(cmd, tx) = <<<<"_result", tx>>>> /\ cmd \in Answered
    BY <1>2 DEF AnswerSaid, Answered
  <2> QED
    BY <2>1, <2>4, <2>5, SendOne
<1>3. CASE cmd = "publish"
  <2>1. Answer(cmd, tx) = sendUserControl(1) \o sendPublishStart
    BY <1>3 DEF Answer, Requests
  <2>2. PICK p \in Begun("onStatus", 0) : sendPublishStart = sendCommand(p)
    BY PublishBegun
  <2>3. PICK b : b = message("COMMAND_AMF0", p)
    OBVIOUS
  <2>4. b \in Downs /\ Said(b) = <<<<"onStatus", 0>>>> /\ sendPublishStart = <<b>>
    BY <1>0, <2>2, <2>3, CommandDown DEF sendCommand
  <2>5. PICK a \in Downs : sendUserControl(1) = <<a>> /\ Said(a) = <<>>
    BY <1>0, UserControlDown
  <2>6. AnswerSaid(cmd, tx) = <<<<"onStatus", 0>>>> /\ cmd \in Answered
    BY <1>3 DEF AnswerSaid, Answered, Requests
  <2>7. Extends(e, d) /\ Says(e) = (Says(d) \o Said(a)) \o Said(b)
    <3>1. e = d \o (<<a>> \o <<b>>)
      BY <2>1, <2>4, <2>5
    <3> QED
      BY <2>4, <2>5, <3>1, SendTwo
  <2>8. Says(d) \o <<>> = Says(d)
    BY <1>0, ConcatEmptySeq
  <2> QED
    BY <2>4, <2>5, <2>6, <2>7, <2>8, Zenon
<1>4. CASE cmd \in Requests /\ tx > 0
  <2>1. Answer(cmd, tx) = sendEmptyResult(tx)
    BY <1>4 DEF Answer, Requests
  <2>2. PICK p \in Begun("_result", tx) : sendEmptyResult(tx) = sendCommand(p)
    BY EmptyBegun
  <2>3. PICK a : a = message("COMMAND_AMF0", p)
    OBVIOUS
  <2>4. a \in Downs /\ Said(a) = <<<<"_result", tx>>>> /\ sendEmptyResult(tx) = <<a>>
    BY <1>0, <2>2, <2>3, CommandDown DEF sendCommand
  <2>5. AnswerSaid(cmd, tx) = <<<<"_result", tx>>>> /\ cmd \in Answered
    BY <1>4 DEF AnswerSaid, Answered, Requests
  <2> QED
    BY <2>1, <2>4, <2>5, SendOne
<1>5. CASE cmd \notin {"connect", "createStream", "publish"} /\ ~(cmd \in Requests /\ tx > 0)
  <2>1. Answer(cmd, tx) = <<>> /\ AnswerSaid(cmd, tx) = <<>>
    BY <1>5 DEF Answer, AnswerSaid
  <2>2. d \o <<>> = d /\ Says(d) \o <<>> = Says(d) /\ Extends(d, d)
    BY <1>0, ConcatEmptySeq, LenProperties DEF Extends
  <2> QED
    BY <2>1, <2>2
<1> QED
  BY <1>1, <1>2, <1>3, <1>4, <1>5

-----------------------------------------------------------------------------
(***************************************************************************)
(* The conversation.  A client that still reads with its own chunk size is *)
(* told the server's before it comes to a command: until then all it finds *)
(* in the queue is of one chunk for both.                                  *)
(***************************************************************************)
Announces(d, n) == \E j \in 1..n : d[j].type = SetChunkSize

Readable(d, size) ==
  \A i \in 1..Len(d) : d[i].type = "COMMAND_AMF0" => size = OutSize \/ Announces(d, i - 1)

Base ==
  /\ TypeOK
  /\ phase # "closed" => errCount <= Retries
  /\ inbox \in Records \cup {None, Garbled}
  /\ heard \in Seq(Sayings)
  /\ down \in Seq(Downs)
  /\ phase = "open" => clientSize = OutSize \/ Announces(down, Len(down))
  /\ Readable(down, clientSize)

\* What the client has heard and will hear.
Spoken == heard \o Says(down)

LEMMA ConstantsType ==
  /\ OutSize \in Nat /\ OutSize > 0 /\ ClientSize \in Nat /\ ClientSize > 0
  /\ Retries \in Nat /\ Resizes \in Nat /\ Garbled # None /\ Garbled \notin Records
  /\ Len(Commands) \in Nat /\ Len(Pictures) \in Nat /\ Len(Others) \in Nat
  /\ OutSize \in Contents
BY SessionAssumption, PublisherMessages DEF Positive, Contents

\* A longer queue announces and is readable where it was; what is new in it is
\* readable if the size is announced by then.
LEMMA ReadableOn ==
  ASSUME NEW d \in Seq(Downs), NEW e, Extends(e, d), NEW size, Readable(d, size),
         size = OutSize \/ Announces(d, Len(d))
                        \/ \A i \in Len(d) + 1..Len(e) : e[i].type # "COMMAND_AMF0"
  PROVE  Readable(e, size)
<1>1. Len(d) \in Nat /\ Len(e) \in Nat /\ Len(d) <= Len(e) /\ \A i \in 1..Len(d) : e[i] = d[i]
  BY LenProperties DEF Extends
<1> SUFFICES ASSUME NEW i \in 1..Len(e), e[i].type = "COMMAND_AMF0", size # OutSize
             PROVE  Announces(e, i - 1)
  BY DEF Readable
<1>2. CASE i <= Len(d)
  <2>1. i \in 1..Len(d) /\ Announces(d, i - 1)
    BY <1>1, <1>2 DEF Readable
  <2> QED
    BY <1>1, <2>1 DEF Announces
<1>3. CASE i > Len(d)
  <2>1. Announces(d, Len(d))
    BY <1>1, <1>3
  <2> QED
    BY <1>1, <1>3, <2>1 DEF Announces
<1> QED
  BY <1>1, <1>2, <1>3

LEMMA AnnouncesOn ==
  ASSUME NEW d \in Seq(Downs), NEW e, Extends(e, d), Announces(d, Len(d))
  PROVE  Announces(e, Len(e))
<1>1. Len(d) \in Nat /\ Len(e) \in Nat /\ Len(d) <= Len(e) /\ \A i \in 1..Len(d) : e[i] = d[i]
  BY LenProperties DEF Extends
<1> QED
  BY <1>1 DEF Announces

LEMMA HandshakeKeeps ==
  ASSUME Base, HandshakeC1
  PROVE  Base' /\ Spoken' = Spoken
<1> DEFINE r == message("S012", <<>>)
<1>1. phase = "C0" /\ phase' = "C2" /\ down' = down \o <<r>>
  BY DEF HandshakeC1, sendMessage
<1>2. UNCHANGED <<chunkVars, clientVars, publishing, frames, errCount>>
  BY DEF HandshakeC1
<1>3. UNCHANGED <<inbox, hello, clientSize, heard, asked, sentVideo, sentOther, resized,
                  publishing, errCount>>
  BY <1>2 DEF chunkVars, clientVars
<1>4. r \in Downs /\ Said(r) = <<>> /\ r.type # "COMMAND_AMF0"
  <2>1. r.type = "S012" /\ r.payload = <<>> /\ r.cut = OutSize /\ r.type # SetChunkSize
    BY SessionAssumption DEF message
  <2>2. r \in [type : DownTypes, payload : Seq(Fields), cut : {OutSize}]
    BY DEF message, DownTypes
  <2> QED
    BY <2>1, <2>2 DEF Downs, Said
<1> HIDE DEF r
<1>5. Extends(down', down) /\ Says(down') = Says(down) \o <<>>
  BY <1>1, <1>4, SendOne DEF Base
<1>6. down \in Seq(Downs) /\ Says(down) \o <<>> = Says(down) /\ <<r>> \in Seq(Downs)
  BY <1>4, SaysType, ConcatEmptySeq, ShortSeqs DEF Base
<1>7. \A i \in Len(down) + 1..Len(down') : down'[i].type # "COMMAND_AMF0"
  BY <1>1, <1>4, <1>6, ConcatProperties
<1>8. Readable(down', clientSize)
  BY <1>5, <1>6, <1>7, ReadableOn DEF Base
<1>9. Base'
  <2>1. TypeOK'
    BY <1>1, <1>3 DEF Base, TypeOK
  <2> QED
    BY <1>1, <1>3, <1>5, <1>8, <2>1 DEF Base, Extends
<1> QED
  BY <1>3, <1>5, <1>6, <1>9 DEF Spoken

LEMMA OpenKeeps ==
  ASSUME Base, Open
  PROVE  Base' /\ Spoken' = Spoken
<1> DEFINE a == message("WINDOW_ACK_SIZE", <<<<"size", 2500000>>>>)
           b == message("SET_PEER_BANDWIDTH", <<<<"size", 2500000>>>>)
           c == message(SetChunkSize, <<<<"size", OutSize>>>>)
           e == down \o (<<a>> \o <<b>>)
<1>1. phase' = "open" /\ down' = down \o ((<<a>> \o <<b>>) \o <<c>>)
  BY DEF Open, sendMessage, sendControl
<1>2. UNCHANGED <<chunkVars, clientVars, publishing, frames, errCount>>
  BY DEF Open
<1>3. UNCHANGED <<inbox, hello, clientSize, heard, asked, sentVideo, sentOther, resized,
                  publishing, errCount>>
  BY <1>2 DEF chunkVars, clientVars
<1>4. /\ a \in Downs /\ Said(a) = <<>> /\ a.type # "COMMAND_AMF0"
      /\ b \in Downs /\ Said(b) = <<>> /\ b.type # "COMMAND_AMF0"
      /\ c \in Downs /\ Said(c) = <<>> /\ c.type # "COMMAND_AMF0" /\ c.type = SetChunkSize
  <2>1. /\ "WINDOW_ACK_SIZE" \in DownTypes /\ "SET_PEER_BANDWIDTH" \in DownTypes
        /\ SetChunkSize \in DownTypes
        /\ "WINDOW_ACK_SIZE" # SetChunkSize /\ "SET_PEER_BANDWIDTH" # SetChunkSize
        /\ "COMMAND_AMF0" # SetChunkSize
        /\ 2500000 \in Contents /\ OutSize \in Contents
    BY SessionAssumption, ConstantsType DEF DownTypes, AmfTypes, Contents
  <2>2. a \in Downs /\ Said(a) = <<>> /\ a.type = "WINDOW_ACK_SIZE"
    BY <2>1, ControlDown
  <2>3. b \in Downs /\ Said(b) = <<>> /\ b.type = "SET_PEER_BANDWIDTH"
    BY <2>1, ControlDown
  <2>4. c \in Downs /\ Said(c) = <<>> /\ c.type = SetChunkSize
    BY <2>1, ControlDown
  <2> QED
    BY <2>1, <2>2, <2>3, <2>4
<1> HIDE DEF a, b, c
<1>5. /\ down \in Seq(Downs) /\ <<c>> \in Seq(Downs) /\ <<a>> \o <<b>> \in Seq(Downs)
      /\ Len(<<a>> \o <<b>>) = 2 /\ (<<a>> \o <<b>>)[1] = a /\ (<<a>> \o <<b>>)[2] = b
      /\ Says(down) \in Seq(Sayings)
  <2>1. <<a>> \in Seq(Downs) /\ <<b>> \in Seq(Downs) /\ <<c>> \in Seq(Downs)
    BY <1>4, ShortSeqs
  <2>2. /\ Len(<<a>> \o <<b>>) = 2 /\ (<<a>> \o <<b>>)[1] = a /\ (<<a>> \o <<b>>)[2] = b
        /\ <<a>> \o <<b>> \in Seq(Downs)
    BY <2>1, ConcatProperties
  <2>3. down \in Seq(Downs) /\ Says(down) \in Seq(Sayings)
    BY SaysType DEF Base
  <2> QED
    BY <2>1, <2>2, <2>3, Zenon
<1>6. down' = e \o <<c>>
  BY <1>1, <1>5, ConcatAssociative
<1>7. Extends(e, down) /\ Says(e) = (Says(down) \o <<>>) \o <<>>
  <2>1. Extends(e, down) /\ Says(e) = (Says(down) \o Said(a)) \o Said(b)
    BY <1>4, <1>5, SendTwo
  <2> QED
    BY <1>4, <2>1, Zenon
<1>8. Extends(down', e) /\ Says(down') = Says(e) \o <<>> /\ e \in Seq(Downs)
  <2>1. e \in Seq(Downs)
    BY <1>7 DEF Extends
  <2>2. Extends(e \o <<c>>, e) /\ Says(e \o <<c>>) = Says(e) \o Said(c)
    BY <1>4, <2>1, SendOne
  <2> QED
    BY <1>4, <1>6, <2>1, <2>2, Zenon
<1>9. Says(down') = Says(down)
  BY <1>5, <1>7, <1>8, ConcatEmptySeq
<1> HIDE DEF e
<1>10. /\ Len(down) \in Nat /\ Len(e) = Len(down) + 2 /\ Len(down') = Len(down) + 3
       /\ e[Len(down) + 1] = a /\ e[Len(down) + 2] = b /\ down'[Len(down) + 3] = c
  <2>1. Len(e) = Len(down) + 2 /\ e[Len(down) + 1] = a /\ e[Len(down) + 2] = b /\ Len(down) \in Nat
    BY <1>5, ConcatProperties, LenProperties DEF e
  <2> QED
    BY <1>5, <1>6, <1>8, <2>1, ConcatProperties
<1>11. Extends(down', down)
  BY <1>7, <1>8, <1>10 DEF Extends
<1>12. \A i \in Len(down) + 1..Len(down') : down'[i].type # "COMMAND_AMF0"
  <2>1. down'[Len(down) + 1] = a /\ down'[Len(down) + 2] = b
    BY <1>8, <1>10 DEF Extends
  <2> QED
    BY <1>4, <1>10, <2>1
<1>13. Readable(down', clientSize)
  BY <1>5, <1>11, <1>12, ReadableOn DEF Base
<1>14. Announces(down', Len(down'))
  BY <1>4, <1>10 DEF Announces
<1>15. Base'
  <2>1. TypeOK'
    BY <1>1, <1>3 DEF Base, TypeOK
  <2>2. phase # "closed"
    BY DEF Open
  <2> QED
    BY <1>1, <1>3, <1>11, <1>13, <1>14, <2>1, <2>2 DEF Base, Extends
<1> QED
  BY <1>3, <1>9, <1>15 DEF Spoken

\* What is left of the queue once its head is read.
LEMMA ReadableAfter ==
  ASSUME NEW d \in Seq(Downs), d # <<>>, NEW size, Readable(d, size),
         NEW next, next = IF Head(d).type = SetChunkSize THEN OutSize ELSE size
  PROVE  /\ Readable(Tail(d), next)
         /\ size = OutSize \/ Announces(d, Len(d)) =>
              next = OutSize \/ Announces(Tail(d), Len(Tail(d)))
         /\ Head(d).type = "COMMAND_AMF0" => size = OutSize
<1> DEFINE e == Tail(d)
<1>1. /\ Head(d) = d[1] /\ Len(d) \in Nat /\ Len(d) > 0 /\ Len(e) = Len(d) - 1
      /\ \A i \in 1..Len(e) : e[i] = d[i + 1]
  BY HeadTailProperties, LenProperties, EmptySeq
<1> HIDE DEF e
<1>2. ASSUME NEW i \in 0..Len(e), Announces(d, i + 1), next # OutSize
      PROVE  Announces(e, i)
  <2>1. PICK j \in 1..i + 1 : d[j].type = SetChunkSize
    BY <1>2 DEF Announces
  <2>2. j # 1
    BY <1>1, <1>2, <2>1
  <2>3. j - 1 \in 1..i /\ j - 1 \in 1..Len(e) /\ e[j - 1] = d[(j - 1) + 1] /\ (j - 1) + 1 = j
    BY <1>1, <2>2
  <2> QED
    BY <2>1, <2>3 DEF Announces
<1>3. Readable(e, next)
  <2> SUFFICES ASSUME NEW i \in 1..Len(e), e[i].type = "COMMAND_AMF0", next # OutSize
               PROVE  Announces(e, i - 1)
    BY DEF Readable
  <2>1. i + 1 \in 1..Len(d) /\ d[i + 1].type = "COMMAND_AMF0" /\ i - 1 \in 0..Len(e)
        /\ (i + 1) - 1 = (i - 1) + 1
    BY <1>1
  <2>2. size # OutSize
    OBVIOUS
  <2>3. Announces(d, (i + 1) - 1)
    BY <2>1, <2>2 DEF Readable
  <2> QED
    BY <1>2, <2>1, <2>3
<1>4. size = OutSize \/ Announces(d, Len(d)) => next = OutSize \/ Announces(e, Len(e))
  <2>1. Len(e) \in 0..Len(e) /\ Len(e) + 1 = Len(d)
    BY <1>1
  <2> QED
    BY <1>2, <2>1
<1>5. Head(d).type = "COMMAND_AMF0" => size = OutSize
  <2> SUFFICES ASSUME d[1].type = "COMMAND_AMF0", size # OutSize PROVE FALSE
    BY <1>1
  <2>1. Announces(d, 1 - 1)
    BY <1>1 DEF Readable
  <2> QED
    BY <2>1 DEF Announces
<1> QED
  BY <1>3, <1>4, <1>5 DEF e

LEMMA ClientHelloKeeps ==
  ASSUME Base, ClientHello
  PROVE  Base' /\ Spoken' = Spoken
<1>1. down # <<>> /\ Head(down).type = "S012" /\ down' = Tail(down) /\ hello' = "C2"
  BY DEF ClientHello
<1>2. UNCHANGED <<inbox, phase, clientSize, heard, asked, sentVideo, sentOther, resized,
                  publishing, errCount>>
  BY DEF ClientHello, chunkVars, serverVars
<1>3. Said(Head(down)) = <<>> /\ Head(down).type # SetChunkSize
  BY <1>1, SessionAssumption DEF Said
<1>4. Tail(down) \in Seq(Downs) /\ Says(down) = Said(Head(down)) \o Says(Tail(down))
  BY <1>1, SaysTail DEF Base
<1>5. Says(down) = Says(down')
  <2>1. Says(down') \in Seq(Sayings)
    BY <1>1, <1>4, SaysType
  <2>2. <<>> \o Says(down') = Says(down')
    BY <2>1, ConcatEmptySeq
  <2> QED
    BY <1>1, <1>3, <1>4, <2>2, Zenon
<1>6. /\ Readable(down', clientSize)
      /\ clientSize = OutSize \/ Announces(down, Len(down)) =>
           clientSize = OutSize \/ Announces(down', Len(down'))
  BY <1>1, <1>3, ReadableAfter DEF Base
<1>7. Base'
  <2>1. TypeOK'
    BY <1>1, <1>2 DEF Base, TypeOK
  <2> QED
    BY <1>1, <1>2, <1>4, <1>6, <2>1 DEF Base
<1> QED
  BY <1>2, <1>5, <1>7 DEF Spoken

\* The client puts together what the server sent.
LEMMA HeadUnderstood ==
  ASSUME Base, down # <<>>
  PROVE  Understood(Head(down)) = Said(Head(down))
<1> DEFINE r == Head(down)
<1>1. r \in Downs /\ (r.type = "COMMAND_AMF0" => clientSize = OutSize)
  <2>1. PICK next : next = IF Head(down).type = SetChunkSize THEN OutSize ELSE clientSize
    OBVIOUS
  <2> QED
    BY <2>1, ReadableAfter, SaysTail DEF Base
<1>2. r.cut = OutSize /\ r.payload \in Seq(Fields)
      /\ (r.type # "COMMAND_AMF0" => Len(r.payload) <= 1)
  BY <1>1 DEF Downs
<1> HIDE DEF r
<1>3. Len(r.payload) \in Nat /\ clientSize \in Nat /\ clientSize > 0 /\ OutSize \in Nat /\ OutSize > 0
  BY <1>2, LenProperties, ConstantsType DEF Base, TypeOK
<1>4. Whole(r)
  <2>1. CASE r.type = "COMMAND_AMF0"
    BY <1>1, <1>2, <2>1 DEF Whole
  <2>2. CASE r.type # "COMMAND_AMF0"
    BY <1>2, <1>3, <2>2 DEF Whole, MinOf
  <2> QED
    BY <2>1, <2>2
<1> QED
  BY <1>4 DEF Understood, Said, r

LEMMA ClientReadKeeps ==
  ASSUME Base, ClientRead
  PROVE  Base' /\ Spoken' = Spoken
<1> DEFINE r == Head(down)
           rest == Tail(down)
<1>1. /\ down # <<>> /\ down' = rest
      /\ clientSize' = (IF r.type = SetChunkSize THEN SizeIn(r.payload) ELSE clientSize)
      /\ heard' = heard \o Understood(r)
  BY DEF ClientRead
<1>2. UNCHANGED <<inbox, phase, hello, asked, sentVideo, sentOther, resized, publishing, errCount>>
  BY DEF ClientRead, chunkVars, serverVars
<1>3. r \in Downs /\ rest \in Seq(Downs) /\ Says(down) = Said(r) \o Says(rest)
  BY <1>1, SaysTail DEF Base
<1>4. heard' = heard \o Said(r)
  BY <1>1, HeadUnderstood
<1>5. clientSize' = IF r.type = SetChunkSize THEN OutSize ELSE clientSize
  BY <1>1, <1>3 DEF Downs
<1>6. Said(r) \in Seq(Sayings) /\ Says(rest) \in Seq(Sayings) /\ heard \in Seq(Sayings)
  BY <1>3, SaidType, SaysType DEF Base
<1>7. /\ Readable(rest, clientSize')
      /\ clientSize = OutSize \/ Announces(down, Len(down)) =>
           clientSize' = OutSize \/ Announces(rest, Len(rest))
  BY <1>1, <1>5, ReadableAfter DEF Base
<1> HIDE DEF r, rest
<1>8. heard' \in Seq(Sayings) /\ (heard \o Said(r)) \o Says(rest) = heard \o (Said(r) \o Says(rest))
  BY <1>4, <1>6, ConcatProperties, ConcatAssociative
<1>9. Spoken' = Spoken
  BY <1>1, <1>3, <1>4, <1>8, Zenon DEF Spoken
<1>10. Base'
  <2>1. TypeOK'
    BY <1>1, <1>2, <1>5 DEF Base, TypeOK
  <2> QED
    BY <1>1, <1>2, <1>3, <1>7, <1>8, <2>1 DEF Base
<1> QED
  BY <1>9, <1>10

\* A number decoded is a number that was there.
LEMMA DecodeNumber ==
  ASSUME NEW s, Buffer(s), NEW i \in Nat, decode(s, i).value[1] = "NUMBER"
  PROVE  i + 1 \in 1..Len(s) /\ decode(s, i).value[2] = s[i + 1][2]
<1> DEFINE t == s[i][2]
           read == Reader(s)
<1>1. decode(s, i) = readValue(s, i, read)
  BY DecodeIs
<1>2. Throw.value[1] = "NULL" /\ Null[1] = "NULL"
  BY DEF Throw, Null
<1> HIDE DEF read
<1>3. Has(s, i, "tag")
  <2> SUFFICES ASSUME ~Has(s, i, "tag") PROVE FALSE
    OBVIOUS
  <2>1. readValue(s, i, read) = Throw
    BY DEF readValue
  <2> QED
    BY <1>1, <1>2, <2>1
<1>4. ASSUME NEW r, readValue(s, i, read) = Typed(t, r) PROVE t = "NUMBER"
  <2>1. CASE r.ok
    BY <1>1, <1>4, <2>1 DEF Typed, Got
  <2>2. CASE ~r.ok
    BY <1>1, <1>2, <1>4, <2>2 DEF Typed
  <2> QED
    BY <2>1, <2>2
<1>5. CASE t \in DOMAIN Scalar
  <2>1. readValue(s, i, read) =
          IF Has(s, i + 1, Scalar[t]) THEN Got(<<t, s[i + 1][2]>>, i + 2) ELSE Throw
    BY <1>3, <1>5 DEF readValue, Scalar
  <2>2. Has(s, i + 1, Scalar[t])
    BY <1>1, <1>2, <2>1, Zenon
  <2> QED
    BY <1>1, <2>1, <2>2 DEF Got, Has
<1>6. CASE t = "OBJECT"
  <2>1. readValue(s, i, read) = Typed(t, read[<<"object", i + 1, 0>>])
    BY <1>3, <1>6 DEF readValue, Scalar
  <2> QED
    BY <1>4, <1>6, <2>1
<1>7. CASE t = "ECMA_ARRAY"
  <2>1. readValue(s, i, read) =
          IF Has(s, i + 1, "count") THEN Typed(t, read[<<"array", i + 2, 0>>]) ELSE Throw
    BY <1>3, <1>7 DEF readValue, Scalar
  <2>2. Has(s, i + 1, "count")
    BY <1>1, <1>2, <2>1, Zenon
  <2> QED
    BY <1>4, <1>7, <2>1, <2>2
<1>8. CASE t = "STRICT_ARRAY"
  <2>1. readValue(s, i, read) =
          IF Has(s, i + 1, "count") THEN Typed(t, read[<<"items", i + 2, s[i + 1][2]>>]) ELSE Throw
    BY <1>3, <1>8 DEF readValue, Scalar
  <2>2. Has(s, i + 1, "count")
    BY <1>1, <1>2, <2>1, Zenon
  <2> QED
    BY <1>4, <1>8, <2>1, <2>2
<1>9. CASE t \notin DOMAIN Scalar \cup {"OBJECT", "ECMA_ARRAY", "STRICT_ARRAY"}
  <2>1. readValue(s, i, read) = Got(Null, i + 1)
    BY <1>3, <1>9 DEF readValue
  <2> QED
    BY <1>1, <1>2, <2>1 DEF Got
<1> QED
  BY <1>5, <1>6, <1>7, <1>8, <1>9

LEMMA PayloadBuffer ==
  ASSUME NEW p \in Seq(Units)
  PROVE  Buffer(p) /\ \A i \in 1..Len(p) : p[i] \in Units
BY LenProperties, ElementOfSeq, SessionAssumption DEF Buffer

LEMMA TxIdType ==
  ASSUME NEW p \in Seq(Units), ~Fails(p)
  PROVE  TxId(p) \in Contents
<1> DEFINE i == Name(p).next
<1>1. Buffer(p) /\ \A j \in 1..Len(p) : p[j] \in Units
  BY PayloadBuffer
<1>2. Name(p).ok /\ Name(p) = decode(p, 1)
  BY DEF Fails, Name
<1>3. i \in Nat
  <2>1. i \in 1 + 1..Len(p) + 1 /\ Len(p) \in Nat
    BY <1>1, <1>2, DecoderStaysInside DEF Buffer
  <2> QED
    BY <2>1
<1>4. 0 \in Contents
  BY DEF Contents
<1>5. TxValue(p) = decode(p, i)
  BY DEF TxValue
<1> HIDE DEF i
<1>6. CASE TxValue(p).value[1] = "NUMBER"
  <2>1. i + 1 \in 1..Len(p) /\ TxValue(p).value[2] = p[i + 1][2]
    BY <1>1, <1>3, <1>5, <1>6, DecodeNumber
  <2>2. p[i + 1] \in Units
    BY <1>1, <2>1
  <2>3. TxValue(p).value[2] \in Contents
    BY <2>1, <2>2 DEF Contents
  <2> QED
    BY <1>4, <2>3 DEF TxId
<1> QED
  BY <1>4, <1>6 DEF TxId

LEMMA HandleAMFKeeps ==
  ASSUME Base, handleAMF
  PROVE  /\ Base'
         /\ Spoken' = Spoken \o AnswerSaid(Command(inbox.payload), TxId(inbox.payload))
<1> DEFINE p == inbox.payload
           said == AnswerSaid(Command(p), TxId(p))
<1>1. /\ phase = "open" /\ inbox' = None
      /\ UNCHANGED <<hello, clientSize, heard, asked, sentVideo, sentOther, resized, phase, errCount>>
      /\ publishing' = (publishing \/ Command(p) = "publish")
      /\ ~Fails(p)
      /\ down' = down \o Answer(Command(p), TxId(p))
  BY DEF handleAMF, Dispatch, Handled, clientVars, sendMessage
<1>2. p \in Seq(Units)
  BY DEF handleAMF, Dispatch, Base, Records
<1>3. TxId(p) \in Contents
  BY <1>1, <1>2, TxIdType
<1>4. down \in Seq(Downs) /\ heard \in Seq(Sayings) /\ Says(down) \in Seq(Sayings)
  BY SaysType DEF Base
<1>5. Extends(down', down) /\ Says(down') = Says(down) \o said
  BY <1>1, <1>3, <1>4, AnswerSends
<1>6. said \in Seq(Sayings)
  <2>1. "_result" \in Contents /\ "onStatus" \in Contents /\ 0 \in Contents
    BY DEF Contents, Strings, Texts
  <2>2. <<"_result", TxId(p)>> \in Sayings /\ <<"onStatus", 0>> \in Sayings
    BY <1>3, <2>1 DEF Sayings
  <2>3. <<<<"_result", TxId(p)>>>> \in Seq(Sayings) /\ <<<<"onStatus", 0>>>> \in Seq(Sayings)
        /\ <<>> \in Seq(Sayings)
    BY <2>2, ShortSeqs
  <2> QED
    BY <2>3 DEF AnswerSaid
<1>7. clientSize = OutSize \/ Announces(down, Len(down))
  BY <1>1 DEF Base
<1>8. Readable(down', clientSize)
  BY <1>4, <1>5, <1>7, ReadableOn DEF Base
<1>9. clientSize = OutSize \/ Announces(down', Len(down'))
  BY <1>4, <1>5, <1>7, AnnouncesOn
<1>10. Base'
  <2>1. TypeOK'
    BY <1>1 DEF Base, TypeOK
  <2> QED
    BY <1>1, <1>5, <1>8, <1>9, <2>1 DEF Base, Extends
<1> HIDE DEF said, p
<1>11. heard \o (Says(down) \o said) = (heard \o Says(down)) \o said
  BY <1>4, <1>6, ConcatAssociative, SMTT(40)
<1>12. Spoken' = Spoken \o said
  BY <1>1, <1>5, <1>11, Zenon DEF Spoken
<1> QED
  BY <1>10, <1>12 DEF said, p

LEMMA Counters ==
  ASSUME Base
  PROVE  /\ asked \in 0..Len(Commands) /\ asked \in Nat
         /\ sentVideo \in 0..Len(Pictures) /\ sentVideo \in Nat
         /\ sentOther \in 0..Len(Others) /\ sentOther \in Nat
         /\ resized \in 0..Resizes
         /\ errCount \in 0..Retries + 1 /\ errCount \in Nat
         /\ phase # "closed" => errCount <= Retries
<1>1. /\ asked \in 0..Len(Commands) /\ sentVideo \in 0..Len(Pictures)
      /\ sentOther \in 0..Len(Others) /\ resized \in 0..Resizes /\ errCount \in 0..Retries + 1
      /\ phase # "closed" => errCount <= Retries
  BY DEF Base, TypeOK
<1>2. Len(Commands) \in Nat /\ Len(Pictures) \in Nat /\ Len(Others) \in Nat /\ Retries \in Nat
  BY ConstantsType
<1> QED
  BY <1>1, <1>2

\* The other steps leave the conversation alone.
LEMMA QueueKeeps ==
  ASSUME Base, UNCHANGED <<down, heard, clientSize>>, TypeOK',
         phase' = "open" => phase = "open", phase' # "closed" => errCount' <= Retries,
         inbox' \in Records \cup {None, Garbled}
  PROVE  Base' /\ Spoken' = Spoken
BY DEF Base, Spoken

LEMMA SendKeepsBase ==
  ASSUME Base, SendCommand \/ SendVideo \/ SendOther \/ Announce \/ \E c \in ChunkStreams : SendRest(c)
  PROVE  Base' /\ Spoken' = Spoken
<1>1. UNCHANGED <<inbox, phase, hello, clientSize, heard, down, publishing, errCount>>
  BY DEF SendCommand, SendVideo, SendOther, Announce, SendRest, Begin, Continue, Emit,
         serverVars, clientVars, sessionVars
<1>2. TypeOK'
  <2>1. CASE SendCommand
    <3>1. asked' \in 0..Len(Commands)
      BY <2>1, Counters, ConstantsType DEF SendCommand
    <3> QED
      BY <1>1, <2>1, <3>1 DEF SendCommand, Base, TypeOK
  <2>2. CASE SendVideo
    <3>1. sentVideo' \in 0..Len(Pictures)
      BY <2>2, Counters, ConstantsType DEF SendVideo
    <3> QED
      BY <1>1, <2>2, <3>1 DEF SendVideo, Base, TypeOK
  <2>3. CASE SendOther
    <3>1. sentOther' \in 0..Len(Others)
      BY <2>3, Counters, ConstantsType DEF SendOther
    <3> QED
      BY <1>1, <2>3, <3>1 DEF SendOther, Base, TypeOK
  <2>4. CASE Announce
    <3>1. resized' \in 0..Resizes
      BY <2>4, Counters, ConstantsType DEF Announce
    <3> QED
      BY <1>1, <2>4, <3>1 DEF Announce, Base, TypeOK
  <2>5. CASE \E c \in ChunkStreams : SendRest(c)
    BY <1>1, <2>5 DEF SendRest, sessionVars, clientVars, Base, TypeOK
  <2> QED
    BY <2>1, <2>2, <2>3, <2>4, <2>5
<1> QED
  BY <1>1, <1>2, QueueKeeps DEF Base

\* What a read returns.
LEMMA ReadResult ==
  ASSUME IInv, IInv', Read
  PROVE  /\ inbox = None /\ UNCHANGED sent
         /\ \/ inbox' = None /\ got' = got
            \/ ~sync' /\ inbox' \in {None, Garbled} /\ got' = got
            \/ \E c \in ChunkStreams : /\ inbox' \in Records
                                       /\ got' = [got EXCEPT ![c] = Append(@, inbox')]
<1>1. wire # <<>>
  BY DEF Read
<1>2. CASE ReadPart(Head(wire)) \/ ReadResize(Head(wire))
  BY <1>2 DEF ReadPart, ReadResize, Reads
<1>3. CASE ReadMessage(Head(wire))
  <2>1. PICK k : k = Head(wire)
    OBVIOUS
  <2>2. k.cs \in ChunkStreams
    <3>1. wire \in Seq(Chunks)
      BY DEF IInv, ChunkTypeOK
    <3>2. k \in Chunks
      BY <1>1, <2>1, <3>1, HeadTailProperties
    <3> QED
      BY <3>2 DEF Chunks
  <2>3. /\ inbox = None /\ UNCHANGED sent
        /\ inbox' = Assembled(k) /\ got' = [got EXCEPT ![k.cs] = Append(@, Assembled(k))]
    BY <1>3, <2>1 DEF ReadMessage, Reads
  <2>4. inbox' \in Records
    <3>1. got \in [ChunkStreams -> Seq(Records)] /\ got' \in [ChunkStreams -> Seq(Records)]
      BY DEF IInv, ChunkTypeOK
    <3>2. got'[k.cs] = Append(got[k.cs], inbox') /\ got[k.cs] \in Seq(Records)
          /\ got'[k.cs] \in Seq(Records)
      BY <2>2, <2>3, <3>1
    <3>3. Len(got[k.cs]) + 1 \in 1..Len(got'[k.cs]) /\ got'[k.cs][Len(got[k.cs]) + 1] = inbox'
      BY <3>2, LenProperties
    <3> QED
      BY <3>2, <3>3, ElementOfSeq
  <2> QED
    BY <2>2, <2>3, <2>4
<1>4. CASE ReadGarbled
  BY <1>4 DEF ReadGarbled
<1> QED
  BY <1>2, <1>3, <1>4 DEF Read

LEMMA ReadKeepsBase ==
  ASSUME Base, IInv, IInv', ReadMessages
  PROVE  Base' /\ Spoken' = Spoken
<1>1. UNCHANGED <<phase, hello, clientSize, heard, down, asked, sentVideo, sentOther, resized,
                  publishing, errCount>>
  BY DEF ReadMessages, sessionVars, serverVars, clientVars
<1>2. inbox' \in Records \cup {None, Garbled}
  BY ReadResult DEF ReadMessages
<1>3. TypeOK'
  BY <1>1 DEF Base, TypeOK
<1> QED
  BY <1>1, <1>2, <1>3, QueueKeeps DEF Base

LEMMA FailKeeps ==
  ASSUME Base, phase = "open", inbox' = None, UNCHANGED clientVars, Fail
  PROVE  Base' /\ Spoken' = Spoken
<1>1. /\ errCount' = errCount + 1
      /\ phase' = (IF errCount' > Retries THEN "closed" ELSE phase)
      /\ UNCHANGED <<publishing, down>>
      /\ UNCHANGED <<hello, clientSize, heard, asked, sentVideo, sentOther, resized>>
  BY DEF Fail, clientVars
<1>2. errCount \in Nat /\ errCount <= Retries /\ Retries \in Nat
  BY Counters, ConstantsType
<1>3. TypeOK'
  <2>1. errCount' \in 0..Retries + 1 /\ phase' \in {"closed", phase}
    BY <1>1, <1>2
  <2> QED
    BY <1>1, <2>1 DEF Base, TypeOK
<1> QED
  BY <1>1, <1>2, <1>3, QueueKeeps

LEMMA OthersKeep ==
  ASSUME Base, ReadFails \/ AMFFails \/ handleVideo \/ Drop \/ HandleGarbled
  PROVE  Base' /\ Spoken' = Spoken
<1>1. phase = "open" /\ inbox' = None /\ UNCHANGED clientVars
  <2>1. ReadFails => phase = "open" /\ inbox' = None /\ UNCHANGED clientVars
    BY DEF ReadFails, Torn, Missed, chunkVars
  <2> QED
    BY <2>1 DEF AMFFails, handleVideo, Drop, HandleGarbled, Dispatch, Handled
<1>2. CASE Fail
  BY <1>1, <1>2, FailKeeps
<1>3. CASE /\ UNCHANGED <<phase, publishing, down>> /\ errCount' \in {0, errCount}
  <2>1. UNCHANGED <<hello, clientSize, heard, asked, sentVideo, sentOther, resized>>
    BY <1>1 DEF clientVars
  <2>2. errCount \in Nat /\ errCount <= Retries /\ Retries \in Nat
    BY <1>1, Counters, ConstantsType
  <2>3. TypeOK'
    <3>1. errCount' \in 0..Retries + 1
      BY <1>3, <2>2
    <3> QED
      BY <1>1, <1>3, <2>1, <3>1 DEF Base, TypeOK
  <2> QED
    BY <1>1, <1>3, <2>1, <2>2, <2>3, QueueKeeps
<1>4. CASE ReadFails \/ AMFFails
  BY <1>2, <1>4 DEF ReadFails, AMFFails
<1>5. CASE handleVideo
  <2>1. UNCHANGED <<phase, publishing, down>> /\ errCount' \in {0, errCount}
    BY <1>5 DEF handleVideo
  <2> QED
    BY <1>3, <2>1
<1>6. CASE Drop
  BY <1>3, <1>6 DEF Drop, serverVars
<1>7. CASE HandleGarbled
  <2>1. Fail \/ (UNCHANGED <<phase, publishing, down>> /\ errCount' \in {0, errCount})
    BY <1>7 DEF HandleGarbled, serverVars
  <2> QED
    BY <1>2, <1>3, <2>1
<1> QED
  BY <1>4, <1>5, <1>6, <1>7

LEMMA RefusedKeeps ==
  ASSUME Base, HandshakeRefused \/ UNCHANGED vars
  PROVE  Base' /\ Spoken' = Spoken
<1>1. UNCHANGED <<inbox, down, hello, clientSize, heard, asked, sentVideo, sentOther, resized,
                  publishing, errCount>>
  BY DEF HandshakeRefused, vars, sessionVars, serverVars, clientVars, chunkVars
<1>2. phase' \in {"closed", phase}
  BY DEF HandshakeRefused, vars, sessionVars, serverVars
<1>3. TypeOK'
  BY <1>1, <1>2 DEF Base, TypeOK
<1> QED
  BY <1>1, <1>2, <1>3, QueueKeeps DEF Base

\* Only handleAMF adds to the conversation.
LEMMA NextBase ==
  ASSUME Base, IInv, IInv', [Next]_vars
  PROVE  Base' /\ (handleAMF \/ Spoken' = Spoken)
BY SessionStep, SendKeepsBase, ReadKeepsBase, HandleAMFKeeps, OthersKeep, RefusedKeeps,
   HandshakeKeeps, OpenKeeps, ClientHelloKeeps, ClientReadKeeps

LEMMA InitBase ==
  ASSUME Init
  PROVE  Base
<1>1. TypeOK
  <2>1. /\ 0 \in 0..Len(Commands) /\ 0 \in 0..Len(Pictures) /\ 0 \in 0..Len(Others)
        /\ 0 \in 0..Resizes /\ 0 \in 0..Retries + 1
    BY ConstantsType
  <2> QED
    BY <2>1 DEF Init, TypeOK
<1>2. down = <<>> /\ heard = <<>> /\ inbox = None /\ phase = "C0" /\ errCount = 0
  BY DEF Init, ChunkInit
<1>3. Readable(down, clientSize)
  BY <1>2 DEF Readable
<1> QED
  BY <1>1, <1>2, <1>3, ConstantsType DEF Base

-----------------------------------------------------------------------------
(***************************************************************************)
(* The session runs the chunk layer: what is proved of that layer holds of *)
(* it.                                                                     *)
(***************************************************************************)
LEMMA NextSession ==
  ASSUME Base, IInv, [Next]_vars
  PROVE  Base' /\ IInv' /\ [ChunkNext]_chunkVars
<1>1. asked \in Nat /\ sentVideo \in Nat /\ sentOther \in Nat
  BY Counters
<1>2. [ChunkNext]_chunkVars
  BY <1>1, SessionChunkStep
<1>3. IInv'
  BY <1>2, NextIInv
<1> QED
  BY <1>2, <1>3, NextBase

LEMMA SessionInvariant == Spec => []Base /\ []IInv /\ [][ChunkNext]_chunkVars
<1>1. Init => Base /\ IInv
  BY InitBase, InitIInv DEF Init
<1>2. Base /\ IInv /\ [Next]_vars => Base' /\ IInv' /\ [ChunkNext]_chunkVars
  BY NextSession
<1> QED
  BY <1>1, <1>2, PTL DEF Spec

\* Whatever publisher and session do, the chunk layer under them runs as
\* ChunkStream says it may: the session hands it only messages it takes, and
\* only between two reads.
THEOREM SessionIsChunks == Spec => ChunkSpec
<1>1. Init => ChunkInit
  BY DEF Init
<1> QED
  BY <1>1, SessionInvariant, PTL DEF Spec, ChunkSpec

\* So every chunk of a session is read as the publisher cut it, and no message
\* of it is swallowed.
THEOREM SessionAligned == Spec => []Aligned /\ []Complete
BY SessionIsChunks, StreamAligned, StreamComplete, PTL

THEOREM SessionIsChannel ==
  ASSUME ~SameDelta
  PROVE  Spec => ImplementsChannel
BY SessionIsChunks, StreamIsChannel, PTL

\* The session's counters stay within what there is to send and within the
\* failures allowed, and the publisher reads with one of the two chunk sizes.
THEOREM TypeCorrect == Spec => []TypeOK
<1>1. Base => TypeOK
  BY DEF Base
<1> QED
  BY <1>1, SessionInvariant, PTL

-----------------------------------------------------------------------------
(***************************************************************************)
(* What is sent and received.  Each of the publisher's chunk streams       *)
(* carries one kind of message; what was returned is how it begins; and    *)
(* the message in hand is the last one returned on its stream.             *)
(***************************************************************************)
LedgerOf(s, commands, pictures, others) ==
  /\ Len(s[CommandStream]) = commands /\ Len(s[VideoStream]) = pictures
  /\ Len(s[OtherStream]) = others
  /\ \A i \in 1..commands : s[CommandStream][i] = CommandMessage(Commands[i])
  /\ \A i \in 1..pictures : s[VideoStream][i] = VideoMessage(Pictures[i])
  /\ \A i \in 1..others : s[OtherStream][i] = Others[i]
  /\ \A c \in ChunkStreams \ {CommandStream, VideoStream, OtherStream} : Len(s[c]) = 0

Ledger == LedgerOf(sent, asked, sentVideo, sentOther)

BehindOf(g, s) ==
  \A c \in ChunkStreams :
    Len(g[c]) <= Len(s[c]) /\ \A i \in 1..Len(g[c]) : g[c][i] = s[c][i]

Behind == sync => BehindOf(got, sent)

InHand(x, g) == \E c \in ChunkStreams : Len(g[c]) > 0 /\ x = g[c][Len(g[c])]

Pending == sync /\ inbox # None => InHand(inbox, got)

\* The publisher's commands and pictures are messages of their kinds.
LEMMA Kinds ==
  /\ \A i \in 1..Len(Commands) : CommandMessage(Commands[i]).type = "COMMAND_AMF0"
  /\ \A i \in 1..Len(Pictures) : VideoMessage(Pictures[i]).type = "VIDEO"
  /\ \A i \in 1..Len(Others) :
       /\ Others[i].type \notin {"COMMAND_AMF0", "VIDEO", SetChunkSize}
       /\ Others[i].type = "DATA_AMF0" => Command(Others[i].payload) \notin Answered
  /\ SetChunkSize \notin {"COMMAND_AMF0", "VIDEO", "DATA_AMF0"}
<1>1. \A i \in 1..Len(Commands) : CommandMessage(Commands[i]).type = "COMMAND_AMF0"
  BY DEF CommandMessage, Msg
<1>2. \A i \in 1..Len(Pictures) : VideoMessage(Pictures[i]).type = "VIDEO"
  BY DEF VideoMessage, Msg
<1>3. DOMAIN Others = 1..Len(Others)
  BY LenProperties, PublisherAssumption
<1>4. \A i \in 1..Len(Others) :
        /\ Others[i].type \notin {"COMMAND_AMF0", "VIDEO", SetChunkSize}
        /\ Others[i].type = "DATA_AMF0" => Command(Others[i].payload) \notin Answered
  BY <1>3, PublisherAssumption
<1>5. SetChunkSize \notin {"COMMAND_AMF0", "VIDEO", "DATA_AMF0"}
  BY SessionAssumption DEF AmfTypes
<1> QED
  BY <1>1, <1>2, <1>4, <1>5

\* A message sent is known by its stream and place, and its stream by its type.
LEMMA MessageOn ==
  ASSUME NEW s, NEW commands \in 0..Len(Commands), NEW pictures \in 0..Len(Pictures),
         NEW others \in 0..Len(Others), LedgerOf(s, commands, pictures, others),
         NEW c \in ChunkStreams, NEW k \in 1..Len(s[c]), NEW m, m = s[c][k]
  PROVE  /\ m.type = "COMMAND_AMF0" <=> c = CommandStream
         /\ m.type = "VIDEO" <=> c = VideoStream
         /\ c = CommandStream => k \in 1..Len(Commands) /\ m = CommandMessage(Commands[k])
         /\ c = VideoStream => k \in 1..Len(Pictures) /\ m = VideoMessage(Pictures[k])
         /\ m.type = "DATA_AMF0" => Command(m.payload) \notin Answered
<1>0. Len(Commands) \in Nat /\ Len(Pictures) \in Nat /\ Len(Others) \in Nat
  BY ConstantsType
<1>1. CommandStream # VideoStream /\ CommandStream # OtherStream /\ VideoStream # OtherStream
  BY DEF CommandStream, VideoStream, OtherStream
<1>2. CASE c = CommandStream
  <2>1. k \in 1..Len(Commands) /\ m = CommandMessage(Commands[k])
    BY <1>0, <1>2 DEF LedgerOf
  <2>2. m.type = "COMMAND_AMF0"
    BY <2>1, Kinds
  <2> QED
    BY <1>1, <1>2, <2>1, <2>2
<1>3. CASE c = VideoStream
  <2>1. k \in 1..Len(Pictures) /\ m = VideoMessage(Pictures[k])
    BY <1>0, <1>3 DEF LedgerOf
  <2>2. m.type = "VIDEO"
    BY <2>1, Kinds
  <2> QED
    BY <1>1, <1>3, <2>1, <2>2
<1>4. CASE c = OtherStream
  <2>1. k \in 1..Len(Others) /\ m = Others[k]
    BY <1>0, <1>4 DEF LedgerOf
  <2>2. /\ m.type \notin {"COMMAND_AMF0", "VIDEO", SetChunkSize}
        /\ m.type = "DATA_AMF0" => Command(m.payload) \notin Answered
    BY <2>1, Kinds
  <2> QED
    BY <1>1, <1>4, <2>2
<1>5. c \in {CommandStream, VideoStream, OtherStream}
  <2>1. c \notin {CommandStream, VideoStream, OtherStream} => Len(s[c]) = 0
    BY DEF LedgerOf
  <2> QED
    BY <2>1
<1> QED
  BY <1>2, <1>3, <1>4, <1>5

LEMMA SentType ==
  ASSUME IInv
  PROVE  /\ sent \in [ChunkStreams -> Seq(Message)] /\ got \in [ChunkStreams -> Seq(Records)]
         /\ sync \in BOOLEAN
BY DEF IInv, ChunkTypeOK, View, Views

LEMMA BeginSends ==
  ASSUME IInv, NEW c \in ChunkStreams, NEW m \in Message, NEW f, Begin(c, m, f)
  PROVE  /\ m.type = SetChunkSize => sent' = sent
         /\ m.type # SetChunkSize =>
              /\ Len(sent'[c]) = Len(sent[c]) + 1 /\ sent'[c][Len(sent[c]) + 1] = m
              /\ \A i \in 1..Len(sent[c]) : sent'[c][i] = sent[c][i]
              /\ \A d \in ChunkStreams \ {c} : sent'[d] = sent[d]
<1>1. sent' = IF m.type = SetChunkSize THEN sent ELSE [sent EXCEPT ![c] = Append(@, m)]
  BY DEF Begin
<1>2. sent \in [ChunkStreams -> Seq(Message)]
  BY SentType
<1>3. ASSUME m.type # SetChunkSize
      PROVE  sent'[c] = Append(sent[c], m) /\ \A d \in ChunkStreams \ {c} : sent'[d] = sent[d]
  BY <1>1, <1>2, <1>3
<1>4. sent[c] \in Seq(Message)
  BY <1>2
<1>5. /\ Len(Append(sent[c], m)) = Len(sent[c]) + 1 /\ Append(sent[c], m)[Len(sent[c]) + 1] = m
      /\ \A i \in 1..Len(sent[c]) : Append(sent[c], m)[i] = sent[c][i]
  BY <1>4, AppendProperties
<1> QED
  BY <1>1, <1>3, <1>5

LEMMA LedgerKeeps ==
  ASSUME Base, IInv, Ledger, [Next]_vars
  PROVE  Ledger'
<1>0. /\ asked \in 0..Len(Commands) /\ asked \in Nat /\ sentVideo \in Nat /\ sentOther \in Nat
      /\ sentVideo \in 0..Len(Pictures) /\ sentOther \in 0..Len(Others)
      /\ Len(Commands) \in Nat /\ Len(Pictures) \in Nat /\ Len(Others) \in Nat
  BY Counters, ConstantsType
<1>1. CommandStream # VideoStream /\ CommandStream # OtherStream /\ VideoStream # OtherStream
  BY DEF CommandStream, VideoStream, OtherStream
<1>2. CASE UNCHANGED <<sent, asked, sentVideo, sentOther>>
  BY <1>2 DEF Ledger
<1>3. CASE SendCommand
  <2> DEFINE m == CommandMessage(Commands[asked + 1])
  <2>1. PICK f \in 0..3 : Begin(CommandStream, m, f)
    BY <1>3 DEF SendCommand
  <2>2. asked + 1 \in 1..Len(Commands) /\ asked' = asked + 1 /\ UNCHANGED <<sentVideo, sentOther>>
    BY <1>0, <1>3 DEF SendCommand
  <2>3. m \in Message /\ m.type # SetChunkSize /\ CommandStream \in ChunkStreams
    BY <2>2, PublisherMessages, Kinds, StreamsThere
  <2> HIDE DEF m
  <2>4. /\ Len(sent'[CommandStream]) = Len(sent[CommandStream]) + 1
        /\ sent'[CommandStream][Len(sent[CommandStream]) + 1] = m
        /\ \A i \in 1..Len(sent[CommandStream]) : sent'[CommandStream][i] = sent[CommandStream][i]
        /\ \A d \in ChunkStreams \ {CommandStream} : sent'[d] = sent[d]
    BY <2>1, <2>3, BeginSends
  <2>5. \A i \in 1..asked + 1 : sent'[CommandStream][i] = CommandMessage(Commands[i])
    BY <1>0, <2>4 DEF Ledger, LedgerOf, m
  <2>6. Len(sent'[CommandStream]) = asked + 1
    BY <2>4 DEF Ledger, LedgerOf
  <2>7. sent'[VideoStream] = sent[VideoStream] /\ sent'[OtherStream] = sent[OtherStream]
    BY <1>1, <2>4, StreamsThere
  <2> QED
    BY <2>2, <2>4, <2>5, <2>6, <2>7 DEF Ledger, LedgerOf
<1>4. CASE SendVideo
  <2> DEFINE m == VideoMessage(Pictures[sentVideo + 1])
  <2>1. PICK f \in 0..3 : Begin(VideoStream, m, f)
    BY <1>4 DEF SendVideo
  <2>2. sentVideo + 1 \in 1..Len(Pictures) /\ sentVideo' = sentVideo + 1 /\ UNCHANGED <<asked, sentOther>>
    BY <1>0, <1>4 DEF SendVideo
  <2>3. m \in Message /\ m.type # SetChunkSize /\ VideoStream \in ChunkStreams
    BY <2>2, PublisherMessages, Kinds, StreamsThere
  <2> HIDE DEF m
  <2>4. /\ Len(sent'[VideoStream]) = Len(sent[VideoStream]) + 1
        /\ sent'[VideoStream][Len(sent[VideoStream]) + 1] = m
        /\ \A i \in 1..Len(sent[VideoStream]) : sent'[VideoStream][i] = sent[VideoStream][i]
        /\ \A d \in ChunkStreams \ {VideoStream} : sent'[d] = sent[d]
    BY <2>1, <2>3, BeginSends
  <2>5. \A i \in 1..sentVideo + 1 : sent'[VideoStream][i] = VideoMessage(Pictures[i])
    BY <1>0, <2>4 DEF Ledger, LedgerOf, m
  <2>6. Len(sent'[VideoStream]) = sentVideo + 1
    BY <2>4 DEF Ledger, LedgerOf
  <2>7. sent'[CommandStream] = sent[CommandStream] /\ sent'[OtherStream] = sent[OtherStream]
    BY <1>1, <2>4, StreamsThere
  <2> QED
    BY <2>2, <2>4, <2>5, <2>6, <2>7 DEF Ledger, LedgerOf
<1>5. CASE SendOther
  <2> DEFINE m == Others[sentOther + 1]
  <2>1. PICK f \in 0..3 : Begin(OtherStream, m, f)
    BY <1>5 DEF SendOther
  <2>2. sentOther + 1 \in 1..Len(Others) /\ sentOther' = sentOther + 1 /\ UNCHANGED <<asked, sentVideo>>
    BY <1>0, <1>5 DEF SendOther
  <2>3. m \in Message /\ m.type # SetChunkSize /\ OtherStream \in ChunkStreams
    BY <2>2, PublisherMessages, Kinds, StreamsThere
  <2> HIDE DEF m
  <2>4. /\ Len(sent'[OtherStream]) = Len(sent[OtherStream]) + 1
        /\ sent'[OtherStream][Len(sent[OtherStream]) + 1] = m
        /\ \A i \in 1..Len(sent[OtherStream]) : sent'[OtherStream][i] = sent[OtherStream][i]
        /\ \A d \in ChunkStreams \ {OtherStream} : sent'[d] = sent[d]
    BY <2>1, <2>3, BeginSends
  <2>5. \A i \in 1..sentOther + 1 : sent'[OtherStream][i] = Others[i]
    BY <1>0, <2>4, SMTT(40) DEF Ledger, LedgerOf, m
  <2>6. Len(sent'[OtherStream]) = sentOther + 1
    BY <2>4 DEF Ledger, LedgerOf
  <2>7. sent'[CommandStream] = sent[CommandStream] /\ sent'[VideoStream] = sent[VideoStream]
    BY <1>1, <2>4, StreamsThere
  <2> QED
    BY <2>2, <2>4, <2>5, <2>6, <2>7 DEF Ledger, LedgerOf
<1>6. CASE Announce
  <2>1. PICK m \in Sizes : Begin(ControlStream, m, 0)
    BY <1>6 DEF Announce
  <2>2. m \in Message /\ m.type = SetChunkSize
    BY PublisherAssumption
  <2>3. sent' = sent
    BY <2>1, <2>2, BeginSends, StreamsThere
  <2> QED
    BY <1>2, <1>6, <2>3 DEF Announce
<1>7. CASE \E c \in ChunkStreams : SendRest(c)
  BY <1>2, <1>7 DEF SendRest, Continue, sessionVars, clientVars
<1>8. CASE ReadMessages
  BY <1>2, <1>8 DEF ReadMessages, Read, ReadPart, ReadResize, ReadMessage, Reads,
                    ReadGarbled, sessionVars, clientVars
<1>9. CASE handleAMF \/ AMFFails \/ handleVideo \/ Drop \/ HandleGarbled
  BY <1>2, <1>9, HandlersDispatch DEF clientVars
<1>10. CASE HandshakeC1 \/ HandshakeRefused \/ Open
  <2>1. HandshakeC1 => UNCHANGED <<chunkVars, clientVars>>
    BY SMT DEF HandshakeC1
  <2>2. HandshakeRefused => UNCHANGED <<chunkVars, clientVars>>
    BY Zenon DEF HandshakeRefused
  <2>3. Open => UNCHANGED <<chunkVars, clientVars>>
    BY SMT DEF Open
  <2> QED
    BY <1>2, <1>10, <2>1, <2>2, <2>3, SMT DEF chunkVars, clientVars
<1>11. CASE ClientHello \/ ClientRead
  <2>1. UNCHANGED <<chunkVars, asked, sentVideo, sentOther>>
    BY <1>11, SMT DEF ClientHello, ClientRead
  <2> QED
    BY <1>2, <2>1, SMT DEF chunkVars
<1>12. CASE ReadFails
  BY <1>2, <1>12 DEF ReadFails, Torn, Missed, chunkVars, clientVars
<1>13. CASE UNCHANGED vars
  BY <1>2, <1>13, SMT DEF vars, chunkVars, sessionVars, clientVars
<1> QED
  BY <1>3, <1>4, <1>5, <1>6, <1>7, <1>8, <1>9, <1>10, <1>11, <1>12, <1>13, SessionStep

\* Nothing is aligned again once it was misread, and until then what was
\* returned is how what was sent begins.
LEMMA BehindKeeps ==
  ASSUME ~SameDelta, IInv, Behind, [ChunkNext]_chunkVars
  PROVE  Behind' /\ (sync' => sync)
<1>1. sync' => sync
  <2>1. Publish => sync' = sync
    BY DEF Publish, Begin, Continue, Emit
  <2>2. Read => sync' = sync \/ ~sync'
    BY DEF Read, ReadPart, ReadResize, ReadMessage, Reads, ReadGarbled
  <2>3. Handle \/ Missed \/ UNCHANGED chunkVars => sync' = sync
    BY DEF Handle, Missed, chunkVars
  <2>4. Torn => ~sync'
    BY DEF Torn
  <2> QED
    BY <2>1, <2>2, <2>3, <2>4 DEF ChunkNext
<1> SUFFICES ASSUME sync', NEW c \in ChunkStreams
             PROVE  Len(got'[c]) <= Len(sent'[c]) /\ \A i \in 1..Len(got'[c]) : got'[c][i] = sent'[c][i]
  BY <1>1 DEF Behind, BehindOf
<1>2. Len(got[c]) <= Len(sent[c]) /\ \A i \in 1..Len(got[c]) : got[c][i] = sent[c][i]
  BY <1>1 DEF Behind, BehindOf
<1>3. /\ sent \in [ChunkStreams -> Seq(Message)] /\ got \in [ChunkStreams -> Seq(Records)]
      /\ sent[c] \in Seq(Message) /\ got[c] \in Seq(Records)
      /\ Len(sent[c]) \in Nat /\ Len(got[c]) \in Nat
  BY SentType, LenProperties
<1>4. Transport!Next \/ UNCHANGED <<sent, got>>
  BY NextTransport
<1>5. CASE UNCHANGED <<sent, got>>
  BY <1>2, <1>5
<1>6. ASSUME NEW d \in ChunkStreams, Transport!Deliver(d)
      PROVE  Len(got'[c]) <= Len(sent'[c]) /\ \A i \in 1..Len(got'[c]) : got'[c][i] = sent'[c][i]
  <2>1. /\ Len(got[d]) < Len(sent[d]) /\ sent' = sent
        /\ got' = [got EXCEPT ![d] = Append(@, sent[d][Len(@) + 1])]
    BY <1>6 DEF Transport!Deliver
  <2>2. CASE d # c
    BY <1>2, <1>3, <2>1, <2>2
  <2>3. CASE d = c
    <3>1. sent[c][Len(got[c]) + 1] \in Records
      <4>1. Len(got[c]) + 1 \in 1..Len(sent[c])
        BY <1>3, <2>1, <2>3
      <4> QED
        BY <1>3, <4>1, ElementOfSeq, ChunkAssumption
    <3>2. got'[c] = Append(got[c], sent[c][Len(got[c]) + 1])
      BY <1>3, <2>1, <2>3
    <3>3. /\ Len(got'[c]) = Len(got[c]) + 1 /\ got'[c][Len(got[c]) + 1] = sent[c][Len(got[c]) + 1]
          /\ \A i \in 1..Len(got[c]) : got'[c][i] = got[c][i]
      BY <1>3, <3>1, <3>2, AppendProperties
    <3> QED
      BY <1>2, <1>3, <2>1, <2>3, <3>3
  <2> QED
    BY <2>2, <2>3
<1>7. ASSUME NEW d \in ChunkStreams, NEW m \in Message, Transport!Send(d, m)
      PROVE  Len(got'[c]) <= Len(sent'[c]) /\ \A i \in 1..Len(got'[c]) : got'[c][i] = sent'[c][i]
  <2>1. got' = got /\ sent' = [sent EXCEPT ![d] = Append(@, m)]
    BY <1>7 DEF Transport!Send
  <2>2. CASE d # c
    BY <1>2, <1>3, <2>1, <2>2
  <2>3. CASE d = c
    <3>1. sent'[c] = Append(sent[c], m)
      BY <1>3, <2>1, <2>3
    <3>2. Len(sent'[c]) = Len(sent[c]) + 1 /\ \A i \in 1..Len(sent[c]) : sent'[c][i] = sent[c][i]
      BY <1>3, <3>1, AppendProperties
    <3> QED
      BY <1>2, <1>3, <2>1, <3>2
  <2> QED
    BY <2>2, <2>3
<1> QED
  BY <1>4, <1>5, <1>6, <1>7 DEF Transport!Next

\* A step reads, or handles what was read, or does neither.
LEMMA InboxStep ==
  ASSUME [Next]_vars
  PROVE  \/ ReadMessages
         \/ /\ handleAMF \/ AMFFails \/ handleVideo \/ Drop \/ HandleGarbled
            /\ inbox # None /\ inbox' = None /\ UNCHANGED <<got, sync>>
         \/ UNCHANGED <<inbox, got, frames>> /\ (sync' => sync)
<1>1. CASE SendCommand \/ SendVideo \/ SendOther \/ Announce \/ \E c \in ChunkStreams : SendRest(c)
  BY <1>1 DEF SendCommand, SendVideo, SendOther, Announce, SendRest, Begin, Continue, Emit,
              sessionVars, serverVars
<1>2. CASE handleAMF \/ AMFFails \/ handleVideo \/ Drop \/ HandleGarbled
  BY <1>2, HandlersDispatch
<1>3. CASE HandshakeC1 \/ HandshakeRefused \/ Open
  <2>1. HandshakeC1 => UNCHANGED <<chunkVars, frames>>
    BY SMT DEF HandshakeC1
  <2>2. HandshakeRefused => UNCHANGED <<chunkVars, frames>>
    BY Zenon DEF HandshakeRefused
  <2>3. Open => UNCHANGED <<chunkVars, frames>>
    BY SMT DEF Open
  <2> QED
    BY <1>3, <2>1, <2>2, <2>3, SMT DEF chunkVars
<1>4. CASE ClientHello \/ ClientRead
  <2>1. UNCHANGED <<chunkVars, serverVars>>
    BY <1>4, SMT DEF ClientHello, ClientRead
  <2> QED
    BY <2>1, SMT DEF chunkVars, serverVars
<1>5. CASE ReadFails
  BY <1>5 DEF ReadFails, Torn, Missed, Fail, chunkVars
<1>6. CASE UNCHANGED vars
  BY <1>6, SMT DEF vars, chunkVars, sessionVars, serverVars
<1> QED
  BY <1>1, <1>2, <1>3, <1>4, <1>5, <1>6, SessionStep

SessionInv == Base /\ IInv /\ Ledger /\ Behind /\ Pending

LEMMA PendingKeeps ==
  ASSUME IInv, IInv', Pending, [Next]_vars
  PROVE  Pending'
<1> SUFFICES ASSUME sync', inbox' # None PROVE InHand(inbox', got')
  BY DEF Pending
<1>1. CASE ReadMessages
  <2>1. PICK c \in ChunkStreams : inbox' \in Records /\ got' = [got EXCEPT ![c] = Append(@, inbox')]
    BY <1>1, ReadResult DEF ReadMessages
  <2>2. got \in [ChunkStreams -> Seq(Records)] /\ got[c] \in Seq(Records)
    BY SentType
  <2>3. got'[c] = Append(got[c], inbox')
    BY <2>1, <2>2
  <2>4. Len(got[c]) \in Nat /\ Len(got'[c]) = Len(got[c]) + 1 /\ got'[c][Len(got[c]) + 1] = inbox'
    BY <2>1, <2>2, <2>3, AppendProperties, LenProperties
  <2>5. Len(got'[c]) > 0 /\ inbox' = got'[c][Len(got'[c])]
    BY <2>4
  <2> QED
    BY <2>5 DEF InHand
<1>2. CASE UNCHANGED <<inbox, got, frames>> /\ (sync' => sync)
  BY <1>2 DEF Pending
<1> QED
  BY <1>1, <1>2, InboxStep

LEMMA InvKeeps ==
  ASSUME ~SameDelta, SessionInv, [Next]_vars
  PROVE  SessionInv' /\ (sync' => sync)
<1>1. Base' /\ IInv' /\ [ChunkNext]_chunkVars
  BY NextSession DEF SessionInv
<1>2. Ledger' /\ Pending'
  BY <1>1, LedgerKeeps, PendingKeeps DEF SessionInv
<1>3. Behind' /\ (sync' => sync)
  BY <1>1, BehindKeeps DEF SessionInv
<1> QED
  BY <1>1, <1>2, <1>3 DEF SessionInv

LEMMA InvInit ==
  ASSUME Init
  PROVE  SessionInv
<1>1. Base /\ IInv
  BY InitBase, InitIInv DEF Init
<1>2. /\ asked = 0 /\ sentVideo = 0 /\ sentOther = 0 /\ inbox = None
      /\ sent = [c \in ChunkStreams |-> <<>>] /\ got = [c \in ChunkStreams |-> <<>>]
  BY DEF Init, ChunkInit
<1>3. \A c \in ChunkStreams : Len(sent[c]) = 0 /\ Len(got[c]) = 0
  BY <1>2
<1>4. Ledger
  BY <1>2, <1>3, StreamsThere DEF Ledger, LedgerOf
<1>5. Behind
  <2> SUFFICES ASSUME NEW c \in ChunkStreams
               PROVE  Len(got[c]) <= Len(sent[c]) /\ \A i \in 1..Len(got[c]) : got[c][i] = sent[c][i]
    BY DEF Behind, BehindOf
  <2>1. Len(sent[c]) = 0 /\ Len(got[c]) = 0
    BY <1>3
  <2> QED
    BY <2>1
<1>6. Pending
  BY <1>2 DEF Pending
<1> QED
  BY <1>1, <1>4, <1>5, <1>6 DEF SessionInv

\* The message in hand is what was sent at its place on its stream.
LEMMA MessageInHand ==
  ASSUME SessionInv, sync, inbox # None
  PROVE  /\ inbox \in Records /\ inbox # Garbled
         /\ \E c \in ChunkStreams : \E k \in 1..Len(sent[c]) :
              /\ k = Len(got[c]) /\ inbox = sent[c][k]
              /\ inbox.type = "COMMAND_AMF0" <=> c = CommandStream
              /\ inbox.type = "VIDEO" <=> c = VideoStream
              /\ c = CommandStream => k \in 1..Len(Commands) /\ inbox = CommandMessage(Commands[k])
              /\ c = VideoStream => k \in 1..Len(Pictures) /\ inbox = VideoMessage(Pictures[k])
              /\ inbox.type = "DATA_AMF0" => Command(inbox.payload) \notin Answered
<1>1. PICK c \in ChunkStreams : Len(got[c]) > 0 /\ inbox = got[c][Len(got[c])]
  BY DEF SessionInv, Pending, InHand
<1>2. got[c] \in Seq(Records) /\ Len(got[c]) \in Nat /\ sent[c] \in Seq(Message) /\ Len(sent[c]) \in Nat
  BY SentType, LenProperties DEF SessionInv
<1>3. Len(got[c]) <= Len(sent[c]) /\ \A i \in 1..Len(got[c]) : got[c][i] = sent[c][i]
  BY DEF SessionInv, Behind, BehindOf
<1>4. PICK k \in 1..Len(sent[c]) : k = Len(got[c]) /\ inbox = sent[c][k]
  BY <1>1, <1>2, <1>3
<1>5. inbox \in Records
  BY <1>1, <1>2, ElementOfSeq
<1>6. inbox # Garbled
  BY <1>5, ConstantsType
<1>7. /\ asked \in 0..Len(Commands) /\ sentVideo \in 0..Len(Pictures) /\ sentOther \in 0..Len(Others)
      /\ LedgerOf(sent, asked, sentVideo, sentOther)
  BY Counters DEF SessionInv, Ledger
<1>8. /\ inbox.type = "COMMAND_AMF0" <=> c = CommandStream
      /\ inbox.type = "VIDEO" <=> c = VideoStream
      /\ c = CommandStream => k \in 1..Len(Commands) /\ inbox = CommandMessage(Commands[k])
      /\ c = VideoStream => k \in 1..Len(Pictures) /\ inbox = VideoMessage(Pictures[k])
      /\ inbox.type = "DATA_AMF0" => Command(inbox.payload) \notin Answered
  BY <1>4, <1>7, MessageOn, SMTT(40)
<1> QED
  BY <1>4, <1>5, <1>6, <1>8

\* How many messages of type t, which come on stream c, have been handled.
Owing(x, t) == IF x \in {None, Garbled} THEN 0 ELSE IF x.type = t THEN 1 ELSE 0
HandledOn(g, x, c, t) == Len(g[c]) - Owing(x, t)

Lines == {<<CommandStream, "COMMAND_AMF0">>, <<VideoStream, "VIDEO">>}

LEMMA HandledRange ==
  ASSUME SessionInv, sync, NEW c, NEW t, <<c, t>> \in Lines
  PROVE  /\ HandledOn(got, inbox, c, t) \in 0..Len(sent[c]) /\ Len(sent[c]) \in Nat
         /\ c \in ChunkStreams
<1>1. (c = CommandStream /\ t = "COMMAND_AMF0") \/ (c = VideoStream /\ t = "VIDEO")
  BY DEF Lines
<1>2. c \in ChunkStreams
  BY <1>1, StreamsThere
<1>3. Len(got[c]) \in Nat /\ Len(sent[c]) \in Nat
  BY <1>2, SentType, LenProperties DEF SessionInv
<1>4. Len(got[c]) <= Len(sent[c])
  BY <1>2 DEF SessionInv, Behind, BehindOf
<1>5. Owing(inbox, t) = 0 \/ (Owing(inbox, t) = 1 /\ inbox # None /\ inbox.type = t)
  BY DEF Owing
<1>6. ASSUME inbox # None, inbox.type = t PROVE Len(got[c]) > 0
  BY <1>1, <1>6, MessageInHand
<1> QED
  BY <1>2, <1>3, <1>4, <1>5, <1>6 DEF HandledOn

\* A read hands over no message: what it returns is not handled yet.
LEMMA ReadHands ==
  ASSUME SessionInv, SessionInv', ReadMessages, sync, sync', NEW c, NEW t, <<c, t>> \in Lines
  PROVE  HandledOn(got', inbox', c, t) = HandledOn(got, inbox, c, t)
<1>1. (c = CommandStream /\ t = "COMMAND_AMF0") \/ (c = VideoStream /\ t = "VIDEO")
  BY DEF Lines
<1>2. c \in ChunkStreams
  BY <1>1, StreamsThere
<1>3. /\ inbox = None
      /\ \/ inbox' = None /\ got' = got
         \/ \E d \in ChunkStreams : /\ inbox' \in Records
                                    /\ got' = [got EXCEPT ![d] = Append(@, inbox')]
  BY ReadResult DEF SessionInv, ReadMessages
<1>4. Owing(inbox, t) = 0
  BY <1>3 DEF Owing
<1>5. CASE inbox' = None /\ got' = got
  BY <1>3, <1>5 DEF HandledOn
<1>6. CASE \E d \in ChunkStreams : /\ inbox' \in Records
                                   /\ got' = [got EXCEPT ![d] = Append(@, inbox')]
  <2>1. PICK d \in ChunkStreams : inbox' \in Records /\ got' = [got EXCEPT ![d] = Append(@, inbox')]
    BY <1>6
  <2>2. /\ got \in [ChunkStreams -> Seq(Records)] /\ got[d] \in Seq(Records)
        /\ Len(got[d]) \in Nat /\ Len(got[c]) \in Nat
    BY <1>2, SentType, LenProperties DEF SessionInv
  <2>3. got'[d] = Append(got[d], inbox') /\ (c # d => got'[c] = got[c])
    BY <1>2, <2>1, <2>2
  <2>4. Len(got'[d]) = Len(got[d]) + 1 /\ got'[d][Len(got[d]) + 1] = inbox'
    BY <2>1, <2>2, <2>3, AppendProperties
  <2>5. PICK k : k = Len(got'[d])
    OBVIOUS
  <2>6. k \in 1..Len(sent'[d]) /\ inbox' = sent'[d][k]
    <3>1. Len(got'[d]) <= Len(sent'[d]) /\ \A i \in 1..Len(got'[d]) : got'[d][i] = sent'[d][i]
      BY DEF SessionInv, Behind, BehindOf
    <3>2. sent' = sent /\ Len(sent[d]) \in Nat
      BY ReadResult, SentType, LenProperties DEF SessionInv, ReadMessages
    <3> QED
      BY <2>2, <2>4, <2>5, <3>1, <3>2
  <2>7. /\ asked' \in 0..Len(Commands) /\ sentVideo' \in 0..Len(Pictures)
        /\ sentOther' \in 0..Len(Others)
        /\ LedgerOf(sent', asked', sentVideo', sentOther')
    BY DEF SessionInv, Base, TypeOK, Ledger
  <2>8. inbox'.type = t <=> d = c
    <3>1. /\ inbox'.type = "COMMAND_AMF0" <=> d = CommandStream
          /\ inbox'.type = "VIDEO" <=> d = VideoStream
      BY <2>6, <2>7, MessageOn, SMTT(40)
    <3> QED
      BY <1>1, <3>1
  <2>9. inbox' \notin {None, Garbled}
    BY <2>1, ConstantsType, ChunkAssumption
  <2>10. Owing(inbox', t) = IF d = c THEN 1 ELSE 0
    BY <2>8, <2>9 DEF Owing
  <2> QED
    <3>1. CASE d = c
      BY <1>4, <2>2, <2>4, <2>10, <3>1 DEF HandledOn
    <3>2. CASE d # c
      BY <1>4, <2>2, <2>3, <2>10, <3>2 DEF HandledOn
    <3> QED
      BY <3>1, <3>2
<1> QED
  BY <1>3, <1>5, <1>6

-----------------------------------------------------------------------------
(***************************************************************************)
(* Every command is answered once, in order.                               *)
(***************************************************************************)
Replies == [i \in 1..Len(Commands) |-> Reply(Commands[i])]
Due(n) == Flatten(First(Replies, n))

\* What client and server have said and will say to each other: the answers to
\* the commands handled.
Spoke == sync => Spoken = Due(HandledOn(got, inbox, CommandStream, "COMMAND_AMF0"))

\* A command of the publisher is decoded to its name and transaction id.
LEMMA CommandReads ==
  ASSUME NEW i \in 1..Len(Commands), NEW p, p = CommandMessage(Commands[i]).payload
  PROVE  /\ ~Fails(p) /\ p # <<>>
         /\ Command(p) = Commands[i].name /\ TxId(p) = Commands[i].tx
<1> DEFINE n == Commands[i].name
           tx == Commands[i].tx
           args == Commands[i].args
           a == encodeString(n)
           b == encodeNumber(tx)
           S == {<<"tag", "STRING">>, <<"string", n>>, <<"tag", "NUMBER">>, <<"double", tx>>}
                \cup Units
<1>1. args \in Seq(Units)
  BY PublisherMessages
<1>2. p = a \o b \o args
  BY DEF CommandMessage, Msg
<1>3. p \in Seq(Units)
  <2>1. CommandMessage(Commands[i]) \in Records
    BY PublisherMessages, ChunkAssumption
  <2> QED
    BY <2>1 DEF Records
<1>4. /\ a = <<<<"tag", "STRING">>, <<"string", n>>>>
      /\ b = <<<<"tag", "NUMBER">>, <<"double", tx>>>>
  <2>1. n \in Fits
    BY PublisherMessages
  <2> QED
    BY <2>1, FitWritten DEF encodeNumber, encodeScalar, Scalar
<1>5. /\ Len(a) = 2 /\ a[1] = <<"tag", "STRING">> /\ a[2] = <<"string", n>>
      /\ Len(b) = 2 /\ b[1] = <<"tag", "NUMBER">> /\ b[2] = <<"double", tx>>
  BY <1>4
<1>6. a \in Seq(S) /\ b \in Seq(S) /\ args \in Seq(S)
  <2>1. /\ <<"tag", "STRING">> \in S /\ <<"string", n>> \in S
        /\ <<"tag", "NUMBER">> \in S /\ <<"double", tx>> \in S /\ Units \subseteq S
    OBVIOUS
  <2> HIDE DEF S
  <2>2. a \in Seq(S) /\ b \in Seq(S)
    BY <1>4, <2>1, ShortSeqs
  <2>3. args \in Seq(S)
    BY <1>1, <2>1
  <2> QED
    BY <2>2, <2>3
<1> HIDE DEF a, b, args, S, n, tx
<1>7. /\ a \o b \in Seq(S) /\ Len(a \o b) = 4
      /\ (a \o b)[1] = a[1] /\ (a \o b)[2] = a[2] /\ (a \o b)[3] = b[1] /\ (a \o b)[4] = b[2]
  <2>1. /\ a \o b \in Seq(S) /\ Len(a \o b) = Len(a) + Len(b)
        /\ \A j \in 1..Len(a) + Len(b) : (a \o b)[j] = IF j <= Len(a) THEN a[j] ELSE b[j - Len(a)]
    BY <1>6, ConcatProperties
  <2> QED
    BY <1>5, <2>1
<1> DEFINE q == a \o b
<1>8. Len(p) >= 4 /\ p[1] = q[1] /\ p[2] = q[2] /\ p[3] = q[3] /\ p[4] = q[4]
  <2>1. p = q \o args /\ q \in Seq(S) /\ Len(q) = 4 /\ Len(args) \in Nat
    BY <1>2, <1>6, <1>7, LenProperties
  <2> HIDE DEF q
  <2>2. /\ Len(p) = 4 + Len(args)
        /\ \A j \in 1..4 + Len(args) : p[j] = IF j <= 4 THEN q[j] ELSE args[j - 4]
    <3>1. /\ Len(q \o args) = Len(q) + Len(args)
          /\ \A j \in 1..Len(q) + Len(args) :
               (q \o args)[j] = IF j <= Len(q) THEN q[j] ELSE args[j - Len(q)]
      BY <1>6, <2>1, ConcatProperties
    <3> QED
      BY <2>1, <3>1, Zenon
  <2> QED
    BY <2>1, <2>2
<1>9. Buffer(p)
  BY <1>3, PayloadBuffer
<1>10. Name(p) = Got(<<"STRING", n>>, 3) /\ TxValue(p) = Got(<<"NUMBER", tx>>, 5) /\ HasTx(p)
  BY <1>5, <1>7, <1>8, <1>9, OpeningReads, ZenonT(40)
<1>11. /\ Name(p).ok /\ Name(p).value[1] = "STRING" /\ Name(p).value[2] = n
       /\ TxValue(p).ok /\ TxValue(p).value[1] = "NUMBER" /\ TxValue(p).value[2] = tx
  BY <1>10 DEF Got
<1>12. ~Fails(p) /\ p # <<>>
  BY <1>8, <1>11 DEF Fails
<1>13. Command(p) = n /\ TxId(p) = tx
  BY <1>10, <1>11 DEF Command, TxId
<1> QED
  BY <1>12, <1>13 DEF n, tx

LEMMA ReplyType ==
  \A i \in 1..Len(Commands) : Replies[i] = Reply(Commands[i]) /\ Replies[i] \in Seq(Sayings)
<1> SUFFICES ASSUME NEW i \in 1..Len(Commands) PROVE Reply(Commands[i]) \in Seq(Sayings)
  BY DEF Replies
<1>1. "_result" \in Contents /\ "onStatus" \in Contents /\ 0 \in Contents /\ Commands[i].tx \in Contents
  BY PublisherMessages DEF Contents, Strings, Texts
<1>2. <<"_result", Commands[i].tx>> \in Sayings /\ <<"onStatus", 0>> \in Sayings
  BY <1>1 DEF Sayings
<1>3. /\ <<<<"_result", Commands[i].tx>>>> \in Seq(Sayings) /\ <<<<"onStatus", 0>>>> \in Seq(Sayings)
      /\ <<>> \in Seq(Sayings)
  BY <1>2, ShortSeqs
<1> QED
  BY <1>3 DEF Reply

\* Handling the next command adds its answer to the conversation, and no other
\* message is answered.
LEMMA AMFAnswers ==
  ASSUME SessionInv, Spoke, sync, handleAMF,
         Spoken' = Spoken \o AnswerSaid(Command(inbox.payload), TxId(inbox.payload)),
         inbox' = None, got' = got
  PROVE  Spoken' = Due(HandledOn(got', inbox', CommandStream, "COMMAND_AMF0"))
<1>1. PICK c \in ChunkStreams : \E k \in 1..Len(sent[c]) :
        /\ k = Len(got[c])
        /\ inbox.type = "COMMAND_AMF0" <=> c = CommandStream
        /\ c = CommandStream => k \in 1..Len(Commands) /\ inbox = CommandMessage(Commands[k])
        /\ inbox.type = "DATA_AMF0" => Command(inbox.payload) \notin Answered
  BY MessageInHand DEF handleAMF, Dispatch
<1>2. inbox # None /\ inbox # Garbled /\ inbox.type \in AmfTypes
  BY DEF handleAMF, Dispatch
<1>3. Spoken = Due(HandledOn(got, inbox, CommandStream, "COMMAND_AMF0"))
  BY DEF Spoke
<1>4. HandledOn(got', inbox', CommandStream, "COMMAND_AMF0") = Len(got[CommandStream]) - 0
  BY DEF HandledOn, Owing
<1>5. Len(got[CommandStream]) \in Nat
  BY StreamsThere, SentType, LenProperties DEF SessionInv
<1>6. CASE inbox.type = "COMMAND_AMF0"
  <2>1. PICK k : k = Len(got[CommandStream]) /\ k \in 1..Len(Commands) /\ inbox = CommandMessage(Commands[k])
    BY <1>1, <1>6
  <2>2. Command(inbox.payload) = Commands[k].name /\ TxId(inbox.payload) = Commands[k].tx
    BY <2>1, CommandReads
  <2>3. AnswerSaid(Commands[k].name, Commands[k].tx) = Replies[k]
    BY <2>1, ReplyType DEF AnswerSaid, Reply
  <2>4. HandledOn(got, inbox, CommandStream, "COMMAND_AMF0") = k - 1
    BY <1>2, <1>6, <2>1 DEF HandledOn, Owing
  <2>5. PICK j \in Nat : j = k - 1 /\ j + 1 = k
    <3>1. k \in Nat /\ k # 0
      BY <1>5, <2>1
    <3>2. k - 1 \in Nat /\ (k - 1) + 1 = k
      BY <3>1
    <3> QED
      BY <3>2
  <2>6. \A i \in 1..j + 1 : Replies[i] \in Seq(Sayings)
    BY <2>1, <2>5, ReplyType, ConstantsType
  <2>7. Due(j + 1) = Due(j) \o Replies[j + 1]
    BY <2>6, FlattenOneMore DEF Due
  <2>8. HandledOn(got', inbox', CommandStream, "COMMAND_AMF0") = j + 1
    BY <1>4, <2>1, <2>5
  <2> QED
    BY <1>3, <2>2, <2>3, <2>4, <2>5, <2>7, <2>8, Zenon
<1>7. CASE inbox.type # "COMMAND_AMF0"
  <2>1. Command(inbox.payload) \notin Answered
    BY <1>1, <1>2, <1>7 DEF AmfTypes
  <2>2. AnswerSaid(Command(inbox.payload), TxId(inbox.payload)) = <<>>
    BY <2>1 DEF AnswerSaid, Answered
  <2>3. HandledOn(got, inbox, CommandStream, "COMMAND_AMF0") = Len(got[CommandStream]) - 0
    BY <1>2, <1>7 DEF HandledOn, Owing
  <2>4. Spoken \o <<>> = Spoken
    <3>1. heard \in Seq(Sayings) /\ Says(down) \in Seq(Sayings)
      BY SaysType DEF SessionInv, Base
    <3>2. Spoken \in Seq(Sayings)
      BY <3>1, ConcatProperties DEF Spoken
    <3> QED
      BY <3>2, ConcatEmptySeq
  <2> QED
    BY <1>3, <1>4, <2>2, <2>3, <2>4, Zenon
<1> QED
  BY <1>6, <1>7

\* A step of the server that does not answer handles no command.
LEMMA NoCommandHandled ==
  ASSUME SessionInv, sync, AMFFails \/ handleVideo \/ Drop \/ HandleGarbled,
         inbox # None, inbox' = None, got' = got
  PROVE  HandledOn(got', inbox', CommandStream, "COMMAND_AMF0")
           = HandledOn(got, inbox, CommandStream, "COMMAND_AMF0")
<1>1. inbox \in Records /\ inbox # Garbled
  BY MessageInHand
<1>2. inbox.type # "COMMAND_AMF0"
  <2> SUFFICES ASSUME inbox.type = "COMMAND_AMF0" PROVE FALSE
    OBVIOUS
  <2>1. PICK k \in 1..Len(Commands) : inbox = CommandMessage(Commands[k])
    BY MessageInHand
  <2>2. ~Fails(inbox.payload) /\ inbox.payload # <<>>
    BY <2>1, CommandReads
  <2> QED
    BY <1>1, <2>2 DEF AMFFails, handleVideo, Drop, HandleGarbled, Dispatch, AmfTypes
<1> QED
  BY <1>1, <1>2 DEF HandledOn, Owing

LEMMA SpokeKeeps ==
  ASSUME SessionInv, SessionInv', Spoke, sync' => sync, [Next]_vars
  PROVE  Spoke'
<1> SUFFICES ASSUME sync'
             PROVE  Spoken' = Due(HandledOn(got', inbox', CommandStream, "COMMAND_AMF0"))
  BY DEF Spoke
<1>1. Spoken = Due(HandledOn(got, inbox, CommandStream, "COMMAND_AMF0"))
  BY DEF Spoke
<1>2. handleAMF \/ Spoken' = Spoken
  BY NextBase DEF SessionInv
<1>3. CASE ReadMessages
  <2>1. <<CommandStream, "COMMAND_AMF0">> \in Lines
    BY DEF Lines
  <2>2. Spoken' = Spoken
    BY <1>3, ReadKeepsBase DEF SessionInv
  <2>3. HandledOn(got', inbox', CommandStream, "COMMAND_AMF0")
          = HandledOn(got, inbox, CommandStream, "COMMAND_AMF0")
    BY <1>3, <2>1, ReadHands
  <2> QED
    BY <1>1, <2>2, <2>3, Zenon
<1>4. CASE handleAMF
  <2>1. Spoken' = Spoken \o AnswerSaid(Command(inbox.payload), TxId(inbox.payload))
    BY <1>4, HandleAMFKeeps DEF SessionInv
  <2>2. inbox' = None /\ got' = got
    BY <1>4, HandlersDispatch
  <2> QED
    BY <1>4, <2>1, <2>2, AMFAnswers
<1>5. CASE AMFFails \/ handleVideo \/ Drop \/ HandleGarbled
  <2>1. Spoken' = Spoken
    BY <1>5, OthersKeep DEF SessionInv
  <2>2. inbox # None /\ inbox' = None /\ got' = got
    BY <1>5, HandlersDispatch
  <2>3. HandledOn(got', inbox', CommandStream, "COMMAND_AMF0")
          = HandledOn(got, inbox, CommandStream, "COMMAND_AMF0")
    BY <1>5, <2>2, NoCommandHandled
  <2> QED
    BY <1>1, <2>1, <2>3, Zenon
<1>6. CASE UNCHANGED <<inbox, got, frames>> /\ ~handleAMF
  BY <1>1, <1>2, <1>6
<1> QED
  BY <1>3, <1>4, <1>5, <1>6, InboxStep

LEMMA PrefixOfConcat ==
  ASSUME NEW S, NEW a \in Seq(S), NEW b \in Seq(S), NEW s, s = a \o b
  PROVE  Len(a) <= Len(s) /\ SubSeq(s, 1, Len(a)) = a
<1>1. /\ s \in Seq(S) /\ Len(s) = Len(a) + Len(b)
      /\ \A i \in 1..Len(a) + Len(b) : s[i] = IF i <= Len(a) THEN a[i] ELSE b[i - Len(a)]
  BY ConcatProperties
<1>2. Len(a) \in Nat /\ Len(b) \in Nat
  BY LenProperties
<1>3. \A i \in 1..Len(a) : s[i] = a[i] /\ s[i] \in S
  BY <1>1, <1>2, ElementOfSeq
<1> DEFINE t == SubSeq(s, 1, Len(a))
<1>4. t \in Seq(S) /\ Len(t) = Len(a) /\ \A i \in 1..Len(a) : t[i] = s[i]
  <2>1. /\ t \in Seq(S) /\ Len(t) = (IF 1 <= Len(a) THEN Len(a) - 1 + 1 ELSE 0)
        /\ \A i \in 1..Len(a) - 1 + 1 : t[i] = s[1 + i - 1]
    BY <1>2, <1>3, SubSeqProperties
  <2> HIDE DEF t
  <2> QED
    BY <1>2, <2>1
<1> HIDE DEF t
<1>5. t = a
  BY <1>3, <1>4, SeqEqual
<1> QED
  BY <1>1, <1>2, <1>5 DEF t

LEMMA InitSpoke ==
  ASSUME Init
  PROVE  Spoke
<1>1. /\ heard = <<>> /\ down = <<>> /\ inbox = None
      /\ got = [c \in ChunkStreams |-> <<>>]
  BY DEF Init, ChunkInit
<1>2. HandledOn(got, inbox, CommandStream, "COMMAND_AMF0") = 0
  <2>1. Len(got[CommandStream]) = 0
    BY <1>1, StreamsThere
  <2> QED
    BY <1>1, <2>1 DEF HandledOn, Owing
<1>3. Due(0) = <<>>
  BY FlattenNone DEF Due
<1>4. Spoken = <<>>
  <2>1. Says(<<>>) = <<>> /\ <<>> \o <<>> = <<>>
    BY SaysNone, ConcatEmptySeq, EmptySeq
  <2> QED
    BY <1>1, <2>1, Zenon DEF Spoken
<1> QED
  BY <1>2, <1>3, <1>4 DEF Spoke

LEMMA SpokeInOrder ==
  ASSUME SessionInv, Spoke
  PROVE  AnswersInOrder
<1> DEFINE due == Flatten([i \in 1..asked |-> Reply(Commands[i])])
<1> SUFFICES ASSUME sync PROVE Len(heard) <= Len(due) /\ heard = SubSeq(due, 1, Len(heard))
  BY DEF AnswersInOrder
<1>1. PICK n : n = HandledOn(got, inbox, CommandStream, "COMMAND_AMF0")
  OBVIOUS
<1>2. asked \in 0..Len(Commands) /\ asked \in Nat /\ Len(Commands) \in Nat
  BY Counters, ConstantsType DEF SessionInv
<1>3. n \in 0..asked
  <2>1. <<CommandStream, "COMMAND_AMF0">> \in Lines
    BY DEF Lines
  <2>2. n \in 0..Len(sent[CommandStream])
    BY <1>1, <2>1, HandledRange
  <2>3. Len(sent[CommandStream]) = asked
    BY DEF SessionInv, Ledger, LedgerOf
  <2> QED
    BY <2>2, <2>3
<1>4. due = Due(asked)
  <2>1. [i \in 1..asked |-> Reply(Commands[i])] = First(Replies, asked)
    BY <1>2, ReplyType DEF First
  <2> QED
    BY <2>1 DEF Due
<1>5. \A i \in 1..asked : Replies[i] \in Seq(Sayings)
  BY <1>2, ReplyType
<1>6. PICK r \in Seq(Sayings) : Due(asked) = Due(n) \o r
  BY <1>2, <1>3, <1>5, FlattenBegins DEF Due
<1>7. Due(n) = heard \o Says(down)
  BY <1>1 DEF Spoke, Spoken
<1>8. heard \in Seq(Sayings) /\ Says(down) \in Seq(Sayings)
  BY SaysType DEF SessionInv, Base
<1> HIDE DEF due
<1>9. due = heard \o (Says(down) \o r) /\ Says(down) \o r \in Seq(Sayings)
  <2>1. Says(down) \o r \in Seq(Sayings) /\ (heard \o Says(down)) \o r = heard \o (Says(down) \o r)
    BY <1>8, ConcatAssociative, ConcatProperties
  <2> QED
    BY <1>4, <1>6, <1>7, <2>1, Zenon
<1> QED
  BY <1>8, <1>9, PrefixOfConcat

LEMMA AnswersInvariant ==
  ASSUME ~SameDelta
  PROVE  Spec => []SessionInv /\ [][sync' => sync]_vars /\ []Spoke
<1>1. Init => SessionInv /\ Spoke
  BY InvInit, InitSpoke
<1>2. SessionInv /\ [Next]_vars => SessionInv' /\ [sync' => sync]_vars
  BY InvKeeps
<1>3. SessionInv /\ SessionInv' /\ Spoke /\ [Next]_vars => Spoke'
  BY InvKeeps, SpokeKeeps
<1> QED
  BY <1>1, <1>2, <1>3, PTL DEF Spec

\* Every command a publisher sends is answered once, in the order of the
\* commands and under its own transaction id, by messages the publisher can
\* put together, until a read is torn.
THEOREM SessionAnswers ==
  ASSUME ~SameDelta
  PROVE  Spec => []AnswersInOrder
BY AnswersInvariant, SpokeInOrder, PTL

-----------------------------------------------------------------------------
(***************************************************************************)
(* The loops of handleVideo over what VideoMessage makes of a picture.     *)
(***************************************************************************)
LEMMA SliceIs ==
  ASSUME NEW S, NEW s \in Seq(S), NEW t \in Seq(S), NEW i \in Nat, i + Len(t) <= Len(s),
         \A j \in 1..Len(t) : s[i + j] = t[j]
  PROVE  SubSeq(s, i + 1, i + Len(t)) = t
<1>1. Len(s) \in Nat /\ Len(t) \in Nat
  BY LenProperties
<1>2. \A j \in i + 1..i + Len(t) : s[j] \in S
  BY <1>1, ElementOfSeq
<1> DEFINE q == SubSeq(s, i + 1, i + Len(t))
<1>3. /\ q \in Seq(S)
      /\ Len(q) = (IF i + 1 <= i + Len(t) THEN (i + Len(t)) - (i + 1) + 1 ELSE 0)
      /\ \A j \in 1..(i + Len(t)) - (i + 1) + 1 : q[j] = s[(i + 1) + j - 1]
  <2>1. i + 1 \in Int /\ i + Len(t) \in Int
    BY <1>1
  <2> QED
    BY <1>2, <2>1, SubSeqProperties
<1> HIDE DEF q
<1>4. Len(q) = Len(t) /\ \A j \in 1..Len(t) : q[j] = t[j]
  BY <1>1, <1>3
<1>5. q = t
  BY <1>3, <1>4, SeqEqual
<1> QED
  BY <1>5 DEF q

SetStart(i) == [ok |-> TRUE, at |-> i, set |-> <<>>]

SetTurns(p, i, n) ==
  CHOOSE turn : turn = [k \in 0..n |-> IF k = 0 THEN SetStart(i)
                                       ELSE SetTurn(p, turn[k - 1])]

LEMMA SetTurnsIs ==
  ASSUME NEW p, NEW i, NEW n \in Nat
  PROVE  SetTurns(p, i, n) = [k \in 0..n |-> IF k = 0 THEN SetStart(i)
                                            ELSE SetTurn(p, SetTurns(p, i, n)[k - 1])]
<1> DEFINE z == SetStart(i)
<1> HIDE DEF z
<1> DEFINE S == {m \in Nat : \E f : f = [k \in 0..m |-> IF k = 0 THEN z ELSE SetTurn(p, f[k - 1])]}
<1>1. 0 \in S
  <2> DEFINE f == [k \in 0..0 |-> z]
  <2>1. f = [k \in 0..0 |-> IF k = 0 THEN z ELSE SetTurn(p, f[k - 1])]
    OBVIOUS
  <2> QED
    BY <2>1
<1>2. ASSUME NEW m \in Nat, m \in S PROVE m + 1 \in S
  <2>1. PICK f : f = [k \in 0..m |-> IF k = 0 THEN z ELSE SetTurn(p, f[k - 1])]
    BY <1>2
  <2> DEFINE g == [k \in 0..m + 1 |-> IF k \in 0..m THEN f[k] ELSE SetTurn(p, f[k - 1])]
  <2>2. ASSUME NEW k \in 0..m + 1
        PROVE  g[k] = IF k = 0 THEN z ELSE SetTurn(p, g[k - 1])
    <3>1. k # 0 => k - 1 \in 0..m /\ g[k - 1] = f[k - 1]
      OBVIOUS
    <3>2. k \in 0..m => f[k] = IF k = 0 THEN z ELSE SetTurn(p, f[k - 1])
      BY <2>1
    <3>3. g[k] = IF k \in 0..m THEN f[k] ELSE SetTurn(p, f[k - 1])
      OBVIOUS
    <3>4. k \notin 0..m => k # 0
      OBVIOUS
    <3> HIDE DEF g
    <3> QED
      BY <3>1, <3>2, <3>3, <3>4, Zenon
  <2>3. g = [k \in 0..m + 1 |-> g[k]]
    OBVIOUS
  <2> HIDE DEF g
  <2>4. g = [k \in 0..m + 1 |-> IF k = 0 THEN z ELSE SetTurn(p, g[k - 1])]
    BY <2>2, <2>3, Zenon
  <2>5. \E h : h = [k \in 0..m + 1 |-> IF k = 0 THEN z ELSE SetTurn(p, h[k - 1])]
    BY <2>4, Zenon
  <2>6. m + 1 \in Nat
    OBVIOUS
  <2> QED
    BY <2>5, <2>6, Zenon
<1> HIDE DEF S
<1>3. Nat \subseteq S
  BY <1>1, <1>2, SetInduction
<1>4. \E f : f = [k \in 0..n |-> IF k = 0 THEN SetStart(i) ELSE SetTurn(p, f[k - 1])]
  BY <1>3 DEF S, z
<1> QED
  BY <1>4, Zenon DEF SetTurns

LEMMA SetTurnsAre ==
  ASSUME NEW p, NEW i, NEW n \in Nat
  PROVE  /\ SetTurns(p, i, n)[0] = SetStart(i)
         /\ \A k \in 0..n - 1 : SetTurns(p, i, n)[k + 1] = SetTurn(p, SetTurns(p, i, n)[k])
         /\ Sets(p, i, n) = SetTurns(p, i, n)[n]
<1> DEFINE f == SetTurns(p, i, n)
<1>1. f = [k \in 0..n |-> IF k = 0 THEN SetStart(i)
                          ELSE SetTurn(p, f[k - 1])]
  BY SetTurnsIs
<1>2. Sets(p, i, n) = f[n]
  BY DEF Sets, SetTurns, SetStart
<1> HIDE DEF f
<1>3. \A k \in 0..n : f[k] = IF k = 0 THEN SetStart(i)
                             ELSE SetTurn(p, f[k - 1])
  BY <1>1, Zenon
<1>4. 0 \in 0..n /\ \A k \in 0..n - 1 : k + 1 \in 0..n /\ k + 1 # 0 /\ (k + 1) - 1 = k
  OBVIOUS
<1>5. f[0] = SetStart(i)
  BY <1>3, <1>4, Zenon
<1>6. \A k \in 0..n - 1 : f[k + 1] = SetTurn(p, f[k])
  BY <1>3, <1>4, Zenon
<1> QED
  BY <1>2, <1>5, <1>6 DEF f

NaluStart(i) == [at |-> i, kept |-> <<>>]

NaluTurns(p, i) ==
  CHOOSE turn : turn = [k \in 0..Len(p) |-> IF k = 0 THEN NaluStart(i)
                                            ELSE NaluTurn(p, turn[k - 1])]

LEMMA NaluTurnsIs ==
  ASSUME NEW p, NEW i, Len(p) \in Nat
  PROVE  NaluTurns(p, i) = [k \in 0..Len(p) |-> IF k = 0 THEN NaluStart(i)
                                                ELSE NaluTurn(p, NaluTurns(p, i)[k - 1])]
<1> DEFINE z == NaluStart(i)
<1> HIDE DEF z
<1> DEFINE S == {m \in Nat : \E f : f = [k \in 0..m |-> IF k = 0 THEN z ELSE NaluTurn(p, f[k - 1])]}
<1>1. 0 \in S
  <2> DEFINE f == [k \in 0..0 |-> z]
  <2>1. f = [k \in 0..0 |-> IF k = 0 THEN z ELSE NaluTurn(p, f[k - 1])]
    OBVIOUS
  <2> QED
    BY <2>1
<1>2. ASSUME NEW m \in Nat, m \in S PROVE m + 1 \in S
  <2>1. PICK f : f = [k \in 0..m |-> IF k = 0 THEN z ELSE NaluTurn(p, f[k - 1])]
    BY <1>2
  <2> DEFINE g == [k \in 0..m + 1 |-> IF k \in 0..m THEN f[k] ELSE NaluTurn(p, f[k - 1])]
  <2>2. ASSUME NEW k \in 0..m + 1
        PROVE  g[k] = IF k = 0 THEN z ELSE NaluTurn(p, g[k - 1])
    <3>1. k # 0 => k - 1 \in 0..m /\ g[k - 1] = f[k - 1]
      OBVIOUS
    <3>2. k \in 0..m => f[k] = IF k = 0 THEN z ELSE NaluTurn(p, f[k - 1])
      BY <2>1
    <3>3. g[k] = IF k \in 0..m THEN f[k] ELSE NaluTurn(p, f[k - 1])
      OBVIOUS
    <3>4. k \notin 0..m => k # 0
      OBVIOUS
    <3> HIDE DEF g
    <3> QED
      BY <3>1, <3>2, <3>3, <3>4, Zenon
  <2>3. g = [k \in 0..m + 1 |-> g[k]]
    OBVIOUS
  <2> HIDE DEF g
  <2>4. g = [k \in 0..m + 1 |-> IF k = 0 THEN z ELSE NaluTurn(p, g[k - 1])]
    BY <2>2, <2>3, Zenon
  <2>5. \E h : h = [k \in 0..m + 1 |-> IF k = 0 THEN z ELSE NaluTurn(p, h[k - 1])]
    BY <2>4, Zenon
  <2>6. m + 1 \in Nat
    OBVIOUS
  <2> QED
    BY <2>5, <2>6, Zenon
<1> HIDE DEF S
<1>3. Nat \subseteq S
  BY <1>1, <1>2, SetInduction
<1>4. \E f : f = [k \in 0..Len(p) |-> IF k = 0 THEN NaluStart(i) ELSE NaluTurn(p, f[k - 1])]
  BY <1>3 DEF S, z
<1> QED
  BY <1>4, Zenon DEF NaluTurns

LEMMA NaluTurnsAre ==
  ASSUME NEW p, NEW i, NEW n \in Nat, n = Len(p)
  PROVE  /\ NaluTurns(p, i)[0] = NaluStart(i)
         /\ \A k \in 0..n - 1 : NaluTurns(p, i)[k + 1] = NaluTurn(p, NaluTurns(p, i)[k])
         /\ Nalus(p, i) = NaluTurns(p, i)[n].kept
<1> DEFINE f == NaluTurns(p, i)
<1>1. f = [k \in 0..n |-> IF k = 0 THEN NaluStart(i) ELSE NaluTurn(p, f[k - 1])]
  BY NaluTurnsIs
<1>2. Nalus(p, i) = f[n].kept
  BY DEF Nalus, NaluTurns, NaluStart
<1> HIDE DEF f
<1>3. \A k \in 0..n : f[k] = IF k = 0 THEN NaluStart(i) ELSE NaluTurn(p, f[k - 1])
  BY <1>1, Zenon
<1>4. 0 \in 0..n /\ \A k \in 0..n - 1 : k + 1 \in 0..n /\ k + 1 # 0 /\ (k + 1) - 1 = k
  OBVIOUS
<1>5. f[0] = NaluStart(i)
  BY <1>3, <1>4, Zenon
<1>6. \A k \in 0..n - 1 : f[k + 1] = NaluTurn(p, f[k])
  BY <1>3, <1>4, Zenon
<1> QED
  BY <1>2, <1>5, <1>6 DEF f

\* Units, and their numbers.
Parts == Units \cup ({"len"} \X Nat)

CountedOf(us) == [i \in 1..Len(us) |-> Counted(us[i])]
AllFirst(us, k) == Flatten(First(CountedOf(us), k))

LEMMA CountedType ==
  ASSUME NEW u \in Seq(Units)
  PROVE  /\ u \in Seq(Parts) /\ Counted(u) \in Seq(Parts)
         /\ Len(u) \in Nat /\ Len(Counted(u)) = Len(u) + 1
         /\ Counted(u)[1] = <<"len", Len(u)>>
         /\ \A j \in 1..Len(u) : Counted(u)[j + 1] = u[j]
<1>1. Len(u) \in Nat /\ u \in Seq(Parts)
  BY LenProperties, SeqMonotonic DEF Parts
<1> DEFINE h == <<<<"len", Len(u)>>>>
<1>2. h \in Seq(Parts) /\ Len(h) = 1 /\ h[1] = <<"len", Len(u)>>
  <2>1. <<"len", Len(u)>> \in Parts
    BY <1>1 DEF Parts
  <2> QED
    BY <2>1, ShortSeqs
<1>3. Counted(u) = h \o u
  BY DEF Counted
<1> HIDE DEF h
<1>4. /\ h \o u \in Seq(Parts) /\ Len(h \o u) = Len(h) + Len(u)
      /\ \A j \in 1..Len(h) + Len(u) : (h \o u)[j] = IF j <= Len(h) THEN h[j] ELSE u[j - Len(h)]
  BY <1>1, <1>2, ConcatProperties
<1> DEFINE c == h \o u
<1> HIDE DEF c
<1>5. /\ c \in Seq(Parts) /\ Len(c) = 1 + Len(u)
      /\ \A j \in 1..1 + Len(u) : c[j] = IF j <= 1 THEN h[j] ELSE u[j - 1]
  BY <1>2, <1>4, Zenon DEF c
<1>6. Len(c) = Len(u) + 1 /\ c[1] = <<"len", Len(u)>> /\ \A j \in 1..Len(u) : c[j + 1] = u[j]
  BY <1>1, <1>2, <1>5
<1>7. Counted(u) = c
  BY <1>3 DEF c
<1> QED
  BY <1>1, <1>5, <1>6, <1>7

\* What All makes of the units us, by and by.
LEMMA AllBegins ==
  ASSUME NEW us \in Seq(Seq(Units)), NEW n \in Nat, n = Len(us)
  PROVE  /\ All(us) = AllFirst(us, n) /\ AllFirst(us, 0) = <<>> /\ All(us) \in Seq(Parts)
         /\ \A k \in 0..n : AllFirst(us, k) \in Seq(Parts)
         /\ \A k \in 0..n - 1 :
              \E r \in Seq(Parts) :
                /\ AllFirst(us, k + 1) = AllFirst(us, k) \o Counted(us[k + 1])
                /\ All(us) = (AllFirst(us, k) \o Counted(us[k + 1])) \o r
<1> DEFINE cs == CountedOf(us)
<1>1. DOMAIN us = 1..n /\ \A i \in 1..n : us[i] \in Seq(Units)
  BY LenProperties, ElementOfSeq
<1>2. \A i \in 1..n : cs[i] = Counted(us[i]) /\ cs[i] \in Seq(Parts)
  BY <1>1, CountedType DEF CountedOf
<1> HIDE DEF cs
<1>3. \A k \in 0..n : Flatten(First(cs, k)) \in Seq(Parts)
  BY <1>2, FlattenFirst
<1>4. Flatten(First(cs, 0)) = <<>>
  BY FlattenNone
<1>5. All(us) = Flatten(First(cs, n))
  <2>1. [i \in DOMAIN us |-> Counted(us[i])] = First(cs, n)
    BY <1>1, <1>2 DEF First
  <2> QED
    BY <2>1 DEF All
<1>6. ASSUME NEW k \in 0..n - 1
      PROVE  \E r \in Seq(Parts) :
               /\ Flatten(First(cs, k + 1)) = Flatten(First(cs, k)) \o Counted(us[k + 1])
               /\ All(us) = (Flatten(First(cs, k)) \o Counted(us[k + 1])) \o r
  <2>1. k \in Nat /\ k + 1 \in 1..n /\ k + 1 \in 0..n /\ \A i \in 1..k + 1 : cs[i] \in Seq(Parts)
    BY <1>2
  <2>2. Flatten(First(cs, k + 1)) = Flatten(First(cs, k)) \o cs[k + 1]
    BY <2>1, FlattenOneMore
  <2>3. PICK r \in Seq(Parts) : Flatten(First(cs, n)) = Flatten(First(cs, k + 1)) \o r
    BY <1>2, <2>1, FlattenBegins, ZenonT(40)
  <2>4. cs[k + 1] = Counted(us[k + 1])
    BY <1>2, <2>1
  <2> QED
    BY <1>5, <2>2, <2>3, <2>4
<1>7. 0 \in 0..n /\ n \in 0..n
  OBVIOUS
<1>8. \A k : AllFirst(us, k) = Flatten(First(cs, k))
  BY DEF AllFirst, cs
<1> QED
  BY <1>3, <1>4, <1>5, <1>6, <1>7, <1>8

\* Payload p holds the units us from position i on.
Holds(p, us, i) ==
  /\ i \in Nat /\ i > 0 /\ i + Len(All(us)) <= Len(p) + 1
  /\ \A j \in 1..Len(All(us)) : p[(i - 1) + j] = All(us)[j]

\* Unit u is the one behind the first k, at x.
UnitAt(p, us, i, k, x, u) ==
  /\ x \in Nat /\ x >= i /\ u \in Seq(Units) /\ Len(u) \in Nat
  /\ p[x] = <<"len", Len(u)>> /\ x + Len(u) <= Len(p)
  /\ SubSeq(p, x + 1, x + Len(u)) = u /\ SubSeq(p, x, x + Len(u)) = Counted(u)
  /\ x + 1 + Len(u) = i + Len(AllFirst(us, k + 1))
  /\ Len(AllFirst(us, k + 1)) > Len(AllFirst(us, k))

\* Where each of the units us is in such a payload.
LEMMA UnitsAre ==
  ASSUME NEW p \in Seq(Parts), NEW us \in Seq(Seq(Units)), NEW n \in Nat, n = Len(us),
         NEW i, Holds(p, us, i)
  PROVE  \A k \in 0..n - 1 : UnitAt(p, us, i, k, i + Len(AllFirst(us, k)), us[k + 1])
<1> TAKE k \in 0..n - 1
<1>21. PICK at : at = i + Len(AllFirst(us, k))
  OBVIOUS
<1>22. PICK u : u = us[k + 1]
  OBVIOUS
<1> DEFINE a == AllFirst(us, k)
           c == Counted(u)
           s == All(us)
<1>1. k + 1 \in 1..n /\ k \in 0..n /\ u \in Seq(Units)
  <2>1. k + 1 \in 1..n /\ k \in 0..n
    OBVIOUS
  <2> QED
    BY <1>22, <2>1, ElementOfSeq
<1>2. /\ u \in Seq(Parts) /\ c \in Seq(Parts) /\ Len(u) \in Nat /\ Len(c) = Len(u) + 1
      /\ c[1] = <<"len", Len(u)>> /\ \A j \in 1..Len(u) : c[j + 1] = u[j]
  BY <1>1, CountedType
<1>3. PICK r \in Seq(Parts) : /\ AllFirst(us, k + 1) = a \o c
                              /\ s = (a \o c) \o r
  BY <1>22, AllBegins
<1>4. a \in Seq(Parts) /\ s \in Seq(Parts) /\ Len(a) \in Nat /\ Len(r) \in Nat /\ Len(p) \in Nat
      /\ Len(s) \in Nat
  <2>1. a \in Seq(Parts) /\ s \in Seq(Parts)
    BY <1>1, AllBegins
  <2> HIDE DEF a, s
  <2> QED
    BY <2>1, LenProperties
<1> HIDE DEF a, c, s
<1>0. i \in Nat /\ i > 0
  BY DEF Holds
<1>5. PICK x, y, z, lp, lr \in Nat :
        x = Len(a) /\ y = Len(u) /\ z = Len(s) /\ lp = Len(p) /\ lr = Len(r)
  BY <1>2, <1>4
<1>6. PICK b : b = a \o c
  OBVIOUS
<1>7. /\ b \in Seq(Parts) /\ Len(b) = x + (y + 1) /\ s = b \o r
      /\ \A j \in 1..x + (y + 1) : b[j] = IF j <= x THEN a[j] ELSE c[j - x]
  <2>1. /\ a \o c \in Seq(Parts) /\ Len(a \o c) = Len(a) + Len(c)
        /\ \A j \in 1..Len(a) + Len(c) : (a \o c)[j] = IF j <= Len(a) THEN a[j] ELSE c[j - Len(a)]
    BY <1>2, <1>4, ConcatProperties
  <2> QED
    BY <1>2, <1>3, <1>5, <1>6, <2>1, Zenon
<1>8. /\ z = (x + (y + 1)) + lr
      /\ \A j \in 1..(x + (y + 1)) + lr : s[j] = IF j <= x + (y + 1) THEN b[j] ELSE r[j - (x + (y + 1))]
  <2>1. /\ Len(b \o r) = Len(b) + Len(r)
        /\ \A j \in 1..Len(b) + Len(r) : (b \o r)[j] = IF j <= Len(b) THEN b[j] ELSE r[j - Len(b)]
    BY <1>7, ConcatProperties
  <2>2. b \o r = s /\ Len(r) = lr /\ Len(s) = z /\ Len(b) = x + (y + 1)
    BY <1>5, <1>7, Zenon
  <2>3. /\ Len(s) = Len(b) + lr
        /\ \A j \in 1..Len(b) + lr : s[j] = IF j <= Len(b) THEN b[j] ELSE r[j - Len(b)]
    BY <2>1, <2>2, Zenon
  <2> QED
    BY <2>2, <2>3, Zenon
<1>9. x + y + 1 <= z /\ \A j \in 1..y + 1 : s[x + j] = c[j]
  <2>1. ASSUME NEW j \in 1..y + 1 PROVE s[x + j] = c[j]
    <3>1. /\ x + j \in 1..(x + (y + 1)) + lr /\ x + j <= x + (y + 1)
          /\ x + j \in 1..x + (y + 1) /\ ~(x + j <= x) /\ (x + j) - x = j
      OBVIOUS
    <3>2. s[x + j] = b[x + j]
      BY <1>8, <3>1
    <3>3. b[x + j] = c[j]
      BY <1>7, <3>1
    <3> QED
      BY <3>2, <3>3
  <2>2. x + y + 1 <= z
    BY <1>8
  <2> QED
    BY <2>1, <2>2
<1>10. i + z <= lp + 1 /\ \A j \in 1..z : p[(i - 1) + j] = s[j]
  <2>1. i + Len(s) <= Len(p) + 1 /\ \A j \in 1..Len(s) : p[(i - 1) + j] = s[j]
    BY DEF s, Holds
  <2> QED
    BY <1>5, <2>1, Zenon
<1>11. at = i + x
  BY <1>5, <1>21 DEF a
<1>12. at \in Nat /\ at >= i /\ at + y <= lp /\ at + (y + 1) <= lp + 1
  <2>1. x + y + 1 <= z /\ i + z <= lp + 1
    BY <1>9, <1>10
  <2> QED
    BY <1>0, <1>11, <2>1
<1>13. \A j \in 1..y + 1 : p[(at - 1) + j] = c[j]
  <2> SUFFICES ASSUME NEW j \in 1..y + 1 PROVE p[(at - 1) + j] = c[j]
    OBVIOUS
  <2>1. x + j \in 1..z /\ (i - 1) + (x + j) = (at - 1) + j
    <3>1. x + y + 1 <= z
      BY <1>9
    <3>2. x + j \in 1..z /\ (i - 1) + (x + j) = ((i + x) - 1) + j
      BY <1>0, <3>1
    <3> QED
      BY <1>11, <3>2, Zenon
  <2>2. p[(i - 1) + (x + j)] = s[x + j]
    BY <1>10, <2>1
  <2>3. s[x + j] = c[j]
    BY <1>9
  <2> QED
    BY <2>1, <2>2, <2>3, Zenon
<1>14. p[at] = <<"len", Len(u)>>
  <2>1. 1 \in 1..y + 1 /\ (at - 1) + 1 = at
    BY <1>12
  <2>2. p[(at - 1) + 1] = c[1]
    BY <1>13, <2>1, Zenon
  <2> QED
    BY <1>2, <2>1, <2>2
<1>15. SubSeq(p, at + 1, at + Len(u)) = u
  <2>1. \A j \in 1..y : p[at + j] = u[j]
    <3> SUFFICES ASSUME NEW j \in 1..y PROVE p[at + j] = u[j]
      OBVIOUS
    <3>1. j + 1 \in 1..y + 1 /\ (at - 1) + (j + 1) = at + j
      BY <1>12
    <3>2. p[(at - 1) + (j + 1)] = c[j + 1]
      BY <1>13, <3>1
    <3>3. c[j + 1] = u[j]
      BY <1>2, <1>5
    <3> QED
      BY <3>1, <3>2, <3>3, Zenon
  <2>2. at + Len(u) <= Len(p) /\ \A j \in 1..Len(u) : p[at + j] = u[j]
    BY <1>5, <1>12, <2>1, Zenon
  <2> QED
    BY <1>2, <1>12, <2>2, SliceIs
<1>16. SubSeq(p, at, at + Len(u)) = c
  <2>1. PICK m \in Nat : m = at - 1 /\ m + 1 = at
    <3>1. at \in Nat /\ at > 0
      BY <1>0, <1>12
    <3>2. at - 1 \in Nat /\ (at - 1) + 1 = at
      BY <3>1
    <3> QED
      BY <3>2
  <2>2. m + (y + 1) = at + y /\ m + (y + 1) <= lp
    <3>1. at = m + 1 /\ at + y <= lp
      BY <1>12, <2>1
    <3>2. m + (y + 1) = (m + 1) + y
      OBVIOUS
    <3>3. m + (y + 1) = at + y
      BY <3>1, <3>2, Zenon
    <3> QED
      BY <3>1, <3>3, Zenon
  <2>3. \A j \in 1..y + 1 : p[m + j] = c[j]
    BY <1>13, <2>1, Zenon
  <2>4. Len(c) = y + 1
    BY <1>2, <1>5
  <2>5. m + Len(c) <= Len(p) /\ \A j \in 1..Len(c) : p[m + j] = c[j]
    BY <1>5, <2>2, <2>3, <2>4, Zenon
  <2>6. SubSeq(p, m + 1, m + Len(c)) = c
    BY <1>2, <2>5, SliceIs
  <2> QED
    BY <1>5, <2>1, <2>2, <2>4, <2>6, Zenon
<1>17. Len(AllFirst(us, k + 1)) = x + (y + 1)
  BY <1>3, <1>6, <1>7
<1>18. at + 1 + y = i + (x + (y + 1)) /\ x + (y + 1) > x
  <2>1. (i + x) + 1 + y = i + (x + (y + 1)) /\ x + (y + 1) > x
    BY <1>0
  <2> QED
    BY <1>11, <2>1, Zenon
<1>19. at + 1 + Len(u) = i + Len(AllFirst(us, k + 1)) /\ Len(AllFirst(us, k + 1)) > Len(a)
  BY <1>5, <1>17, <1>18, Zenon
<1>20. at + Len(u) <= Len(p)
  BY <1>5, <1>12, Zenon
<1>23. UnitAt(p, us, i, k, at, u)
  BY <1>1, <1>2, <1>12, <1>14, <1>15, <1>16, <1>19, <1>20 DEF a, c, UnitAt
<1> QED
  BY <1>21, <1>22, <1>23, Zenon

\* The loop over the parameter sets us ends behind them with the last one.
LEMMA SetsRead ==
  ASSUME NEW p \in Seq(Parts), NEW us \in Seq(Seq(Units)), NEW n \in Nat, n = Len(us),
         NEW i, Holds(p, us, i)
  PROVE  Sets(p, i, n) = [ok |-> TRUE, at |-> i + Len(All(us)), set |-> LastOf(us)]
<1> DEFINE turn == SetTurns(p, i, n)
           last(k) == IF k = 0 THEN <<>> ELSE us[k]
           at(k) == i + Len(AllFirst(us, k))
           T == {k \in 0..n : turn[k] = [ok |-> TRUE, at |-> at(k), set |-> last(k)]}
<1>1. /\ turn[0] = SetStart(i)
      /\ \A k \in 0..n - 1 : turn[k + 1] = SetTurn(p, turn[k])
      /\ Sets(p, i, n) = turn[n]
  BY SetTurnsAre
<1> HIDE DEF turn
<1>2. 0 \in T
  <2>1. AllFirst(us, 0) = <<>>
    BY AllBegins
  <2>2. at(0) = i /\ last(0) = <<>>
    <3>1. Len(<<>>) = 0
      BY EmptySeq
    <3>2. Len(AllFirst(us, 0)) = 0
      BY <2>1, <3>1, Zenon
    <3>3. i + 0 = i
      BY DEF Holds
    <3>4. i + Len(AllFirst(us, 0)) = i
      BY <3>2, <3>3, Zenon
    <3> QED
      BY <3>4
  <2>3. turn[0] = [ok |-> TRUE, at |-> i, set |-> <<>>]
    BY <1>1 DEF SetStart
  <2> HIDE DEF at, last
  <2>4. turn[0] = [ok |-> TRUE, at |-> at(0), set |-> last(0)]
    BY <2>2, <2>3, Zenon
  <2>5. 0 \in 0..n
    OBVIOUS
  <2> QED
    BY <2>4, <2>5, Zenon
<1>3. ASSUME NEW k \in 0..n - 1, k \in T PROVE k + 1 \in T
  <2>0. PICK x, u : /\ x = i + Len(AllFirst(us, k)) /\ u = us[k + 1]
                    /\ UnitAt(p, us, i, k, x, u)
    BY UnitsAre, Zenon
  <2>1. /\ x \in Nat /\ u \in Seq(Units)
        /\ x = i + Len(AllFirst(us, k)) /\ u = us[k + 1] /\ Len(u) \in Nat
        /\ p[x] = <<"len", Len(u)>> /\ x + Len(u) <= Len(p)
        /\ SubSeq(p, x + 1, x + Len(u)) = u
        /\ x + 1 + Len(u) = i + Len(AllFirst(us, k + 1))
    BY <2>0, Zenon DEF UnitAt
  <2>2. x = at(k)
    BY <2>1
  <2>3. /\ x \in Nat /\ Len(u) \in Nat
        /\ p[x] = <<"len", Len(u)>> /\ x + Len(u) <= Len(p)
        /\ SubSeq(p, x + 1, x + Len(u)) = u
        /\ x + 1 + Len(u) = at(k + 1)
    BY <2>1
  <2>4. last(k + 1) = u /\ k + 1 \in 0..n
    BY <2>1
  <2>5. turn[k] = [ok |-> TRUE, at |-> x, set |-> last(k)]
    BY <1>3, <2>2
  <2> HIDE DEF at, last
  <2>6. PICK l : l = turn[k]
    OBVIOUS
  <2>7. l.ok = TRUE /\ l.at = x /\ p[l.at][2] = Len(u)
    BY <2>3, <2>5, <2>6
  <2>8. Len(p) \in Nat
    BY LenProperties
  <2>9. SetTurn(p, l) = [ok |-> TRUE, at |-> x + 1 + Len(u), set |-> SubSeq(p, x + 1, x + Len(u))]
    <3>1. SetTurn(p, l) =
            IF ~l.ok \/ l.at > Len(p) THEN l
            ELSE IF l.at + p[l.at][2] > Len(p) THEN [l EXCEPT !.ok = FALSE]
            ELSE [ok |-> TRUE, at |-> l.at + 1 + p[l.at][2],
                  set |-> SubSeq(p, l.at + 1, l.at + p[l.at][2])]
      BY DEF SetTurn
    <3>2. ~(~l.ok \/ l.at > Len(p)) /\ ~(l.at + p[l.at][2] > Len(p))
      BY <2>3, <2>7, <2>8, SMTT(40)
    <3>3. SetTurn(p, l) = [ok |-> TRUE, at |-> l.at + 1 + p[l.at][2],
                           set |-> SubSeq(p, l.at + 1, l.at + p[l.at][2])]
      BY <3>1, <3>2, Zenon
    <3> QED
      BY <2>7, <3>3, Zenon
  <2>10. turn[k + 1] = [ok |-> TRUE, at |-> at(k + 1), set |-> last(k + 1)]
    BY <1>1, <2>3, <2>4, <2>6, <2>9
  <2> QED
    BY <2>4, <2>10
<1> HIDE DEF T
<1>4. 0..n \subseteq T
  BY <1>2, <1>3, UpTo
<1>5. turn[n] = [ok |-> TRUE, at |-> at(n), set |-> last(n)]
  BY <1>4 DEF T
<1>6. at(n) = i + Len(All(us))
  BY AllBegins
<1>7. last(n) = LastOf(us)
  BY EmptySeq DEF LastOf
<1> HIDE DEF at, last
<1> QED
  BY <1>1, <1>5, <1>6, <1>7

\* What the loop over the NAL units keeps of the units us, by and by.
Keep(us) == [j \in 1..Len(us) |-> IF us[j] = <<>> THEN <<>> ELSE Counted(us[j])]
KeptFirst(us, k) == Flatten(First(Keep(us), k))

LEMMA KeptBegins ==
  ASSUME NEW us \in Seq(Seq(Units)), NEW n \in Nat, n = Len(us)
  PROVE  /\ KeptFirst(us, 0) = <<>>
         /\ \A k \in 0..n : KeptFirst(us, k) \in Seq(Parts)
         /\ \A k \in 0..n - 1 :
              /\ us[k + 1] = <<>> => KeptFirst(us, k + 1) = KeptFirst(us, k)
              /\ us[k + 1] # <<>> => KeptFirst(us, k + 1) = KeptFirst(us, k) \o Counted(us[k + 1])
<1> DEFINE ks == Keep(us)
<1>1. \A j \in 1..n : us[j] \in Seq(Units)
  BY ElementOfSeq
<1>2. \A j \in 1..n : Counted(us[j]) \in Seq(Parts)
  BY <1>1, CountedType
<1>3. <<>> \in Seq(Parts)
  BY EmptySeq
<1>4. \A j \in 1..n : /\ us[j] = <<>> => ks[j] = <<>>
                      /\ us[j] # <<>> => ks[j] = Counted(us[j])
  BY DEF Keep
<1> HIDE DEF ks
<1>5. \A j \in 1..n : ks[j] \in Seq(Parts)
  BY <1>2, <1>3, <1>4, Zenon
<1> DEFINE F(k) == Flatten(First(ks, k))
<1>6. \A k \in 0..n : F(k) \in Seq(Parts)
  BY <1>5, FlattenFirst
<1>7. F(0) = <<>>
  BY FlattenNone
<1>8. ASSUME NEW k \in 0..n - 1
      PROVE  /\ us[k + 1] = <<>> => F(k + 1) = F(k)
             /\ us[k + 1] # <<>> => F(k + 1) = F(k) \o Counted(us[k + 1])
  <2>1. k \in Nat /\ k \in 0..n /\ k + 1 \in 1..n /\ \A i \in 1..k + 1 : ks[i] \in Seq(Parts)
    BY <1>5
  <2>2. F(k + 1) = F(k) \o ks[k + 1]
    BY <2>1, FlattenOneMore
  <2>3. F(k) \in Seq(Parts)
    BY <1>6, <2>1
  <2> HIDE DEF F
  <2>4. F(k) \o <<>> = F(k)
    BY <2>3, ConcatEmptySeq
  <2> QED
    BY <1>4, <2>1, <2>2, <2>4, Zenon
<1>9. \A k : KeptFirst(us, k) = F(k)
  BY DEF KeptFirst, ks
<1> HIDE DEF F
<1> QED
  BY <1>6, <1>7, <1>8, <1>9, Zenon

\* A unit more makes what is before the next one longer.
LEMMA UnitsGrow ==
  ASSUME NEW p \in Seq(Parts), NEW us \in Seq(Seq(Units)), NEW n \in Nat, n = Len(us),
         NEW i, Holds(p, us, i)
  PROVE  n <= Len(All(us)) /\ n <= Len(p)
<1> DEFINE L(k) == Len(AllFirst(us, k))
           T == {k \in 0..n : k <= L(k)}
<1>1. \A k \in 0..n : AllFirst(us, k) \in Seq(Parts)
  BY AllBegins
<1>2. \A k \in 0..n : L(k) \in Nat
  BY <1>1, LenProperties
<1>3. L(0) = 0
  <2>1. AllFirst(us, 0) = <<>>
    BY AllBegins
  <2> QED
    BY <2>1, EmptySeq
<1>4. \A k \in 0..n - 1 : L(k + 1) > L(k)
  BY UnitsAre, Zenon DEF UnitAt
<1>5. L(n) = Len(All(us))
  BY AllBegins
<1> HIDE DEF L
<1>6. 0 \in T
  BY <1>3
<1>7. ASSUME NEW k \in 0..n - 1, k \in T PROVE k + 1 \in T
  <2>1. k \in 0..n /\ k + 1 \in 0..n
    OBVIOUS
  <2>2. L(k) \in Nat /\ L(k + 1) \in Nat /\ L(k + 1) > L(k) /\ k <= L(k)
    BY <1>2, <1>4, <1>7, <2>1
  <2> QED
    BY <2>1, <2>2
<1> HIDE DEF T
<1>8. 0..n \subseteq T
  BY <1>6, <1>7, UpTo
<1>9. n \in T
  BY <1>8
<1>10. n <= L(n) /\ L(n) \in Nat
  BY <1>2, <1>9 DEF T
<1>11. i \in Nat /\ i > 0 /\ i + L(n) <= Len(p) + 1 /\ Len(p) \in Nat
  BY <1>5, LenProperties DEF Holds
<1>12. n <= Len(p)
  BY <1>10, <1>11
<1> QED
  BY <1>5, <1>10, <1>12, Zenon

\* The loop over the NAL units us, which end the payload, keeps those that are
\* not empty.
LEMMA NalusRead ==
  ASSUME NEW p \in Seq(Parts), NEW us \in Seq(Seq(Units)), NEW n \in Nat, n = Len(us),
         NEW i, Holds(p, us, i), i + Len(All(us)) = Len(p) + 1
  PROVE  Nalus(p, i) = KeptFirst(us, n)
<1> DEFINE turn == NaluTurns(p, i)
           at(k) == i + Len(AllFirst(us, k))
           kept(k) == KeptFirst(us, k)
           T == {k \in 0..n : turn[k] = [at |-> at(k), kept |-> kept(k)]}
<1>0. PICK lp \in Nat : lp = Len(p)
  BY LenProperties
<1>1. /\ turn[0] = NaluStart(i)
      /\ \A k \in 0..lp - 1 : turn[k + 1] = NaluTurn(p, turn[k])
      /\ Nalus(p, i) = turn[lp].kept
  BY <1>0, NaluTurnsAre
<1> HIDE DEF turn
<1>2. n <= lp
  BY <1>0, UnitsGrow, Zenon
<1>3. 0 \in T
  <2>1. AllFirst(us, 0) = <<>> /\ KeptFirst(us, 0) = <<>>
    BY AllBegins, KeptBegins
  <2>2. at(0) = i /\ kept(0) = <<>>
    <3>1. Len(<<>>) = 0
      BY EmptySeq
    <3>2. Len(AllFirst(us, 0)) = 0
      BY <2>1, <3>1, Zenon
    <3>3. i + 0 = i
      BY DEF Holds
    <3>4. i + Len(AllFirst(us, 0)) = i
      BY <3>2, <3>3, Zenon
    <3> QED
      BY <2>1, <3>4
  <2>3. turn[0] = [at |-> i, kept |-> <<>>]
    BY <1>1 DEF NaluStart
  <2> HIDE DEF at, kept
  <2>4. turn[0] = [at |-> at(0), kept |-> kept(0)]
    BY <2>2, <2>3, Zenon
  <2>5. 0 \in 0..n
    OBVIOUS
  <2> QED
    BY <2>4, <2>5, Zenon
<1>4. ASSUME NEW k \in 0..n - 1, k \in T PROVE k + 1 \in T
  <2>0. PICK x, u : /\ x = i + Len(AllFirst(us, k)) /\ u = us[k + 1]
                    /\ UnitAt(p, us, i, k, x, u)
    BY UnitsAre, Zenon
  <2>1. /\ x \in Nat /\ u \in Seq(Units)
        /\ x = i + Len(AllFirst(us, k)) /\ u = us[k + 1] /\ Len(u) \in Nat
        /\ p[x] = <<"len", Len(u)>> /\ x + Len(u) <= Len(p)
        /\ SubSeq(p, x, x + Len(u)) = Counted(u)
        /\ x + 1 + Len(u) = i + Len(AllFirst(us, k + 1))
    BY <2>0, Zenon DEF UnitAt
  <2>2. x = at(k) /\ x + 1 + Len(u) = at(k + 1)
    BY <2>1
  <2>3. /\ u = <<>> => kept(k + 1) = kept(k)
        /\ u # <<>> => kept(k + 1) = kept(k) \o Counted(u)
    BY <2>1, KeptBegins
  <2>4. k \in 0..lp - 1 /\ k + 1 \in 0..n
    BY <1>2
  <2>5. turn[k] = [at |-> x, kept |-> kept(k)]
    BY <1>4, <2>2
  <2> HIDE DEF at, kept
  <2>6. PICK l : l = turn[k]
    OBVIOUS
  <2>7. l = [at |-> x, kept |-> kept(k)] /\ l.at = x /\ l.kept = kept(k) /\ p[l.at][2] = Len(u)
    <3>1. l = [at |-> x, kept |-> kept(k)]
      BY <2>5, <2>6, Zenon
    <3>2. l.at = x /\ l.kept = kept(k)
      BY <3>1
    <3>3. p[x][2] = Len(u)
      BY <2>1
    <3> QED
      BY <3>1, <3>2, <3>3, Zenon
  <2>8. NaluTurn(p, l) =
          IF l.at > Len(p) THEN l
          ELSE IF p[l.at][2] = 0 THEN [l EXCEPT !.at = l.at + 1]
          ELSE IF l.at + p[l.at][2] > Len(p) THEN [l EXCEPT !.at = Len(p) + 1]
          ELSE [at |-> l.at + 1 + p[l.at][2],
                kept |-> l.kept \o SubSeq(p, l.at, l.at + p[l.at][2])]
    BY DEF NaluTurn
  <2>9. ~(l.at > Len(p)) /\ ~(l.at + p[l.at][2] > Len(p))
    <3>0. PICK y \in Nat : y = Len(u)
      BY <2>1
    <3>2. x + y <= lp
      BY <1>0, <2>1, <3>0, Zenon
    <3>4. x \in Nat
      BY <2>1
    <3>3. ~(x > lp) /\ ~(x + y > lp)
      BY <3>2, <3>4
    <3>1. ~(x > Len(p)) /\ ~(x + Len(u) > Len(p))
      BY <1>0, <3>0, <3>3, Zenon
    <3> QED
      BY <2>7, <3>1, Zenon
  <2>10. turn[k + 1] = [at |-> at(k + 1), kept |-> kept(k + 1)]
    <3>1. turn[k + 1] = NaluTurn(p, l)
      BY <1>1, <2>4, <2>6
    <3>2. CASE Len(u) = 0
      <4>1. u = <<>>
        BY <3>2, <2>1, EmptySeq
      <4>2. NaluTurn(p, l) = [l EXCEPT !.at = l.at + 1]
        BY <2>7, <2>8, <2>9, <3>2, Zenon
      <4>3. [l EXCEPT !.at = l.at + 1] = [at |-> x + 1, kept |-> kept(k)]
        BY <2>7
      <4>4. at(k + 1) = x + 1
        <5>1. x + 1 + 0 = x + 1
          BY <2>1
        <5> QED
          BY <2>2, <3>2, <5>1, Zenon
      <4> QED
        BY <2>3, <3>1, <4>1, <4>2, <4>3, <4>4, Zenon
    <3>3. CASE Len(u) # 0
      <4>1. u # <<>>
        BY <3>3, EmptySeq
      <4>2. NaluTurn(p, l) = [at |-> l.at + 1 + p[l.at][2],
                              kept |-> l.kept \o SubSeq(p, l.at, l.at + p[l.at][2])]
        BY <2>7, <2>8, <2>9, <3>3, Zenon
      <4>3. NaluTurn(p, l) = [at |-> x + 1 + Len(u), kept |-> kept(k) \o Counted(u)]
        BY <2>1, <2>7, <4>2, Zenon
      <4> QED
        BY <2>2, <2>3, <3>1, <4>1, <4>3, Zenon
    <3> QED
      BY <3>2, <3>3
  <2> QED
    BY <2>4, <2>10
<1> HIDE DEF T
<1>5. 0..n \subseteq T
  BY <1>3, <1>4, UpTo
<1>6. turn[n] = [at |-> at(n), kept |-> kept(n)]
  BY <1>5 DEF T
<1>7. at(n) = lp + 1
  BY <1>0, AllBegins
<1> DEFINE U == {k \in Nat : n + k <= lp => turn[n + k] = [at |-> lp + 1, kept |-> kept(n)]}
<1> HIDE DEF at, kept
<1>8. 0 \in U
  BY <1>6, <1>7
<1>9. ASSUME NEW k \in Nat, k \in U PROVE k + 1 \in U
  <2> SUFFICES ASSUME n + (k + 1) <= lp
               PROVE  turn[n + (k + 1)] = [at |-> lp + 1, kept |-> kept(n)]
    OBVIOUS
  <2>1. n + k \in 0..lp - 1 /\ n + k <= lp /\ n + (k + 1) = (n + k) + 1
    OBVIOUS
  <2>2. turn[n + k] = [at |-> lp + 1, kept |-> kept(n)]
    BY <1>9, <2>1
  <2>3. PICK l : l = turn[n + k]
    OBVIOUS
  <2>4. l.at = lp + 1 /\ l.at > Len(p)
    BY <1>0, <2>2, <2>3
  <2>5. NaluTurn(p, l) = l
    BY <2>4, Zenon DEF NaluTurn
  <2>6. turn[(n + k) + 1] = NaluTurn(p, turn[n + k])
    BY <1>1, <2>1
  <2> QED
    BY <2>1, <2>2, <2>3, <2>5, <2>6, Zenon
<1> HIDE DEF U
<1>10. Nat \subseteq U
  BY <1>8, <1>9, SetInduction
<1>11. lp - n \in U /\ n + (lp - n) = lp
  BY <1>2, <1>10
<1>12. turn[lp] = [at |-> lp + 1, kept |-> kept(n)]
  BY <1>11 DEF U
<1>13. turn[lp].kept = kept(n)
  BY <1>12
<1> QED
  BY <1>1, <1>13 DEF kept

\* The elements of two sequences put together.
Joins(s, S, a, b, m, n) ==
  /\ s \in Seq(S) /\ Len(s) = m + n
  /\ \A j \in 1..m : s[j] = a[j]
  /\ \A j \in 1..n : s[m + j] = b[j]

LEMMA Joint ==
  ASSUME NEW S, NEW a \in Seq(S), NEW b \in Seq(S)
  PROVE  \A m, n \in Nat : Len(a) = m /\ Len(b) = n => Joins(a \o b, S, a, b, m, n)
<1> SUFFICES ASSUME NEW m \in Nat, NEW n \in Nat, Len(a) = m, Len(b) = n
             PROVE  Joins(a \o b, S, a, b, m, n)
  OBVIOUS
<1>0. PICK s : s = a \o b
  OBVIOUS
<1>1. /\ a \o b \in Seq(S) /\ Len(a \o b) = Len(a) + Len(b)
      /\ \A j \in 1..Len(a) + Len(b) : (a \o b)[j] = IF j <= Len(a) THEN a[j] ELSE b[j - Len(a)]
  BY ConcatProperties
<1>2. /\ s \in Seq(S) /\ Len(s) = m + n
      /\ \A j \in 1..m + n : s[j] = IF j <= m THEN a[j] ELSE b[j - m]
  BY <1>0, <1>1, Zenon
<1>3. \A j \in 1..m : j \in 1..m + n /\ j <= m
  OBVIOUS
<1>4. \A j \in 1..n : m + j \in 1..m + n /\ ~(m + j <= m) /\ (m + j) - m = j
  OBVIOUS
<1>5. \A j \in 1..m : s[j] = a[j]
  BY <1>2, <1>3, Zenon
<1>6. \A j \in 1..n : s[m + j] = b[j]
  BY <1>2, <1>4, ZenonT(40)
<1> QED
  BY <1>0, <1>2, <1>5, <1>6, Zenon DEF Joins

-----------------------------------------------------------------------------
(***************************************************************************)
(* handleVideo takes the frame out of a message that the publisher made of *)
(* a picture.                                                              *)
(***************************************************************************)
\* The only index of a sequence of one member.
LEMMA OneToOne == 1 \in 1..1
OBVIOUS

\* The NAL units.
LEMMA NaluPayload ==
  ASSUME NEW v, v.nals \in Seq(Seq(Units)), NEW n \in Nat, n = Len(v.nals),
         NEW p \in Seq(Parts), p = <<<<"avc", "nalu">>>> \o All(v.nals)
  PROVE  /\ p # <<>> /\ p[1][1] = "avc" /\ p[1][2] = "nalu"
         /\ Nalus(p, 2) = KeptFirst(v.nals, n)
<1> DEFINE x == <<"avc", "nalu">>
           h == <<x>>
           A == All(v.nals)
           S == Parts \cup {x}
<1>1. A \in Seq(Parts)
  BY AllBegins
<1>2. h \in Seq(S) /\ Len(h) = 1 /\ h[1] = x /\ A \in Seq(S)
  <2>1. x \in S /\ Parts \subseteq S
    OBVIOUS
  <2> HIDE DEF x, S, A
  <2>2. h \in Seq(S) /\ A \in Seq(S)
    BY <1>1, <2>1, ShortSeqs, SeqMonotonic
  <2>3. Len(h) = 1 /\ h[1] = x
    OBVIOUS
  <2> QED
    BY <2>2, <2>3
<1>3. PICK la \in Nat : la = Len(A)
  BY <1>1, LenProperties
<1>4. x[1] = "avc" /\ x[2] = "nalu"
  OBVIOUS
<1>5. p = h \o A
  OBVIOUS
<1> HIDE DEF x, h, A, S
<1>6. /\ Len(p) = 1 + la /\ \A j \in 1..1 : p[j] = h[j]
      /\ \A j \in 1..la : p[1 + j] = A[j]
  <2>1. 1 \in Nat /\ Len(A) = la
    BY <1>3
  <2>2. Joins(h \o A, S, h, A, 1, la)
    BY <1>2, <1>3, <2>1, Joint, Zenon
  <2> QED
    BY <1>5, <2>2, Zenon DEF Joins
<1>7. p[1] = x
  <2>1. 1 \in 1..1
    BY OneToOne
  <2>2. p[1] = h[1]
    BY <1>6, <2>1, Zenon
  <2> QED
    BY <1>2, <2>2, Zenon
<1>8. p # <<>>
  BY <1>3, <1>6, EmptySeq
<1>9. 2 \in Nat /\ 2 > 0 /\ 2 + la = Len(p) + 1 /\ 2 + la <= Len(p) + 1 /\ 2 - 1 = 1
  BY <1>3, <1>6
<1>10. Holds(p, v.nals, 2)
  BY <1>3, <1>6, <1>9, Zenon DEF Holds, A
<1>11. 2 + Len(All(v.nals)) = Len(p) + 1
  BY <1>3, <1>9, Zenon DEF A
<1>12. Nalus(p, 2) = KeptFirst(v.nals, n)
  BY <1>10, <1>11, NalusRead, Zenon
<1> QED
  BY <1>4, <1>7, <1>8, <1>12, Zenon

\* The parameter sets.
LEMMA HeaderPayload ==
  ASSUME NEW v, v.sps \in Seq(Seq(Units)), v.pps \in Seq(Seq(Units)),
         NEW p \in Seq(Parts),
         p = <<<<"avc", "header">>, <<"cfg", 1>>, <<"n", Len(v.sps)>>>> \o All(v.sps)
             \o <<<<"n", Len(v.pps)>>>> \o All(v.pps)
  PROVE  /\ p # <<>> /\ p[1][1] = "avc" /\ p[1][2] = "header" /\ ~(Len(p) < 3)
         /\ \E at \in Nat :
              /\ Sets(p, 4, p[3][2]) = [ok |-> TRUE, at |-> at, set |-> LastOf(v.sps)]
              /\ ~(at > Len(p))
              /\ \E e : Sets(p, at + 1, p[at][2]) = [ok |-> TRUE, at |-> e, set |-> LastOf(v.pps)]
<1>1. PICK a, b \in Nat : a = Len(v.sps) /\ b = Len(v.pps)
  BY LenProperties
<1> DEFINE x1 == <<"avc", "header">>
           x2 == <<"cfg", 1>>
           x3 == <<"n", a>>
           x4 == <<"n", b>>
           h == <<x1, x2, x3>>
           g == <<x4>>
           A == All(v.sps)
           B == All(v.pps)
           S == Parts \cup {x1, x2, x3, x4}
<1>2. A \in Seq(Parts) /\ B \in Seq(Parts)
  BY <1>1, AllBegins
<1>3. p = ((h \o A) \o g) \o B
  BY <1>1, Zenon
<1>4. x1[1] = "avc" /\ x1[2] = "header" /\ x3[2] = a /\ x4[2] = b
  OBVIOUS
<1>5. /\ h \in Seq(S) /\ Len(h) = 3 /\ h[1] = x1 /\ h[3] = x3
      /\ g \in Seq(S) /\ Len(g) = 1 /\ g[1] = x4
      /\ A \in Seq(S) /\ B \in Seq(S)
  <2>1. x1 \in S /\ x2 \in S /\ x3 \in S /\ x4 \in S /\ Parts \subseteq S
    OBVIOUS
  <2> HIDE DEF x1, x2, x3, x4, S, A, B
  <2>2. h \in Seq(S) /\ Len(h) = 3 /\ h[1] = x1 /\ h[3] = x3
    BY <2>1
  <2>3. g \in Seq(S) /\ Len(g) = 1 /\ g[1] = x4
    BY <2>1
  <2>4. A \in Seq(S) /\ B \in Seq(S)
    BY <1>2, <2>1, SeqMonotonic
  <2> QED
    BY <2>2, <2>3, <2>4
<1>6. PICK la, lb \in Nat : la = Len(A) /\ lb = Len(B)
  BY <1>2, LenProperties
<1> HIDE DEF x1, x2, x3, x4, h, g, A, B, S
<1>7. PICK q : q = h \o A
  OBVIOUS
<1>8. PICK r : r = q \o g
  OBVIOUS
<1>9. p = r \o B
  BY <1>3, <1>7, <1>8, Zenon
<1>10. /\ q \in Seq(S) /\ Len(q) = 3 + la
       /\ \A j \in 1..3 : q[j] = h[j]
       /\ \A j \in 1..la : q[3 + j] = A[j]
  <2>1. 3 \in Nat /\ Len(A) = la
    BY <1>6
  <2>2. Joins(h \o A, S, h, A, 3, la)
    BY <1>5, <1>6, <2>1, Joint, Zenon
  <2> QED
    BY <1>7, <2>2, Zenon DEF Joins
<1>11. /\ r \in Seq(S) /\ Len(r) = (3 + la) + 1
       /\ \A j \in 1..3 + la : r[j] = q[j]
       /\ \A j \in 1..1 : r[(3 + la) + j] = g[j]
  <2>1. 3 + la \in Nat /\ 1 \in Nat
    BY <1>6
  <2> QED
    <3>1. Joins(q \o g, S, q, g, 3 + la, 1)
      BY <1>5, <1>10, <2>1, Joint, Zenon
    <3> QED
      BY <1>8, <3>1, Zenon DEF Joins
<1>12. /\ Len(p) = ((3 + la) + 1) + lb
       /\ \A j \in 1..(3 + la) + 1 : p[j] = r[j]
       /\ \A j \in 1..lb : p[((3 + la) + 1) + j] = B[j]
  <2>1. (3 + la) + 1 \in Nat
    BY <1>6
  <2> QED
    <3>1. Len(B) = lb
      BY <1>6
    <3>2. Joins(r \o B, S, r, B, (3 + la) + 1, lb)
      BY <1>5, <1>6, <1>11, <2>1, <3>1, Joint, Zenon
    <3> QED
      BY <1>9, <3>2, Zenon DEF Joins
<1>13. p[1] = x1 /\ p[3] = x3
  <2>1. \A j \in {1, 3} : j \in 1..3 /\ j \in 1..3 + la /\ j \in 1..(3 + la) + 1
    BY <1>6
  <2>2. \A j \in {1, 3} : p[j] = h[j]
    BY <1>10, <1>11, <1>12, <2>1, Zenon
  <2> QED
    BY <1>5, <2>2
<1>14. p[4 + la] = x4
  <2>1. (3 + la) + 1 = 4 + la /\ (3 + la) + 1 \in 1..(3 + la) + 1 /\ 1 \in 1..1
    BY <1>6
  <2>2. p[(3 + la) + 1] = r[(3 + la) + 1] /\ r[(3 + la) + 1] = g[1]
    BY <1>11, <1>12, <2>1, Zenon
  <2> QED
    BY <1>5, <2>1, <2>2, Zenon
<1>15. Holds(p, v.sps, 4)
  <2>1. \A j \in 1..la : (4 - 1) + j = 3 + j /\ 3 + j \in 1..3 + la /\ 3 + j \in 1..(3 + la) + 1
    BY <1>6
  <2>2. \A j \in 1..la : p[(4 - 1) + j] = A[j]
    BY <1>10, <1>11, <1>12, <2>1, ZenonT(40)
  <2>3. 4 \in Nat /\ 4 > 0 /\ 4 + la <= Len(p) + 1
    BY <1>6, <1>12
  <2> QED
    BY <1>6, <2>2, <2>3, Zenon DEF Holds, A
<1>16. PICK at \in Nat : at = 4 + la
  BY <1>6
<1>17. Holds(p, v.pps, at + 1)
  <2>1. \A j \in 1..lb : ((at + 1) - 1) + j = ((3 + la) + 1) + j
    BY <1>6, <1>16
  <2>2. \A j \in 1..lb : p[((at + 1) - 1) + j] = B[j]
    BY <1>12, <2>1, Zenon
  <2>3. at + 1 \in Nat /\ at + 1 > 0 /\ (at + 1) + lb <= Len(p) + 1
    <3>1. PICK n : n = ((3 + la) + 1) + lb
      OBVIOUS
    <3>2. Len(p) = n
      BY <1>12, <3>1, Zenon
    <3>3. at + 1 \in Nat /\ at + 1 > 0 /\ (at + 1) + lb <= n + 1
      BY <1>16, <3>1
    <3> QED
      BY <3>2, <3>3, Zenon
  <2> QED
    BY <1>6, <2>2, <2>3, Zenon DEF Holds, B
<1>18. Sets(p, 4, p[3][2]) = [ok |-> TRUE, at |-> at, set |-> LastOf(v.sps)]
  <2>1. p[3][2] = a
    BY <1>4, <1>13
  <2>2. Sets(p, 4, a) = [ok |-> TRUE, at |-> 4 + Len(All(v.sps)), set |-> LastOf(v.sps)]
    BY <1>1, <1>15, SetsRead, ZenonT(40)
  <2> QED
    BY <1>6, <1>16, <2>1, <2>2, Zenon DEF A
<1>19. \E e : Sets(p, at + 1, p[at][2]) = [ok |-> TRUE, at |-> e, set |-> LastOf(v.pps)]
  <2>1. p[at][2] = b
    BY <1>4, <1>14, <1>16
  <2>2. Sets(p, at + 1, b) = [ok |-> TRUE, at |-> (at + 1) + Len(All(v.pps)), set |-> LastOf(v.pps)]
    BY <1>1, <1>17, SetsRead, ZenonT(40)
  <2> QED
    BY <2>1, <2>2, Zenon
<1>20. ~(at > Len(p)) /\ ~(Len(p) < 3) /\ Len(p) # 0
  BY <1>6, <1>12, <1>16, SMTT(40)
<1>21. p # <<>>
  BY <1>20, EmptySeq
<1>22. p[1][1] = "avc" /\ p[1][2] = "header"
  BY <1>4, <1>13, Zenon
<1> QED
  BY <1>18, <1>19, <1>20, <1>21, <1>22, Zenon

\* The frame is the picture.
LEMMA FrameIsPicture ==
  ASSUME NEW i \in 1..Len(Pictures), NEW m, m = VideoMessage(Pictures[i])
  PROVE  Frame(m.payload, m.timestamp) = Picture(Pictures[i])
<1> DEFINE v == Pictures[i]
           p == m.payload
           t == m.timestamp
<1>1. /\ v.sps \in Seq(Seq(Units)) /\ v.pps \in Seq(Seq(Units)) /\ v.nals \in Seq(Seq(Units))
      /\ VideoMessage(v) \in Message
  BY PublisherMessages
<1>2. p \in Seq(Parts)
  <2>1. m \in Records
    BY <1>1, ChunkAssumption
  <2>2. p \in Seq(Units)
    BY <2>1 DEF Records
  <2>3. Units \subseteq Parts
    BY DEF Parts
  <2> QED
    BY <2>2, <2>3, SeqMonotonic
<1>3. t = v.timestamp
  BY DEF VideoMessage, Msg
<1>4. CASE IsHeader(v)
  <2>1. p = <<<<"avc", "header">>, <<"cfg", 1>>, <<"n", Len(v.sps)>>>> \o All(v.sps)
            \o <<<<"n", Len(v.pps)>>>> \o All(v.pps)
    BY <1>4, Zenon DEF VideoMessage, Msg
  <2> HIDE DEF v, p, t
  <2>2. /\ p # <<>> /\ p[1][1] = "avc" /\ p[1][2] = "header" /\ ~(Len(p) < 3)
        /\ \E at \in Nat :
             /\ Sets(p, 4, p[3][2]) = [ok |-> TRUE, at |-> at, set |-> LastOf(v.sps)]
             /\ ~(at > Len(p))
             /\ \E e : Sets(p, at + 1, p[at][2]) = [ok |-> TRUE, at |-> e, set |-> LastOf(v.pps)]
    BY <1>1, <1>2, <2>1, HeaderPayload
  <2> PICK at \in Nat :
        /\ Sets(p, 4, p[3][2]) = [ok |-> TRUE, at |-> at, set |-> LastOf(v.sps)]
        /\ ~(at > Len(p))
        /\ \E e : Sets(p, at + 1, p[at][2]) = [ok |-> TRUE, at |-> e, set |-> LastOf(v.pps)]
    BY <2>2
  <2>3. PICK e :
          /\ Sets(p, 4, p[3][2]) = [ok |-> TRUE, at |-> at, set |-> LastOf(v.sps)]
          /\ ~(at > Len(p))
          /\ Sets(p, at + 1, p[at][2]) = [ok |-> TRUE, at |-> e, set |-> LastOf(v.pps)]
    OBVIOUS
  <2>4. PICK s : s = Sets(p, 4, p[3][2])
    OBVIOUS
  <2>5. s.ok = TRUE /\ s.at = at /\ s.set = LastOf(v.sps)
    BY <2>3, <2>4
  <2>6. PICK r : r = Sets(p, s.at + 1, p[s.at][2])
    OBVIOUS
  <2>7. r.ok = TRUE /\ r.set = LastOf(v.pps)
    <3>1. r = [ok |-> TRUE, at |-> e, set |-> LastOf(v.pps)]
      BY <2>3, <2>5, <2>6, Zenon
    <3> QED
      BY <3>1
  <2>8. Frame(p, t) = <<[timestamp |-> t, sps |-> s.set, pps |-> r.set, nalu |-> <<>>]>>
    <3>1. ~(p = <<>> \/ p[1][1] # "avc")
          /\ ~(Len(p) < 3 \/ ~s.ok \/ s.at > Len(p) \/ ~r.ok)
      BY <2>2, <2>3, <2>5, <2>7, Zenon
    <3> QED
      BY <2>2, <2>4, <2>6, <3>1, Zenon DEF Frame
  <2>9. Picture(v) = <<[timestamp |-> v.timestamp, sps |-> LastOf(v.sps),
                        pps |-> LastOf(v.pps), nalu |-> <<>>]>>
    BY <1>4, Zenon DEF Picture
  <2>10. Frame(p, t) = Picture(v)
    BY <1>3, <2>5, <2>7, <2>8, <2>9, Zenon
  <2> QED
    BY <2>10 DEF p, t, v
<1>5. CASE ~IsHeader(v)
  <2>1. p = <<<<"avc", "nalu">>>> \o All(v.nals)
    BY <1>5, Zenon DEF VideoMessage, Msg
  <2> HIDE DEF v, p, t
  <2>2. PICK n \in Nat : n = Len(v.nals)
    BY <1>1, LenProperties
  <2>3. /\ p # <<>> /\ p[1][1] = "avc" /\ p[1][2] = "nalu"
        /\ Nalus(p, 2) = KeptFirst(v.nals, n)
    BY <1>1, <1>2, <2>1, <2>2, NaluPayload
  <2>4. PICK k : k = KeptFirst(v.nals, n)
    OBVIOUS
  <2>5. Flatten([j \in DOMAIN v.nals |-> IF v.nals[j] = <<>> THEN <<>> ELSE Counted(v.nals[j])]) = k
    <3>1. DOMAIN v.nals = 1..n
      BY <1>1, <2>2, LenProperties
    <3>2. [j \in DOMAIN v.nals |-> IF v.nals[j] = <<>> THEN <<>> ELSE Counted(v.nals[j])]
            = First(Keep(v.nals), n)
      BY <2>2, <3>1 DEF First, Keep
    <3> QED
      BY <2>4, <3>2, Zenon DEF KeptFirst
  <2>6. Picture(v) = IF k = <<>> THEN <<>>
                     ELSE <<[timestamp |-> v.timestamp, sps |-> <<>>, pps |-> <<>>, nalu |-> k]>>
    BY <1>5, <2>5, Zenon DEF Picture
  <2>7. Frame(p, t) = IF k = <<>> THEN <<>>
                      ELSE <<[timestamp |-> t, sps |-> <<>>, pps |-> <<>>, nalu |-> k]>>
    <3>1. ~(p = <<>> \/ p[1][1] # "avc") /\ "nalu" # "header"
      BY <2>3
    <3>2. Nalus(p, 2) = k /\ p[1][2] = "nalu"
      BY <2>3, <2>4, Zenon
    <3> QED
      BY <3>1, <3>2, Zenon DEF Frame
  <2>8. Frame(p, t) = Picture(v)
    BY <1>3, <2>6, <2>7, Zenon
  <2> QED
    BY <2>8 DEF p, t, v
<1> QED
  BY <1>4, <1>5

-----------------------------------------------------------------------------
(***************************************************************************)
(* The frames of the pictures come out complete and in order.              *)
(***************************************************************************)
Pics == [i \in 1..Len(Pictures) |-> Picture(Pictures[i])]
Shown(n) == Flatten(First(Pics, n))

\* What GetRTMPMessage has returned: the pictures handled.
Showed == sync => frames = Shown(HandledOn(got, inbox, VideoStream, "VIDEO"))

LEMMA PicturesType ==
  \E S : \A i \in 1..Len(Pictures) : Pics[i] = Picture(Pictures[i]) /\ Pics[i] \in Seq(S)
<1> DEFINE S == {Picture(Pictures[i])[1] : i \in 1..Len(Pictures)}
<1>1. ASSUME NEW i \in 1..Len(Pictures)
      PROVE  Pics[i] = Picture(Pictures[i]) /\ Pics[i] \in Seq(S)
  <2>1. Pics[i] = Picture(Pictures[i])
    BY DEF Pics
  <2>2. PICK x : Picture(Pictures[i]) = <<>> \/ Picture(Pictures[i]) = <<x>>
    BY Zenon DEF Picture
  <2>3. CASE Picture(Pictures[i]) = <<>>
    BY <2>1, <2>3, EmptySeq
  <2>4. CASE Picture(Pictures[i]) = <<x>>
    <3>1. Picture(Pictures[i])[1] = x
      BY <2>4
    <3>2. x \in S
      BY <3>1
    <3> HIDE DEF S
    <3>3. <<x>> \in Seq(S)
      BY <3>2, ShortSeqs
    <3> QED
      BY <2>1, <2>4, <3>3, Zenon
  <2> QED
    BY <2>2, <2>3, <2>4
<1> HIDE DEF S
<1> QED
  BY <1>1, Zenon

LEMMA VideoShows ==
  ASSUME SessionInv, Showed, sync, handleVideo, inbox # None, inbox' = None, got' = got
  PROVE  frames' = Shown(HandledOn(got', inbox', VideoStream, "VIDEO"))
<1>1. inbox # Garbled /\ inbox.type = "VIDEO"
      /\ frames' = frames \o Frame(inbox.payload, inbox.timestamp)
  BY SMT DEF handleVideo, Dispatch
<1>2. PICK k : k = Len(got[VideoStream]) /\ k \in 1..Len(Pictures) /\ inbox = VideoMessage(Pictures[k])
  BY <1>1, MessageInHand
<1>3. Len(got[VideoStream]) \in Nat
  BY StreamsThere, SentType, LenProperties DEF SessionInv
<1>4. PICK j \in Nat : j = k - 1 /\ j + 1 = k
  <2>1. k \in Nat /\ k # 0
    BY <1>2, <1>3
  <2>2. k - 1 \in Nat /\ (k - 1) + 1 = k
    BY <2>1
  <2> QED
    BY <2>2
<1>5. HandledOn(got, inbox, VideoStream, "VIDEO") = j
  BY <1>1, <1>2, <1>4 DEF HandledOn, Owing
<1>6. HandledOn(got', inbox', VideoStream, "VIDEO") = j + 1
  BY <1>2, <1>3, <1>4 DEF HandledOn, Owing
<1>7. frames = Shown(j)
  BY <1>5, Zenon DEF Showed
<1>8. Frame(inbox.payload, inbox.timestamp) = Picture(Pictures[k])
  BY <1>2, FrameIsPicture, Zenon
<1>9. Shown(j + 1) = Shown(j) \o Picture(Pictures[k])
  <2>1. PICK S : \A i \in 1..Len(Pictures) : Pics[i] = Picture(Pictures[i]) /\ Pics[i] \in Seq(S)
    BY PicturesType
  <2>2. \A i \in 1..j + 1 : Pics[i] \in Seq(S)
    BY <1>2, <1>4, <2>1, ConstantsType
  <2>3. Shown(j + 1) = Shown(j) \o Pics[j + 1]
    BY <2>2, FlattenOneMore DEF Shown
  <2> QED
    BY <1>2, <1>4, <2>1, <2>3, Zenon
<1> QED
  BY <1>1, <1>6, <1>7, <1>8, <1>9, Zenon

LEMMA ShowedKeeps ==
  ASSUME SessionInv, SessionInv', Showed, sync' => sync, [Next]_vars
  PROVE  Showed'
<1> SUFFICES ASSUME sync'
             PROVE  frames' = Shown(HandledOn(got', inbox', VideoStream, "VIDEO"))
  BY DEF Showed
<1>1. frames = Shown(HandledOn(got, inbox, VideoStream, "VIDEO"))
  BY DEF Showed
<1>2. CASE ReadMessages
  <2>1. <<VideoStream, "VIDEO">> \in Lines
    BY DEF Lines
  <2>2. frames' = frames
    BY <1>2 DEF ReadMessages, sessionVars, serverVars
  <2>3. HandledOn(got', inbox', VideoStream, "VIDEO") = HandledOn(got, inbox, VideoStream, "VIDEO")
    BY <1>2, <2>1, ReadHands
  <2> QED
    BY <1>1, <2>2, <2>3, Zenon
<1>3. CASE handleVideo
  <2>1. inbox # None /\ inbox' = None /\ got' = got
    BY <1>3, HandlersDispatch
  <2> QED
    BY <1>3, <2>1, VideoShows
<1>4. CASE handleAMF \/ AMFFails \/ Drop
  <2>1. inbox # None /\ inbox' = None /\ got' = got
    BY <1>4, HandlersDispatch
  <2>2. inbox # Garbled
    BY <2>1, MessageInHand
  <2>3. handleAMF => inbox.type # "VIDEO" /\ frames' = frames
    BY SMT DEF handleAMF, Dispatch, AmfTypes
  <2>4. AMFFails => inbox.type # "VIDEO" /\ frames' = frames
    BY SMT DEF AMFFails, Fail, Dispatch, AmfTypes
  <2>5. Drop => inbox.type # "VIDEO" /\ frames' = frames
    BY SMT DEF Drop, serverVars, Dispatch
  <2>6. inbox.type # "VIDEO" /\ frames' = frames
    BY <1>4, <2>3, <2>4, <2>5
  <2>7. HandledOn(got', inbox', VideoStream, "VIDEO") = HandledOn(got, inbox, VideoStream, "VIDEO")
    BY <2>1, <2>2, <2>6 DEF HandledOn, Owing
  <2> QED
    BY <1>1, <2>6, <2>7, Zenon
<1>5. CASE HandleGarbled
  <2>1. inbox = Garbled /\ inbox # None
    BY <1>5, HandlersDispatch DEF HandleGarbled
  <2> QED
    BY <2>1, MessageInHand
<1>6. CASE UNCHANGED <<inbox, got, frames>>
  BY <1>1, <1>6
<1> QED
  BY <1>2, <1>3, <1>4, <1>5, <1>6, InboxStep

LEMMA InitShowed ==
  ASSUME Init
  PROVE  Showed
<1>1. frames = <<>> /\ inbox = None /\ got = [c \in ChunkStreams |-> <<>>]
  BY DEF Init, ChunkInit
<1>2. HandledOn(got, inbox, VideoStream, "VIDEO") = 0
  <2>1. Len(got[VideoStream]) = 0
    BY <1>1, StreamsThere
  <2> QED
    BY <1>1, <2>1 DEF HandledOn, Owing
<1>3. Shown(0) = <<>>
  BY FlattenNone DEF Shown
<1> QED
  BY <1>1, <1>2, <1>3 DEF Showed

LEMMA ShownInOrder ==
  ASSUME SessionInv, Showed
  PROVE  FramesInOrder
<1> DEFINE pending == IF inbox \in {None, Garbled} THEN 0 ELSE IF inbox.type = "VIDEO" THEN 1 ELSE 0
<1> SUFFICES ASSUME sync
             PROVE  frames = Flatten([i \in 1..Len(got[VideoStream]) - pending
                                        |-> Picture(Pictures[i])])
  BY Zenon DEF FramesInOrder
<1>1. PICK n : n = HandledOn(got, inbox, VideoStream, "VIDEO")
  OBVIOUS
<1>2. n = Len(got[VideoStream]) - pending
  BY <1>1, Zenon DEF HandledOn, Owing
<1>3. n \in 0..Len(Pictures)
  <2>1. <<VideoStream, "VIDEO">> \in Lines
    BY DEF Lines
  <2>2. n \in 0..Len(sent[VideoStream])
    BY <1>1, <2>1, HandledRange
  <2>3. Len(sent[VideoStream]) = sentVideo
    BY DEF SessionInv, Ledger, LedgerOf
  <2>4. sentVideo \in 0..Len(Pictures) /\ Len(Pictures) \in Nat
    BY Counters, ConstantsType DEF SessionInv
  <2> QED
    BY <2>2, <2>3, <2>4
<1>4. [i \in 1..n |-> Picture(Pictures[i])] = First(Pics, n)
  <2>1. \A i \in 1..n : i \in 1..Len(Pictures)
    BY <1>3, ConstantsType
  <2>2. \A i \in 1..n : Pics[i] = Picture(Pictures[i])
    BY <2>1 DEF Pics
  <2> QED
    BY <2>2 DEF First
<1>5. frames = Shown(n)
  BY <1>1, Zenon DEF Showed
<1> QED
  BY <1>2, <1>4, <1>5, Zenon DEF Shown

\* GetRTMPMessage returns the frames of exactly the pictures received, each
\* the last of its parameter sets or its NAL units that are not empty, in the
\* order and with the timestamps they were sent, until a read is torn.
THEOREM SessionFrames ==
  ASSUME ~SameDelta
  PROVE  Spec => []FramesInOrder
<1>1. Init => Showed
  BY InitShowed
<1>2. SessionInv /\ SessionInv' /\ Showed /\ (sync' => sync) /\ [Next]_vars => Showed'
  BY ShowedKeeps
<1>3. SessionInv /\ [Next]_vars => (sync' => sync)
  BY InvKeeps
<1>4. SessionInv /\ Showed => FramesInOrder
  BY ShownInOrder
<1> QED
  BY <1>1, <1>2, <1>3, <1>4, AnswersInvariant, PTL DEF Spec

-----------------------------------------------------------------------------
(***************************************************************************)
(* The encoder.  Values are built level by level, and so is what is known  *)
(* of encodeValue and of Flattened.                                        *)
(***************************************************************************)
Leaf == {Null} \cup Scalars \cup Arrays

LEMMA NestedIs ==
  /\ Nested[0] = Leaf
  /\ \A n \in 0..Depth - 1 : Nested[n + 1] = Leaf \cup Objects(Nested[n])
<1> DEFINE S == {m \in Nat : \E f : f = [n \in 0..m |-> IF n = 0 THEN Leaf
                                                        ELSE Leaf \cup Objects(f[n - 1])]}
<1>1. 0 \in S
  <2> DEFINE f == [n \in 0..0 |-> Leaf]
  <2>1. f = [n \in 0..0 |-> IF n = 0 THEN Leaf ELSE Leaf \cup Objects(f[n - 1])]
    OBVIOUS
  <2> QED
    BY <2>1
<1>2. ASSUME NEW m \in Nat, m \in S PROVE m + 1 \in S
  <2>1. PICK f : f = [n \in 0..m |-> IF n = 0 THEN Leaf ELSE Leaf \cup Objects(f[n - 1])]
    BY <1>2
  <2> DEFINE g == [n \in 0..m + 1 |-> IF n \in 0..m THEN f[n] ELSE Leaf \cup Objects(f[n - 1])]
  <2>2. ASSUME NEW n \in 0..m + 1
        PROVE  g[n] = IF n = 0 THEN Leaf ELSE Leaf \cup Objects(g[n - 1])
    <3>1. n # 0 => n - 1 \in 0..m /\ g[n - 1] = f[n - 1]
      OBVIOUS
    <3>2. n \in 0..m => f[n] = IF n = 0 THEN Leaf ELSE Leaf \cup Objects(f[n - 1])
      BY <2>1
    <3>3. g[n] = IF n \in 0..m THEN f[n] ELSE Leaf \cup Objects(f[n - 1])
      OBVIOUS
    <3>4. n \notin 0..m => n # 0
      OBVIOUS
    <3> HIDE DEF g
    <3> QED
      BY <3>1, <3>2, <3>3, <3>4, Zenon
  <2>3. g = [n \in 0..m + 1 |-> g[n]]
    OBVIOUS
  <2> HIDE DEF g
  <2>4. g = [n \in 0..m + 1 |-> IF n = 0 THEN Leaf ELSE Leaf \cup Objects(g[n - 1])]
    BY <2>2, <2>3, Zenon
  <2>5. m + 1 \in Nat
    OBVIOUS
  <2> QED
    BY <2>4, <2>5, Zenon
<1> HIDE DEF S
<1>3. Nat \subseteq S
  BY <1>1, <1>2, SetInduction
<1>4. \E f : f = [n \in 0..Depth |-> IF n = 0 THEN Leaf ELSE Leaf \cup Objects(f[n - 1])]
  BY <1>3, DepthAssumption DEF S
<1>5. Nested = [n \in 0..Depth |-> IF n = 0 THEN Leaf ELSE Leaf \cup Objects(Nested[n - 1])]
  BY <1>4, Zenon DEF Nested, Leaf
<1>6. \A n \in 0..Depth : Nested[n] = IF n = 0 THEN Leaf ELSE Leaf \cup Objects(Nested[n - 1])
  BY <1>5, Zenon
<1>7. 0 \in 0..Depth /\ \A n \in 0..Depth - 1 : n + 1 \in 0..Depth /\ n + 1 # 0 /\ (n + 1) - 1 = n
  BY DepthAssumption
<1>8. Nested[0] = Leaf
  BY <1>6, <1>7, Zenon
<1>9. \A n \in 0..Depth - 1 : Nested[n + 1] = Leaf \cup Objects(Nested[n])
  BY <1>6, <1>7, Zenon
<1> QED
  BY <1>8, <1>9

LEMMA ObjectsGrow ==
  ASSUME NEW V, NEW W, V \subseteq W
  PROVE  Objects(V) \subseteq Objects(W)
<1>1. (Fits \ {""}) \X V \subseteq (Fits \ {""}) \X W
  OBVIOUS
<1>2. Seq((Fits \ {""}) \X V) \subseteq Seq((Fits \ {""}) \X W)
  BY <1>1, SeqMonotonic
<1> QED
  BY <1>2 DEF Objects

\* The levels grow.
LEMMA NestedGrows ==
  /\ \A n \in 0..Depth - 1 : Nested[n] \subseteq Nested[n + 1]
  /\ \A n \in 0..Depth : Nested[n] \subseteq Nested[Depth]
<1> DEFINE S == {n \in Nat : n < Depth => Nested[n] \subseteq Nested[n + 1]}
<1>1. 0 \in S
  <2>1. 0 < Depth => 0 \in 0..Depth - 1
    BY DepthAssumption
  <2>2. 0 < Depth => Nested[0 + 1] = Leaf \cup Objects(Nested[0])
    BY <2>1, NestedIs, Zenon
  <2> QED
    BY <2>2, NestedIs
<1>2. ASSUME NEW n \in Nat, n \in S PROVE n + 1 \in S
  <2> SUFFICES ASSUME n + 1 < Depth PROVE Nested[n + 1] \subseteq Nested[(n + 1) + 1]
    OBVIOUS
  <2>1. n \in 0..Depth - 1 /\ n + 1 \in 0..Depth - 1 /\ n < Depth
    BY DepthAssumption
  <2>2. Nested[n] \subseteq Nested[n + 1]
    BY <1>2, <2>1
  <2>3. /\ Nested[n + 1] = Leaf \cup Objects(Nested[n])
        /\ Nested[(n + 1) + 1] = Leaf \cup Objects(Nested[n + 1])
    BY <2>1, NestedIs, Zenon
  <2>4. Objects(Nested[n]) \subseteq Objects(Nested[n + 1])
    BY <2>2, ObjectsGrow
  <2> QED
    BY <2>3, <2>4, Zenon
<1> HIDE DEF S
<1>3. Nat \subseteq S
  BY <1>1, <1>2, SetInduction
<1>4. \A n \in 0..Depth - 1 : Nested[n] \subseteq Nested[n + 1]
  BY <1>3, DepthAssumption DEF S
<1> DEFINE T == {k \in Nat : k <= Depth => Nested[Depth - k] \subseteq Nested[Depth]}
<1>5. 0 \in T
  <2>1. Depth - 0 = Depth
    BY DepthAssumption
  <2> QED
    BY <2>1, Zenon
<1>6. ASSUME NEW k \in Nat, k \in T PROVE k + 1 \in T
  <2> SUFFICES ASSUME k + 1 <= Depth PROVE Nested[Depth - (k + 1)] \subseteq Nested[Depth]
    OBVIOUS
  <2>1. Depth - (k + 1) \in 0..Depth - 1 /\ (Depth - (k + 1)) + 1 = Depth - k /\ k <= Depth
    BY DepthAssumption
  <2>2. Nested[Depth - (k + 1)] \subseteq Nested[(Depth - (k + 1)) + 1]
    BY <1>4, <2>1, Zenon
  <2>3. Nested[Depth - k] \subseteq Nested[Depth]
    BY <1>6, <2>1
  <2> QED
    BY <2>1, <2>2, <2>3
<1> HIDE DEF T
<1>7. Nat \subseteq T
  BY <1>5, <1>6, SetInduction
<1>8. ASSUME NEW n \in 0..Depth PROVE Nested[n] \subseteq Nested[Depth]
  <2>1. Depth - n \in T /\ Depth - n <= Depth /\ Depth - (Depth - n) = n
    BY <1>7, DepthAssumption
  <2> QED
    BY <2>1 DEF T
<1> QED
  BY <1>4, <1>8

LEMMA PairIs ==
  ASSUME NEW A, NEW B, NEW v \in A \X B
  PROVE  v = <<v[1], v[2]>> /\ v[1] \in A /\ v[2] \in B
OBVIOUS

\* What an object holds.
LEMMA ObjectIs ==
  ASSUME NEW V, NEW v \in Objects(V)
  PROVE  /\ v = <<"OBJECT", v[2]>> /\ v[1] = "OBJECT" /\ Len(v[2]) \in Nat
         /\ DOMAIN v[2] = 1..Len(v[2])
         /\ \A i \in 1..Len(v[2]) : /\ v[2][i] = <<v[2][i][1], v[2][i][2]>>
                                    /\ v[2][i][1] \in Fits \ {""} /\ v[2][i][2] \in V
<1> DEFINE K == Fits \ {""}
           P == K \X V
<1> HIDE DEF K, P
<1>1. v \in {"OBJECT"} \X Seq(P)
  BY DEF Objects, K, P
<1>2. v = <<v[1], v[2]>> /\ v[1] = "OBJECT" /\ v[2] \in Seq(P)
  BY <1>1, PairIs, Zenon
<1>3. Len(v[2]) \in Nat /\ DOMAIN v[2] = 1..Len(v[2]) /\ \A i \in 1..Len(v[2]) : v[2][i] \in P
  BY <1>2, LenProperties, ElementOfSeq
<1>4. \A x \in P : x = <<x[1], x[2]>> /\ x[1] \in K /\ x[2] \in V
  BY PairIs, Zenon DEF P
<1>5. v = <<"OBJECT", v[2]>>
  BY <1>2
<1> QED
  BY <1>2, <1>3, <1>4, <1>5, Zenon DEF K

\* The content of a scalar, whose strings fit.
Contained(v) == IF v[1] = "STRING" THEN v[2] \in Fits ELSE v[2] \in Nat

\* What a leaf is.
LEMMA LeafIs ==
  ASSUME NEW v \in Leaf
  PROVE  \/ v = Null
         \/ v[1] \in DOMAIN Scalar /\ v = <<v[1], v[2]>> /\ Contained(v)
         \/ v[1] \in {"ECMA_ARRAY", "STRICT_ARRAY"}
<1>1. CASE v \in {"NUMBER"} \X Nat
  BY <1>1 DEF Scalar, Contained
<1>2. CASE v \in {"BOOLEAN"} \X {0, 1}
  BY <1>2 DEF Scalar, Contained
<1>3. CASE v \in {"STRING"} \X Fits
  BY <1>3 DEF Scalar, Contained
<1>4. CASE v \in Arrays
  BY <1>4 DEF Arrays
<1> QED
  BY <1>1, <1>2, <1>3, <1>4 DEF Leaf, Scalars

\* The encoding of a value depends on those of its members.
Same(V, f, g) == \A x \in V : f[x] = g[x]

LEMMA SameMembers ==
  ASSUME NEW V, NEW v \in Leaf \cup Objects(V), NEW f, NEW g, Same(V, f, g)
  PROVE  Encoding(v, f) = Encoding(v, g) /\ Flattening(v, f) = Flattening(v, g)
<1>1. CASE v \in Objects(V)
  <2> DEFINE kvs == v[2]
  <2>1. v[1] = "OBJECT" /\ DOMAIN kvs = 1..Len(kvs) /\ \A i \in 1..Len(kvs) : kvs[i][2] \in V
    BY <1>1, ObjectIs
  <2>2. v[1] \notin DOMAIN Scalar
    BY <2>1 DEF Scalar
  <2> HIDE DEF kvs
  <2>3. \A i \in DOMAIN kvs : f[kvs[i][2]] = g[kvs[i][2]]
    BY <2>1 DEF Same
  <2>4. encodeMembers(kvs, f) = encodeMembers(kvs, g)
    <3>1. [i \in DOMAIN kvs |-> encodeKey(kvs[i][1]) \o f[kvs[i][2]]]
            = [i \in DOMAIN kvs |-> encodeKey(kvs[i][1]) \o g[kvs[i][2]]]
      BY <2>3
    <3> QED
      BY <3>1, Zenon DEF encodeMembers
  <2>5. FlattenedMembers(kvs, f) = FlattenedMembers(kvs, g)
    BY <2>3 DEF FlattenedMembers
  <2>6. \A h : /\ Encoding(v, h) = beginObject \o encodeMembers(kvs, h) \o endObject
               /\ Flattening(v, h) = <<"OBJECT", FlattenedMembers(kvs, h)>>
    BY <2>1, <2>2, Zenon DEF Encoding, Flattening, kvs
  <2> QED
    BY <2>4, <2>5, <2>6, Zenon
<1>2. CASE v \in Leaf
  <2>1. v[1] # "OBJECT"
    BY <1>2, LeafIs DEF Null, Scalar
  <2> QED
    BY <2>1, Zenon DEF Encoding, Flattening
<1> QED
  BY <1>1, <1>2

LEMMA EncodeIs == encodeValue = [v \in Nested[Depth] |-> Encoding(v, encodeValue)]
<1> DEFINE S == {d \in Nat : d <= Depth => \E f : f = [v \in Nested[d] |-> Encoding(v, f)]}
<1>1. 0 \in S
  <2> DEFINE g == [v \in Nested[0] |-> Encoding(v, <<>>)]
  <2>1. ASSUME NEW v \in Nested[0] PROVE Encoding(v, <<>>) = Encoding(v, g)
    <3>1. v \in Leaf \cup Objects({})
      BY NestedIs
    <3>2. Same({}, <<>>, g)
      BY DEF Same
    <3> HIDE DEF g
    <3> QED
      BY <3>1, <3>2, SameMembers, Zenon
  <2>2. g = [v \in Nested[0] |-> Encoding(v, g)]
    BY <2>1
  <2> QED
    BY <2>2
<1>2. ASSUME NEW d \in Nat, d \in S PROVE d + 1 \in S
  <2> SUFFICES ASSUME d + 1 <= Depth PROVE \E g : g = [v \in Nested[d + 1] |-> Encoding(v, g)]
    OBVIOUS
  <2>1. d \in 0..Depth - 1 /\ d <= Depth
    BY DepthAssumption
  <2>2. PICK f : f = [v \in Nested[d] |-> Encoding(v, f)]
    BY <1>2, <2>1
  <2>3. /\ Nested[d] \subseteq Nested[d + 1] /\ Nested[d + 1] = Leaf \cup Objects(Nested[d])
    BY <2>1, NestedGrows, NestedIs
  <2> DEFINE g == [v \in Nested[d + 1] |-> Encoding(v, f)]
  <2>4. Same(Nested[d], f, g)
    BY <2>2, <2>3 DEF Same
  <2>5. ASSUME NEW v \in Nested[d + 1] PROVE Encoding(v, f) = Encoding(v, g)
    <3> HIDE DEF g
    <3>1. v \in Leaf \cup Objects(Nested[d])
      BY <2>3, Zenon
    <3> QED
      BY <2>4, <3>1, SameMembers, Zenon
  <2>6. g = [v \in Nested[d + 1] |-> Encoding(v, g)]
    BY <2>5
  <2> QED
    BY <2>6
<1> HIDE DEF S
<1>3. Nat \subseteq S
  BY <1>1, <1>2, SetInduction
<1>4. \E f : f = [v \in Nested[Depth] |-> Encoding(v, f)]
  BY <1>3, DepthAssumption DEF S
<1> QED
  BY <1>4, Zenon DEF encodeValue

LEMMA FlattenedIs == Flattened = [v \in Nested[Depth] |-> Flattening(v, Flattened)]
<1> DEFINE S == {d \in Nat : d <= Depth => \E f : f = [v \in Nested[d] |-> Flattening(v, f)]}
<1>1. 0 \in S
  <2> DEFINE g == [v \in Nested[0] |-> Flattening(v, <<>>)]
  <2>1. ASSUME NEW v \in Nested[0] PROVE Flattening(v, <<>>) = Flattening(v, g)
    <3>1. v \in Leaf \cup Objects({})
      BY NestedIs
    <3>2. Same({}, <<>>, g)
      BY DEF Same
    <3> HIDE DEF g
    <3> QED
      BY <3>1, <3>2, SameMembers, Zenon
  <2>2. g = [v \in Nested[0] |-> Flattening(v, g)]
    BY <2>1
  <2> QED
    BY <2>2
<1>2. ASSUME NEW d \in Nat, d \in S PROVE d + 1 \in S
  <2> SUFFICES ASSUME d + 1 <= Depth PROVE \E g : g = [v \in Nested[d + 1] |-> Flattening(v, g)]
    OBVIOUS
  <2>1. d \in 0..Depth - 1 /\ d <= Depth
    BY DepthAssumption
  <2>2. PICK f : f = [v \in Nested[d] |-> Flattening(v, f)]
    BY <1>2, <2>1
  <2>3. /\ Nested[d] \subseteq Nested[d + 1] /\ Nested[d + 1] = Leaf \cup Objects(Nested[d])
    BY <2>1, NestedGrows, NestedIs
  <2> DEFINE g == [v \in Nested[d + 1] |-> Flattening(v, f)]
  <2>4. Same(Nested[d], f, g)
    BY <2>2, <2>3 DEF Same
  <2>5. ASSUME NEW v \in Nested[d + 1] PROVE Flattening(v, f) = Flattening(v, g)
    <3> HIDE DEF g
    <3>1. v \in Leaf \cup Objects(Nested[d])
      BY <2>3, Zenon
    <3> QED
      BY <2>4, <3>1, SameMembers, Zenon
  <2>6. g = [v \in Nested[d + 1] |-> Flattening(v, g)]
    BY <2>5
  <2> QED
    BY <2>6
<1> HIDE DEF S
<1>3. Nat \subseteq S
  BY <1>1, <1>2, SetInduction
<1>4. \E f : f = [v \in Nested[Depth] |-> Flattening(v, f)]
  BY <1>3, DepthAssumption DEF S
<1> QED
  BY <1>4, Zenon DEF Flattened

\* How the values of a level are encoded: a scalar as two units.
Pair(t, x) == <<<<"tag", t>>, <<Scalar[t], x>>>>

LEMMA LeafCoded ==
  ASSUME NEW v \in Leaf
  PROVE  /\ v \in Nested[Depth]
         /\ \/ /\ v[1] \in DOMAIN Scalar /\ v = <<v[1], v[2]>> /\ Contained(v)
               /\ encodeValue[v] = Pair(v[1], v[2]) /\ Flattened[v] = v
            \/ v[1] \notin DOMAIN Scalar /\ encodeValue[v] = encodeNull /\ Flattened[v] = Null
<1>1. v \in Nested[Depth]
  <2>1. 0 \in 0..Depth
    BY DepthAssumption
  <2> QED
    BY <2>1, NestedIs, NestedGrows, Zenon
<1>2. encodeValue[v] = Encoding(v, encodeValue)
  BY <1>1, EncodeIs, Zenon
<1>3. Flattened[v] = Flattening(v, Flattened)
  BY <1>1, FlattenedIs, Zenon
<1>4. CASE v = Null
  <2>1. v[1] = "NULL"
    BY <1>4 DEF Null
  <2>2. Encoding(v, encodeValue) = encodeNull /\ Flattening(v, Flattened) = v /\ v[1] \notin DOMAIN Scalar
    BY <2>1 DEF Encoding, Flattening, Scalar
  <2> QED
    BY <1>1, <1>2, <1>3, <1>4, <2>2, Zenon
<1>5. CASE v[1] \in DOMAIN Scalar /\ v = <<v[1], v[2]>> /\ Contained(v)
  <2>1. v[1] \in {"NUMBER", "BOOLEAN", "STRING"}
    BY <1>5 DEF Scalar
  <2>2. Encoding(v, encodeValue) = Pair(v[1], v[2])
    <3>1. CASE v[1] = "STRING"
      <4>1. encodeString(v[2]) = <<<<"tag", "STRING">>, <<"string", v[2]>>>>
        BY <1>5, <3>1, FitWritten DEF Contained
      <4>2. Scalar[v[1]] = "string"
        BY <3>1 DEF Scalar
      <4>3. Encoding(v, encodeValue) = encodeString(v[2])
        BY <3>1, Zenon DEF Encoding
      <4> QED
        BY <3>1, <4>1, <4>2, <4>3, Zenon DEF Pair
    <3>2. CASE v[1] \in {"NUMBER", "BOOLEAN"}
      <4>1. v[1] # "STRING" /\ v[1] # "OBJECT"
        BY <3>2
      <4> QED
        BY <3>2, <4>1, Zenon DEF Encoding, Pair, encodeScalar
    <3> QED
      BY <2>1, <3>1, <3>2
  <2>3. Flattening(v, Flattened) = v
    BY <2>1 DEF Flattening
  <2> QED
    BY <1>1, <1>2, <1>3, <1>5, <2>2, <2>3, Zenon
<1>6. CASE v[1] \in {"ECMA_ARRAY", "STRICT_ARRAY"}
  <2>1. Encoding(v, encodeValue) = encodeNull /\ Flattening(v, Flattened) = Null /\ v[1] \notin DOMAIN Scalar
    BY <1>6 DEF Encoding, Flattening, Scalar
  <2> QED
    BY <1>1, <1>2, <1>3, <2>1, Zenon
<1> QED
  BY <1>4, <1>5, <1>6, LeafIs

LEMMA ObjectCoded ==
  ASSUME NEW d \in 0..Depth - 1, NEW v \in Objects(Nested[d])
  PROVE  /\ v \in Nested[Depth] /\ v[1] = "OBJECT"
         /\ encodeValue[v] = beginObject \o encodeMembers(v[2], encodeValue) \o endObject
         /\ Flattened[v] = <<"OBJECT", FlattenedMembers(v[2], Flattened)>>
<1>1. v \in Nested[Depth]
  <2>1. d + 1 \in 0..Depth
    BY DepthAssumption
  <2>2. v \in Nested[d + 1]
    BY NestedIs, Zenon
  <2>3. Nested[d + 1] \subseteq Nested[Depth]
    BY <2>1, NestedGrows, Zenon
  <2> QED
    BY <2>2, <2>3
<1>2. v[1] = "OBJECT"
  BY ObjectIs
<1>3. v[1] \notin DOMAIN Scalar
  BY <1>2 DEF Scalar
<1>4. encodeValue[v] = Encoding(v, encodeValue) /\ Flattened[v] = Flattening(v, Flattened)
  BY <1>1, EncodeIs, FlattenedIs, Zenon
<1>5. Encoding(v, encodeValue) = beginObject \o encodeMembers(v[2], encodeValue) \o endObject
  BY <1>2, <1>3, Zenon DEF Encoding
<1>6. Flattening(v, Flattened) = <<"OBJECT", FlattenedMembers(v[2], Flattened)>>
  BY <1>2, Zenon DEF Flattening
<1> QED
  BY <1>1, <1>2, <1>4, <1>5, <1>6, Zenon

-----------------------------------------------------------------------------
(***************************************************************************)
(* What is encoded is a sequence of units, and so is what members make.    *)
(***************************************************************************)
Inked == STRING \cup Nat \cup DOMAIN Scalar \cup {"NULL", "OBJECT", "OBJECT_END", ""}
Coded == {"tag", "string", "double", "byte"} \X Inked

\* kvs is a sequence of members with values in V.
Keys == Fits \ {""}

MembersOf(kvs, V) ==
  /\ Len(kvs) \in Nat /\ DOMAIN kvs = 1..Len(kvs)
  /\ \A i \in 1..Len(kvs) : kvs[i][1] \in Keys /\ kvs[i][2] \in V

Mems(kvs) == [i \in 1..Len(kvs) |-> encodeKey(kvs[i][1]) \o encodeValue[kvs[i][2]]]

IsCoded(V) == \A x \in V : encodeValue[x] \in Seq(Coded)

LEMMA ObjectMembers ==
  ASSUME NEW V, NEW v \in Objects(V)
  PROVE  MembersOf(v[2], V)
BY ObjectIs, Zenon DEF MembersOf, Keys

LEMMA KeyIs ==
  ASSUME NEW k \in Keys
  PROVE  k \in Fits /\ k \in STRING /\ k # ""
BY DEF Keys, Fits

LEMMA UnitsCoded ==
  /\ beginObject \in Seq(Coded) /\ endObject \in Seq(Coded) /\ encodeNull \in Seq(Coded)
  /\ \A k \in Fits : encodeKey(k) = <<<<"string", k>>>> /\ encodeKey(k) \in Seq(Coded)
  /\ \A t \in DOMAIN Scalar, x \in Nat \cup STRING : Pair(t, x) \in Seq(Coded)
<1>1. /\ <<"tag", "OBJECT">> \in Coded /\ <<"tag", "NULL">> \in Coded
      /\ <<"string", "">> \in Coded /\ <<"tag", "OBJECT_END">> \in Coded
  BY DEF Coded, Inked
<1>2. \A k \in STRING : <<"string", k>> \in Coded
  BY DEF Coded, Inked
<1>3. \A t \in DOMAIN Scalar, x \in Nat \cup STRING :
        <<"tag", t>> \in Coded /\ <<Scalar[t], x>> \in Coded
  <2> TAKE t \in DOMAIN Scalar, x \in Nat \cup STRING
  <2>1. t \in Inked /\ x \in Inked
    BY DEF Inked
  <2>2. Scalar[t] \in {"tag", "string", "double", "byte"}
    BY DEF Scalar
  <2> QED
    BY <2>1, <2>2, Zenon DEF Coded
<1>4. beginObject \in Seq(Coded)
  BY <1>1, ShortSeqs, Zenon DEF beginObject
<1>5. endObject \in Seq(Coded)
  BY <1>1, ShortSeqs, Zenon DEF endObject, EndKey, ObjectEnd
<1>6. encodeNull \in Seq(Coded)
  BY <1>1, ShortSeqs, Zenon DEF encodeNull
<1>7. \A k \in Fits : encodeKey(k) = <<<<"string", k>>>> /\ encodeKey(k) \in Seq(Coded)
  <2> TAKE k \in Fits
  <2>1. k \in STRING
    BY DEF Fits
  <2> QED
    BY <1>2, <2>1, FitWritten, ShortSeqs, Zenon
<1>8. \A t \in DOMAIN Scalar, x \in Nat \cup STRING : Pair(t, x) \in Seq(Coded)
  BY <1>3, ShortSeqs, Zenon DEF Pair
<1> QED
  BY <1>4, <1>5, <1>6, <1>7, <1>8

LEMMA CodedJoin ==
  \A a, b \in Seq(Coded) : a \o b \in Seq(Coded)
BY ConcatProperties

LEMMA MembersCoded ==
  ASSUME NEW kvs, NEW V, MembersOf(kvs, V), IsCoded(V)
  PROVE  /\ \A i \in 1..Len(kvs) : Mems(kvs)[i] \in Seq(Coded)
         /\ encodeMembers(kvs, encodeValue) = Flatten(First(Mems(kvs), Len(kvs)))
         /\ encodeMembers(kvs, encodeValue) \in Seq(Coded)
<1> DEFINE m == Mems(kvs)
           n == Len(kvs)
<1>1. \A i \in 1..n : m[i] \in Seq(Coded)
  <2> TAKE i \in 1..n
  <2>1. encodeKey(kvs[i][1]) \in Seq(Coded)
    BY UnitsCoded, KeyIs, Zenon DEF MembersOf
  <2>2. encodeValue[kvs[i][2]] \in Seq(Coded)
    BY DEF MembersOf, IsCoded
  <2>3. m[i] = encodeKey(kvs[i][1]) \o encodeValue[kvs[i][2]]
    BY Zenon DEF Mems
  <2> QED
    BY <2>1, <2>2, <2>3, CodedJoin, Zenon
<1>2. First(m, n) = m
  BY DEF First, Mems
<1>3. encodeMembers(kvs, encodeValue) = Flatten(m)
  BY Zenon DEF encodeMembers, Mems, MembersOf
<1>4. n \in Nat
  BY DEF MembersOf
<1> HIDE DEF m, n
<1>5. Flatten(First(m, n)) \in Seq(Coded)
  BY <1>1, <1>4, FlattenFirst
<1> QED
  BY <1>1, <1>2, <1>3, <1>5 DEF m, n

LEMMA LeavesCoded == IsCoded(Leaf)
<1> SUFFICES ASSUME NEW v \in Leaf PROVE encodeValue[v] \in Seq(Coded)
  BY DEF IsCoded
<1>1. CASE v[1] \in DOMAIN Scalar /\ Contained(v)
           /\ encodeValue[v] = Pair(v[1], v[2])
  <2>1. v[2] \in Nat \cup STRING
    BY <1>1 DEF Contained, Fits
  <2> QED
    BY <1>1, <2>1, UnitsCoded, Zenon
<1>2. CASE encodeValue[v] = encodeNull
  BY <1>2, UnitsCoded, Zenon
<1> QED
  BY <1>1, <1>2, LeafCoded, Zenon

LEMMA LevelCoded ==
  ASSUME NEW d \in 0..Depth - 1, IsCoded(Nested[d])
  PROVE  IsCoded(Nested[d + 1])
<1>1. Nested[d + 1] = Leaf \cup Objects(Nested[d])
  BY NestedIs, Zenon
<1>2. ASSUME NEW v \in Objects(Nested[d]) PROVE encodeValue[v] \in Seq(Coded)
  <2>1. encodeMembers(v[2], encodeValue) \in Seq(Coded)
    BY ObjectMembers, MembersCoded, Zenon
  <2>2. encodeValue[v] = beginObject \o encodeMembers(v[2], encodeValue) \o endObject
    BY ObjectCoded, Zenon
  <2>3. beginObject \o encodeMembers(v[2], encodeValue) \in Seq(Coded)
    BY <2>1, UnitsCoded, CodedJoin, Zenon
  <2> QED
    BY <2>2, <2>3, UnitsCoded, CodedJoin, Zenon
<1> QED
  BY <1>1, <1>2, LeavesCoded DEF IsCoded

LEMMA AllCoded ==
  \A d \in 0..Depth : IsCoded(Nested[d])
<1> DEFINE S == {d \in 0..Depth : IsCoded(Nested[d])}
<1>1. 0 \in S
  <2>1. 0 \in 0..Depth
    BY DepthAssumption
  <2> QED
    BY <2>1, NestedIs, LeavesCoded
<1>2. ASSUME NEW d \in 0..Depth - 1, d \in S PROVE d + 1 \in S
  <2>1. d + 1 \in 0..Depth
    BY DepthAssumption
  <2> QED
    BY <1>2, <2>1, LevelCoded
<1> HIDE DEF S
<1>3. 0..Depth \subseteq S
  BY <1>1, <1>2, DepthAssumption, UpTo
<1> QED
  BY <1>3 DEF S

-----------------------------------------------------------------------------
(***************************************************************************)
(* Reading what was encoded.  The encoding e lies along the buffer at i as *)
(* far as the buffer goes; it is read whole, or the reader throws.         *)
(***************************************************************************)
Along(s, i, e) == \A j \in 1..Len(e) : (i - 1) + j <= Len(s) => s[(i - 1) + j] = e[j]

Result(whole, x, z) == IF whole THEN Got(x, z) ELSE Throw

ReadWhole(s, v) ==
  \A i \in 1..Len(s) + 1 :
    Along(s, i, encodeValue[v]) =>
      LET z == i + Len(encodeValue[v])
      IN  Reader(s)[<<"value", i, 0>>] = Result(z <= Len(s) + 1, Flattened[v], z)

LEMMA AlongParts ==
  ASSUME NEW s, NEW i \in Nat, NEW a \in Seq(Coded), NEW b \in Seq(Coded), Along(s, i, a \o b)
  PROVE  /\ Along(s, i, a) /\ Along(s, i + Len(a), b)
         /\ Len(a \o b) = Len(a) + Len(b) /\ Len(a) \in Nat /\ Len(b) \in Nat
<1> DEFINE c == a \o b
<1>1. /\ Len(c) = Len(a) + Len(b) /\ Len(a) \in Nat /\ Len(b) \in Nat
      /\ \A j \in 1..Len(a) : c[j] = a[j]
      /\ \A j \in 1..Len(b) : c[Len(a) + j] = b[j]
  BY ConcatProperties, LenProperties
<1>2. \A j \in 1..Len(c) : (i - 1) + j <= Len(s) => s[(i - 1) + j] = c[j]
  BY Zenon DEF Along
<1> HIDE DEF c
<1>3. \A j \in 1..Len(a) : j \in 1..Len(c)
  BY <1>1
<1>4. \A j \in 1..Len(b) : Len(a) + j \in 1..Len(c) /\ (i + Len(a) - 1) + j = (i - 1) + (Len(a) + j)
  BY <1>1
<1>5. Along(s, i, a)
  BY <1>1, <1>2, <1>3, Zenon DEF Along
<1>6. Along(s, i + Len(a), b)
  <2>1. ASSUME NEW j \in 1..Len(b), (i + Len(a) - 1) + j <= Len(s)
        PROVE  s[(i + Len(a) - 1) + j] = b[j]
    <3>1. Len(a) + j \in 1..Len(c) /\ (i + Len(a) - 1) + j = (i - 1) + (Len(a) + j)
      BY <1>4, Zenon
    <3>2. (i - 1) + (Len(a) + j) <= Len(s)
      BY <2>1, <3>1, Zenon
    <3>3. s[(i - 1) + (Len(a) + j)] = c[Len(a) + j]
      BY <1>2, <3>1, <3>2, Zenon
    <3> QED
      BY <1>1, <3>1, <3>3, Zenon
  <2> HIDE DEF c
  <2> QED
    BY <2>1 DEF Along
<1> QED
  BY <1>1, <1>5, <1>6 DEF c

LEMMA AlongJoin ==
  \A s : \A i \in Nat, a \in Seq(Coded), b \in Seq(Coded) : Along(s, i, a \o b) =>
    Along(s, i, a) /\ Along(s, i + Len(a), b)
BY AlongParts, Zenon

LEMMA ReadersAre ==
  ASSUME NEW s, Buffer(s), NEW i \in Nat
  PROVE  /\ Reader(s)[<<"value", i, 0>>] = readValue(s, i, Reader(s))
         /\ \A r \in {"object", "array"} :
              Reader(s)[<<r, i, 0>>] = readMembers(s, i, r, Reader(s))
<1>1. \A q \in Queries : Reader(s)[q] = Reading(s, q, Reader(s))
  BY ReaderIs
<1>2. \A r \in Readers : <<r, i, 0>> \in Queries
  BY DEF Queries
<1>3. \A r \in Readers : Reader(s)[<<r, i, 0>>] = Reading(s, <<r, i, 0>>, Reader(s))
  BY <1>1, <1>2, Zenon
<1>4. "value" \in Readers /\ "object" \in Readers /\ "array" \in Readers
  BY DEF Readers
<1>5. Reading(s, <<"value", i, 0>>, Reader(s)) = readValue(s, i, Reader(s))
  BY DEF Reading
<1>6. \A r \in {"object", "array"} :
        Reading(s, <<r, i, 0>>, Reader(s)) = readMembers(s, i, r, Reader(s))
  BY DEF Reading
<1> QED
  BY <1>3, <1>4, <1>5, <1>6

LEMMA NullReads ==
  ASSUME NEW s, Buffer(s), NEW v, encodeValue[v] = encodeNull, Flattened[v] = Null
  PROVE  ReadWhole(s, v)
<1> SUFFICES ASSUME NEW i \in 1..Len(s) + 1, Along(s, i, encodeNull)
             PROVE  Reader(s)[<<"value", i, 0>>] = Result(i + 1 <= Len(s) + 1, Null, i + 1)
  <2>1. Len(encodeNull) = 1
    BY DEF encodeNull
  <2> QED
    BY <2>1, Zenon DEF ReadWhole
<1>1. i \in Nat /\ Len(s) \in Nat
  BY DEF Buffer
<1>2. i <= Len(s) => s[i] = <<"tag", "NULL">>
  BY <1>1 DEF Along, encodeNull
<1>3. Reader(s)[<<"value", i, 0>>] = readValue(s, i, Reader(s))
  BY <1>1, ReadersAre
<1>4. CASE i <= Len(s)
  <2>1. Has(s, i, "tag") /\ s[i][2] = "NULL"
    BY <1>1, <1>2, <1>4 DEF Has
  <2>2. readValue(s, i, Reader(s)) = Got(Null, i + 1)
    BY <2>1 DEF readValue, Scalar
  <2>3. i + 1 <= Len(s) + 1
    BY <1>1, <1>4
  <2> QED
    BY <1>3, <2>2, <2>3, Zenon DEF Result
<1>5. CASE ~(i <= Len(s))
  <2>1. ~Has(s, i, "tag") /\ ~(i + 1 <= Len(s) + 1)
    BY <1>1, <1>5 DEF Has
  <2> QED
    BY <1>3, <2>1, Zenon DEF readValue, Result
<1> QED
  BY <1>4, <1>5

LEMMA ScalarReads ==
  ASSUME NEW s, Buffer(s), NEW t \in DOMAIN Scalar, NEW x, NEW v,
         encodeValue[v] = Pair(t, x), Flattened[v] = <<t, x>>
  PROVE  ReadWhole(s, v)
<1> DEFINE a == <<"tag", t>>
           b == <<Scalar[t], x>>
           e == Pair(t, x)
<1>1. Len(e) = 2 /\ e[1] = a /\ e[2] = b
  BY DEF Pair
<1> SUFFICES ASSUME NEW i \in 1..Len(s) + 1, Along(s, i, e)
             PROVE  Reader(s)[<<"value", i, 0>>] = Result(i + 2 <= Len(s) + 1, <<t, x>>, i + 2)
  BY <1>1, Zenon DEF ReadWhole
<1>2. i \in Nat /\ Len(s) \in Nat
  BY DEF Buffer
<1> HIDE DEF e, a, b
<1>3. (i <= Len(s) => s[i] = a) /\ (i + 1 <= Len(s) => s[i + 1] = b)
  <2>1. \A j \in 1..2 : (i - 1) + j <= Len(s) => s[(i - 1) + j] = e[j]
    BY <1>1, Zenon DEF Along
  <2>2. (i - 1) + 1 = i /\ (i - 1) + 2 = i + 1 /\ 1 \in 1..2 /\ 2 \in 1..2
    BY <1>2
  <2> QED
    BY <1>1, <2>1, <2>2, Zenon
<1>4. Reader(s)[<<"value", i, 0>>] = readValue(s, i, Reader(s))
  BY <1>2, ReadersAre
<1>5. CASE i + 1 <= Len(s)
  <2>1. i \in 1..Len(s) /\ i + 1 \in 1..Len(s) /\ i <= Len(s) /\ i + 2 <= Len(s) + 1
    BY <1>2, <1>5
  <2>2. decode(s, i) = Got(<<t, x>>, i + 2)
    BY <1>2, <1>3, <2>1, DecodeScalar DEF a, b
  <2>3. decode(s, i) = readValue(s, i, Reader(s))
    BY <1>2, DecodeIs
  <2> QED
    BY <1>4, <2>1, <2>2, <2>3, Zenon DEF Result
<1>6. CASE ~(i + 1 <= Len(s))
  <2>1. ~(i + 2 <= Len(s) + 1)
    BY <1>2, <1>6
  <2>2. readValue(s, i, Reader(s)) = Throw
    <3>1. CASE ~Has(s, i, "tag")
      BY <3>1, Zenon DEF readValue
    <3>2. CASE Has(s, i, "tag")
      <4>1. i <= Len(s)
        BY <1>2, <3>2 DEF Has
      <4>2. s[i][2] = t
        BY <1>3, <4>1 DEF a
      <4> DEFINE u == s[i][2]
      <4>3. u \in DOMAIN Scalar /\ ~Has(s, i + 1, Scalar[u])
        BY <1>2, <1>6, <4>2 DEF Has
      <4> QED
        BY <3>2, <4>3 DEF readValue, Scalar
    <3> QED
      BY <3>1, <3>2
  <2> QED
    BY <1>4, <2>1, <2>2, Zenon DEF Result
<1> QED
  BY <1>5, <1>6

LEMMA LeafReads ==
  ASSUME NEW s, Buffer(s), NEW v \in Leaf
  PROVE  ReadWhole(s, v)
<1>1. CASE /\ v[1] \in DOMAIN Scalar /\ v = <<v[1], v[2]>>
           /\ encodeValue[v] = Pair(v[1], v[2]) /\ Flattened[v] = v
  BY <1>1, ScalarReads
<1>2. CASE encodeValue[v] = encodeNull /\ Flattened[v] = Null
  BY <1>2, NullReads
<1> QED
  BY <1>1, <1>2, LeafCoded, Zenon

\* Reader r, come to i, gives x and z, if the rest is whole.
Follows(s, r, i, whole, x, z) ==
  /\ whole \in BOOLEAN /\ r \in {"object", "array"} /\ (r = "object" \/ whole)
  /\ whole => i <= Len(s) + 1
  /\ i <= Len(s) + 1 => Reader(s)[<<r, i, 0>>] = Result(whole, x, z)

LEMMA Before ==
  \A i, j, n \in Nat : j > i /\ j <= n + 1 => i <= n /\ i <= n + 1
OBVIOUS

\* One member, and what is read behind it.
LEMMA MemberReads ==
  ASSUME NEW s, Buffer(s), NEW r, NEW i \in Nat, i > 0,
         NEW k \in Keys, NEW v, encodeValue[v] \in Seq(Coded), ReadWhole(s, v),
         Along(s, i, encodeKey(k) \o encodeValue[v]),
         NEW j, j = i + 1 + Len(encodeValue[v]),
         NEW W, NEW x, NEW z, Follows(s, r, j, W, x, z)
  PROVE  Follows(s, r, i, W, <<<<k, Flattened[v]>>>> \o x, z)
<1> DEFINE e == encodeValue[v]
           y == Flattened[v]
           R == Reader(s)
           q == R[<<"value", i + 1, 0>>]
           next == R[<<r, j, 0>>]
<1>1. Len(s) \in Nat /\ Len(e) \in Nat
  BY LenProperties DEF Buffer
<1>2. /\ encodeKey(k) = <<<<"string", k>>>> /\ Len(encodeKey(k)) = 1 /\ encodeKey(k) \in Seq(Coded)
      /\ encodeKey(k)[1] = <<"string", k>>
  <2>1. encodeKey(k) = <<<<"string", k>>>> /\ encodeKey(k) \in Seq(Coded)
    BY UnitsCoded, KeyIs, Zenon
  <2> QED
    BY <2>1
<1>3. Along(s, i, encodeKey(k)) /\ Along(s, i + 1, e)
  BY <1>1, <1>2, AlongParts, ZenonT(40)
<1>4. i <= Len(s) => s[i] = <<"string", k>>
  <2>1. \A n \in 1..1 : (i - 1) + n <= Len(s) => s[(i - 1) + n] = encodeKey(k)[n]
    BY <1>2, <1>3, Zenon DEF Along
  <2>2. 1 \in 1..1 /\ (i - 1) + 1 = i
    OBVIOUS
  <2> QED
    BY <1>2, <2>1, <2>2, Zenon
<1>5. r \in {"object", "array"} /\ W \in BOOLEAN
  BY Zenon DEF Follows
<1>6. R[<<r, i, 0>>] = readMembers(s, i, r, R)
  BY <1>5, ReadersAre
<1>0. (i + 1) + Len(e) = j
  BY Zenon
<1> HIDE DEF e, y, R, q, next
<1>7. PICK jj \in Nat : jj = j /\ jj > i
  <2>1. PICK n \in Nat : n = Len(e)
    BY <1>1
  <2>2. PICK m \in Nat : m = (i + 1) + n /\ m > i
    <3>1. (i + 1) + n \in Nat /\ (i + 1) + n > i
      OBVIOUS
    <3> QED
      BY <3>1, Zenon
  <2>3. m = j
    BY <1>0, <2>1, <2>2, Zenon
  <2> QED
    BY <2>2, <2>3, Zenon
<1>8. j <= Len(s) + 1 => i <= Len(s) /\ i <= Len(s) + 1
  BY <1>1, <1>7, Before, Zenon
<1> DEFINE r0 == Result(W, <<<<k, y>>>> \o x, z)
<1>9. CASE i <= Len(s)
  <2>1. Has(s, i, "string") /\ s[i] # EndKey /\ s[i][2] = k
    <3>1. k # ""
      BY KeyIs
    <3>2. i \in 1..Len(s)
      BY <1>1, <1>9
    <3>3. s[i] = <<"string", k>>
      BY <1>4, <1>9, Zenon
    <3>4. EndKey[2] = ""
      BY DEF EndKey
    <3>5. s[i][1] = "string" /\ s[i][2] = k
      BY <3>3
    <3>6. s[i] # EndKey
      BY <3>1, <3>4, <3>5, Zenon
    <3> QED
      BY <3>2, <3>5, <3>6, Zenon DEF Has
  <2>2. readMembers(s, i, r, R) =
          IF q.ok THEN Cons(q, <<k, q.value>>, R[<<r, q.next, 0>>]) ELSE Throw
    BY <2>1, Zenon DEF readMembers, q
  <2>3. q = Result(j <= Len(s) + 1, y, j)
    <3>1. i + 1 \in 1..Len(s) + 1
      BY <1>1, <1>9
    <3> QED
      BY <1>0, <1>3, <3>1, Zenon DEF ReadWhole, e, y, q, R
  <2>4. CASE j <= Len(s) + 1
    <3>1. q.ok = TRUE /\ q.value = y /\ q.next = j
      BY <2>3, <2>4 DEF Result, Got
    <3>2. next = Result(W, x, z)
      BY <2>4, Zenon DEF next, R, Follows
    <3>3. readMembers(s, i, r, R) = Cons(q, <<k, y>>, next)
      BY <2>2, <3>1, Zenon DEF next
    <3>4. ASSUME W PROVE R[<<r, i, 0>>] = r0
      <4>1. next = Got(x, z)
        BY <3>2, <3>4, Zenon DEF Result
      <4>2. next.ok = TRUE /\ next.value = x /\ next.next = z
        BY <4>1 DEF Got
      <4>3. Cons(q, <<k, y>>, next) = Got(<<<<k, y>>>> \o x, z)
        BY <3>1, <4>2, Zenon DEF Cons
      <4> QED
        BY <1>6, <3>3, <3>4, <4>3, Zenon DEF Result
    <3>5. ASSUME ~W PROVE R[<<r, i, 0>>] = r0
      <4>1. next = Throw
        BY <3>2, <3>5, Zenon DEF Result
      <4>2. next.ok = FALSE
        BY <4>1 DEF Throw
      <4>3. Cons(q, <<k, y>>, next) = Throw
        BY <4>2, Zenon DEF Cons
      <4> QED
        BY <1>6, <3>3, <3>5, <4>3, Zenon DEF Result
    <3>6. R[<<r, i, 0>>] = r0
      BY <3>4, <3>5, Zenon
    <3> QED
      BY <1>5, <1>8, <2>4, <3>6, Zenon DEF Follows, R, y
  <2>5. CASE ~(j <= Len(s) + 1)
    <3>1. q.ok = FALSE
      BY <2>3, <2>5 DEF Result, Throw
    <3>2. ~W
      BY <2>5, Zenon DEF Follows
    <3>3. R[<<r, i, 0>>] = r0
      BY <1>6, <2>2, <3>1, <3>2, Zenon DEF Result
    <3> QED
      BY <1>5, <3>2, <3>3, Zenon DEF Follows, R, y
  <2> QED
    BY <2>4, <2>5
<1>10. CASE ~(i <= Len(s))
  <2>1. ~Has(s, i, "string")
    BY <1>1, <1>10 DEF Has
  <2>2. ~W
    BY <1>8, <1>10, Zenon DEF Follows
  <2>3. r = "object"
    BY <2>2, Zenon DEF Follows
  <2>4. R[<<r, i, 0>>] = r0
    BY <1>6, <2>1, <2>2, <2>3, Zenon DEF readMembers, Result
  <2> QED
    BY <1>5, <2>2, <2>3, <2>4, Zenon DEF Follows, R, y
<1> QED
  BY <1>9, <1>10

\* Where member m begins.
Off(kvs, m) == Len(Flatten(First(Mems(kvs), m)))

LEMMA MemberAt ==
  ASSUME NEW kvs, NEW V, MembersOf(kvs, V), IsCoded(V), NEW s, NEW i \in Nat,
         Along(s, i, encodeMembers(kvs, encodeValue)), NEW m \in 0..Len(kvs) - 1
  PROVE  /\ Off(kvs, m) \in Nat /\ Off(kvs, m + 1) \in Nat
         /\ Off(kvs, m + 1) = Off(kvs, m) + Len(Mems(kvs)[m + 1])
         /\ Off(kvs, m + 1) <= Len(encodeMembers(kvs, encodeValue))
         /\ Len(encodeMembers(kvs, encodeValue)) \in Nat
         /\ Along(s, i + Off(kvs, m), Mems(kvs)[m + 1])
<1> DEFINE n == Len(kvs)
           mm == Mems(kvs)
           E == encodeMembers(kvs, encodeValue)
           A == Flatten(First(mm, m))
           B == mm[m + 1]
           C == Flatten(First(mm, m + 1))
<1>1. n \in Nat /\ m \in Nat /\ m + 1 \in 0..n
  <2>1. n \in Nat
    BY Zenon DEF MembersOf
  <2> QED
    BY <2>1
<1>2. \A j \in 1..n : mm[j] \in Seq(Coded)
  BY MembersCoded, Zenon
<1>3. E = Flatten(First(mm, n))
  BY MembersCoded, Zenon
<1> HIDE DEF n, mm
<1>4. PICK r \in Seq(Coded) : Flatten(First(mm, n)) = C \o r
  BY <1>1, <1>2, FlattenBegins
<1>5. (\A j \in 1..m : mm[j] \in Seq(Coded)) /\ (\A j \in 1..m + 1 : mm[j] \in Seq(Coded))
      /\ B \in Seq(Coded)
  BY <1>1, <1>2
<1>6. A \in Seq(Coded) /\ C = A \o B
  BY <1>1, <1>5, FlattenFirst, FlattenOneMore
<1> HIDE DEF A, B, C, E
<1>7. C \in Seq(Coded)
  BY <1>5, <1>6, CodedJoin, Zenon
<1>8. Along(s, i, C \o r)
  BY <1>3, <1>4, Zenon DEF E
<1>9. Along(s, i, C) /\ Len(C \o r) = Len(C) + Len(r) /\ Len(C) \in Nat /\ Len(r) \in Nat
  BY <1>7, <1>8, AlongParts
<1>10. Along(s, i, A \o B)
  BY <1>6, <1>9, Zenon
<1>11. Along(s, i + Len(A), B) /\ Len(A \o B) = Len(A) + Len(B) /\ Len(A) \in Nat
  BY <1>5, <1>6, <1>10, AlongParts
<1>12. Len(C) = Len(A) + Len(B)
  BY <1>6, <1>11, Zenon
<1>13. Len(E) = Len(C) + Len(r)
  BY <1>3, <1>4, <1>9, Zenon
<1>14. Len(E) \in Nat /\ Len(C) <= Len(E)
  BY <1>9, <1>13
<1>15. Off(kvs, m) = Len(A) /\ Off(kvs, m + 1) = Len(C)
  BY Zenon DEF Off, A, C, mm
<1> QED
  BY <1>9, <1>11, <1>12, <1>14, <1>15, Zenon DEF B, E, mm

\* What of n elements is left behind the first m.
Left(f, n, m) == [j \in 1..n - m |-> f[m + j]]

LEMMA LeftStep ==
  ASSUME NEW f, NEW n \in Nat, NEW m \in 0..n - 1
  PROVE  <<f[m + 1]>> \o Left(f, n, m + 1) = Left(f, n, m)
<1> DEFINE S == {f[i] : i \in 1..n}
           a == <<f[m + 1]>>
           b == Left(f, n, m + 1)
           c == a \o b
<1>1. b \in Seq(S) /\ Len(b) = n - (m + 1) /\ \A j \in 1..n - (m + 1) : b[j] = f[(m + 1) + j]
  <2>1. \A j \in 1..n - (m + 1) : f[(m + 1) + j] \in S
    OBVIOUS
  <2>2. n - (m + 1) \in Nat
    OBVIOUS
  <2> HIDE DEF S
  <2>3. b \in [1..n - (m + 1) -> S] /\ \A j \in 1..n - (m + 1) : b[j] = f[(m + 1) + j]
    BY <2>1 DEF Left
  <2> HIDE DEF b
  <2> QED
    BY <2>2, <2>3, LenProperties, SeqDef
<1>2. a \in Seq(S) /\ Len(a) = 1 /\ a[1] = f[m + 1]
  <2>1. f[m + 1] \in S
    OBVIOUS
  <2> HIDE DEF S
  <2> QED
    BY <2>1
<1> HIDE DEF S, a, b
<1>3. /\ c \in Seq(S) /\ Len(c) = Len(a) + Len(b)
      /\ \A j \in 1..Len(a) + Len(b) : c[j] = IF j <= Len(a) THEN a[j] ELSE b[j - Len(a)]
  <2>1. a \in Seq(S) /\ b \in Seq(S)
    BY <1>1, <1>2
  <2> QED
    BY <2>1, ConcatProperties, Zenon
<1> HIDE DEF c
<1>4. Len(c) = n - m
  BY <1>1, <1>2, <1>3
<1>5. ASSUME NEW j \in 1..n - m PROVE c[j] = f[m + j]
  <2>0. j \in 1..Len(a) + Len(b)
    BY <1>1, <1>2
  <2>1. c[j] = IF j <= Len(a) THEN a[j] ELSE b[j - Len(a)]
    BY <1>3, <2>0, Zenon
  <2>2. CASE j = 1
    BY <1>2, <2>1, <2>2
  <2>3. CASE j # 1
    <3>1. ~(j <= 1) /\ j - 1 \in 1..n - (m + 1) /\ (m + 1) + (j - 1) = m + j
      BY <2>3
    <3>2. c[j] = b[j - 1]
      BY <1>2, <2>1, <3>1, Zenon
    <3> QED
      BY <1>1, <3>1, <3>2, Zenon
  <2> QED
    BY <2>2, <2>3
<1>6. c = [j \in 1..n - m |-> c[j]]
  BY <1>3, <1>4, LenProperties
<1>7. c = Left(f, n, m)
  BY <1>5, <1>6 DEF Left
<1> QED
  BY <1>7 DEF c, a, b

\* The members of an object, or of an array, and what is read behind them.
LEMMA MembersRead ==
  ASSUME NEW s, Buffer(s), NEW r, NEW kvs, NEW V, MembersOf(kvs, V), IsCoded(V),
         \A x \in V : ReadWhole(s, x),
         NEW i \in Nat, i > 0, Along(s, i, encodeMembers(kvs, encodeValue)),
         NEW e, e = i + Len(encodeMembers(kvs, encodeValue)),
         NEW W, NEW z, Follows(s, r, e, W, <<>>, z)
  PROVE  Follows(s, r, i, W, FlattenedMembers(kvs, Flattened), z)
<1> DEFINE n == Len(kvs)
           f == FlattenedMembers(kvs, Flattened)
           At(m) == Follows(s, r, i + Off(kvs, m), W, Left(f, n, m), z)
           T == {k \in 0..n : At(n - k)}
<1>1. n \in Nat /\ DOMAIN kvs = 1..n
  BY Zenon DEF MembersOf
<1>2. \A j \in 1..n : f[j] = <<kvs[j][1], Flattened[kvs[j][2]]>>
  BY <1>1 DEF FlattenedMembers
<1>3. f = [j \in 1..n |-> f[j]]
  BY <1>1, <1>2 DEF FlattenedMembers
<1> HIDE DEF n, f
<1>4. At(n)
  <2>1. Off(kvs, n) = Len(encodeMembers(kvs, encodeValue))
    BY MembersCoded, Zenon DEF Off, n
  <2>2. Left(f, n, n) = <<>>
    BY <1>1 DEF Left
  <2> QED
    BY <2>1, <2>2, Zenon
<1>5. ASSUME NEW m \in 0..n - 1, At(m + 1) PROVE At(m)
  <2> DEFINE key == kvs[m + 1][1]
             v == kvs[m + 1][2]
             o == i + Off(kvs, m)
  <2>1. m + 1 \in 1..n
    BY <1>1
  <2>2. key \in Keys /\ encodeValue[v] \in Seq(Coded) /\ ReadWhole(s, v)
    BY <2>1, Zenon DEF MembersOf, IsCoded, n
  <2>3. Mems(kvs)[m + 1] = encodeKey(key) \o encodeValue[v]
    BY <2>1, Zenon DEF Mems, n
  <2>4. /\ Off(kvs, m) \in Nat /\ Off(kvs, m + 1) = Off(kvs, m) + Len(Mems(kvs)[m + 1])
        /\ Along(s, i + Off(kvs, m), Mems(kvs)[m + 1])
    BY MemberAt, Zenon DEF n
  <2>5. <<f[m + 1]>> \o Left(f, n, m + 1) = Left(f, n, m)
    BY <1>1, LeftStep
  <2>6. f[m + 1] = <<key, Flattened[v]>>
    BY <1>2, <2>1, Zenon
  <2>7. Follows(s, r, i + Off(kvs, m + 1), W, Left(f, n, m + 1), z)
    BY <1>5, Zenon
  <2> HIDE DEF key, v
  <2>8. Len(encodeKey(key) \o encodeValue[v]) = 1 + Len(encodeValue[v]) /\ Len(encodeValue[v]) \in Nat
    <3>1. encodeKey(key) \in Seq(Coded) /\ Len(encodeKey(key)) = 1
      <4>1. encodeKey(key) = <<<<"string", key>>>> /\ encodeKey(key) \in Seq(Coded)
        BY <2>2, KeyIs, UnitsCoded, Zenon
      <4> QED
        BY <4>1
    <3>2. PICK a, b \in Seq(Coded) : a = encodeKey(key) /\ b = encodeValue[v]
      BY <2>2, <3>1, Zenon
    <3>3. Len(a \o b) = Len(a) + Len(b) /\ Len(b) \in Nat
      BY ConcatProperties, LenProperties
    <3> QED
      BY <3>1, <3>2, <3>3, Zenon
  <2>9. o \in Nat /\ o > 0
    BY <2>4
  <2>10. i + Off(kvs, m + 1) = o + 1 + Len(encodeValue[v])
    <3>1. Off(kvs, m + 1) = Off(kvs, m) + (1 + Len(encodeValue[v]))
      BY <2>3, <2>4, <2>8, Zenon
    <3> QED
      BY <2>4, <2>8, <3>1
  <2>11. Along(s, o, encodeKey(key) \o encodeValue[v])
    BY <2>3, <2>4, Zenon
  <2> HIDE DEF o
  <2>12. Follows(s, r, o, W, <<<<key, Flattened[v]>>>> \o Left(f, n, m + 1), z)
    BY <2>2, <2>7, <2>9, <2>10, <2>11, MemberReads, Zenon
  <2> QED
    BY <2>5, <2>6, <2>12, Zenon DEF o
<1> HIDE DEF At
<1>6. 0 \in T
  <2>1. 0 \in 0..n /\ n - 0 = n
    BY <1>1
  <2> QED
    BY <1>4, <2>1, Zenon
<1>7. ASSUME NEW k \in 0..n - 1, k \in T PROVE k + 1 \in T
  <2>1. PICK m \in 0..n - 1 : m = n - (k + 1) /\ m + 1 = n - k /\ k + 1 \in 0..n
    BY <1>1
  <2>2. At(m + 1)
    BY <1>7, <2>1, Zenon
  <2> QED
    BY <1>5, <2>1, <2>2, Zenon
<1> HIDE DEF T
<1>8. 0..n \subseteq T
  BY <1>1, <1>6, <1>7, UpTo
<1>9. n \in 0..n /\ n - n = 0
  BY <1>1
<1>10. At(0)
  BY <1>8, <1>9, Zenon DEF T
<1>11. i + Off(kvs, 0) = i
  <2>1. Flatten(First(Mems(kvs), 0)) = <<>>
    BY FlattenNone
  <2>2. Off(kvs, 0) = 0
    BY <2>1 DEF Off
  <2> QED
    BY <2>2
<1>12. Left(f, n, 0) = f
  BY <1>1, <1>3 DEF Left
<1> QED
  BY <1>10, <1>11, <1>12, Zenon DEF At, f

LEMMA TypedResult ==
  ASSUME NEW t, NEW W, NEW x, NEW z
  PROVE  Typed(t, Result(W, x, z)) = Result(W, <<t, x>>, z)
<1>1. Got(x, z).ok = TRUE /\ Got(x, z).value = x /\ Got(x, z).next = z /\ Throw.ok = FALSE
  BY DEF Got, Throw
<1> QED
  BY <1>1, Zenon DEF Typed, Result

\* The end of an object, which may be cut before it or in it.
LEMMA EndReads ==
  ASSUME NEW s, Buffer(s), NEW i \in Nat, i > 0, Along(s, i, endObject)
  PROVE  Follows(s, "object", i, i + 2 <= Len(s) + 1, <<>>, i + 2)
<1> DEFINE R == Reader(s)
<1>1. Len(s) \in Nat
  BY DEF Buffer
<1>2. Len(endObject) = 2 /\ endObject[1] = EndKey /\ endObject[2] = ObjectEnd
  BY DEF endObject
<1>3. (i <= Len(s) => s[i] = EndKey) /\ (i + 1 <= Len(s) => s[i + 1] = ObjectEnd)
  <2>1. \A j \in 1..2 : (i - 1) + j <= Len(s) => s[(i - 1) + j] = endObject[j]
    BY <1>2, Zenon DEF Along
  <2>2. (i - 1) + 1 = i /\ (i - 1) + 2 = i + 1 /\ 1 \in 1..2 /\ 2 \in 1..2
    OBVIOUS
  <2> QED
    BY <1>2, <2>1, <2>2, Zenon
<1>4. R[<<"object", i, 0>>] = readMembers(s, i, "object", R)
  BY ReadersAre
<1>5. EndKey[1] = "string"
  BY DEF EndKey
<1> HIDE DEF R
<1>6. readMembers(s, i, "object", R) = Result(i + 2 <= Len(s) + 1, <<>>, i + 2)
  <2>1. CASE ~(i <= Len(s))
    <3>1. ~Has(s, i, "string") /\ ~(i + 2 <= Len(s) + 1)
      BY <1>1, <2>1 DEF Has
    <3> QED
      BY <3>1, Zenon DEF readMembers, Result
  <2>2. CASE i = Len(s)
    <3>1. i \in 1..Len(s) /\ i <= Len(s) /\ ~(i + 2 <= Len(s) + 1)
      BY <1>1, <2>2
    <3>2. Has(s, i, "string") /\ s[i] = EndKey
      BY <1>3, <1>5, <3>1, Zenon DEF Has
    <3> QED
      BY <2>2, <3>1, <3>2, Zenon DEF readMembers, Result
  <2>3. CASE i + 1 <= Len(s)
    <3>1. i \in 1..Len(s) /\ i <= Len(s) /\ i + 2 <= Len(s) + 1 /\ i # Len(s)
      BY <1>1, <2>3
    <3>2. Has(s, i, "string") /\ s[i] = EndKey /\ s[i + 1] = ObjectEnd
      BY <1>3, <1>5, <2>3, <3>1, Zenon DEF Has
    <3> QED
      BY <3>1, <3>2, Zenon DEF readMembers, Result
  <2>4. ~(i <= Len(s)) \/ i = Len(s) \/ i + 1 <= Len(s)
    BY <1>1
  <2> QED
    BY <2>1, <2>2, <2>3, <2>4
<1>7. i + 2 <= Len(s) + 1 => i <= Len(s) + 1
  BY <1>1
<1>8. (i + 2 <= Len(s) + 1) \in BOOLEAN /\ "object" \in {"object", "array"}
  OBVIOUS
<1> QED
  BY <1>4, <1>6, <1>7, <1>8, Zenon DEF Follows, R

LEMMA ObjectReads ==
  ASSUME NEW s, Buffer(s), NEW d \in 0..Depth - 1, IsCoded(Nested[d]),
         \A x \in Nested[d] : ReadWhole(s, x), NEW v \in Objects(Nested[d])
  PROVE  ReadWhole(s, v)
<1> DEFINE kvs == v[2]
           E == encodeMembers(kvs, encodeValue)
           f == FlattenedMembers(kvs, Flattened)
           enc == encodeValue[v]
           R == Reader(s)
<1>1. MembersOf(kvs, Nested[d])
  BY ObjectMembers
<1>2. E \in Seq(Coded)
  BY <1>1, MembersCoded, Zenon
<1>3. enc = beginObject \o E \o endObject /\ Flattened[v] = <<"OBJECT", f>>
  BY ObjectCoded, Zenon
<1>4. /\ beginObject \in Seq(Coded) /\ Len(beginObject) = 1 /\ beginObject[1] = <<"tag", "OBJECT">>
      /\ endObject \in Seq(Coded) /\ Len(endObject) = 2
  BY UnitsCoded DEF beginObject, endObject
<1> HIDE DEF kvs, E, f, enc
<1> SUFFICES ASSUME NEW i \in 1..Len(s) + 1, Along(s, i, enc)
             PROVE  R[<<"value", i, 0>>]
                      = Result(i + Len(enc) <= Len(s) + 1, <<"OBJECT", f>>, i + Len(enc))
  BY <1>3, Zenon DEF ReadWhole, enc, R
<1>5. i \in Nat /\ i > 0 /\ Len(s) \in Nat
  BY DEF Buffer
<1> DEFINE a == beginObject \o E
<1>6. a \in Seq(Coded)
  BY <1>2, <1>4, CodedJoin, Zenon
<1>7. /\ Along(s, i, a) /\ Along(s, i + Len(a), endObject)
      /\ Len(enc) = Len(a) + Len(endObject) /\ Len(a) \in Nat
  <2>1. enc = a \o endObject
    BY <1>3, Zenon
  <2> HIDE DEF a
  <2>2. Along(s, i, a \o endObject)
    BY <2>1, Zenon
  <2>3. Along(s, i, a) /\ Along(s, i + Len(a), endObject)
    <3>1. i \in Nat
      BY <1>5
    <3>2. endObject \in Seq(Coded)
      BY <1>4
    <3> QED
      BY <1>6, <2>2, <3>1, <3>2, AlongJoin, Zenon
  <2>4. Len(a \o endObject) = Len(a) + Len(endObject) /\ Len(a) \in Nat
    BY <1>4, <1>6, ConcatProperties, LenProperties, ZenonT(40)
  <2> QED
    BY <2>1, <2>3, <2>4, Zenon
<1>8. /\ Along(s, i, beginObject) /\ Along(s, i + 1, E) /\ Len(a) = 1 + Len(E) /\ Len(E) \in Nat
  <2>1. Along(s, i, beginObject \o E)
    BY <1>7, Zenon
  <2>2. Along(s, i, beginObject) /\ Along(s, i + Len(beginObject), E)
    <3>1. i \in Nat
      BY <1>5
    <3>2. beginObject \in Seq(Coded)
      BY <1>4
    <3> QED
      BY <1>2, <2>1, <3>1, <3>2, AlongJoin, Zenon
  <2>3. Len(a) = Len(beginObject) + Len(E) /\ Len(E) \in Nat
    BY <1>2, <1>4, ConcatProperties, LenProperties, ZenonT(40)
  <2> QED
    BY <1>4, <2>2, <2>3, Zenon
<1> HIDE DEF a
<1>9. PICK l \in Nat : l = Len(E)
  BY <1>8
<1> DEFINE e == (i + 1) + l
           z == e + 2
<1>10. i + 1 \in Nat /\ i + 1 > 0 /\ e \in Nat /\ e > 0 /\ i + (1 + l) = e /\ i + ((1 + l) + 2) = z
  BY <1>5
<1>11. i + Len(a) = e /\ i + Len(enc) = z
  BY <1>4, <1>7, <1>8, <1>9, <1>10, Zenon
<1>12. z <= Len(s) + 1 => i <= Len(s)
  BY <1>5
<1> HIDE DEF e, z
<1>13. Along(s, e, endObject)
  BY <1>7, <1>11, Zenon
<1> DEFINE W == z <= Len(s) + 1
<1>14. Follows(s, "object", e, W, <<>>, z)
  BY <1>10, <1>13, EndReads, Zenon DEF z
<1> HIDE DEF W
<1>15. e = (i + 1) + Len(E)
  BY <1>9, Zenon DEF e
<1>16. Follows(s, "object", i + 1, W, f, z)
  BY <1>1, <1>8, <1>10, <1>14, <1>15, MembersRead, Zenon DEF E, f
<1>17. R[<<"value", i, 0>>] = readValue(s, i, R)
  BY <1>5, ReadersAre
<1>18. i <= Len(s) => s[i] = <<"tag", "OBJECT">>
  <2>1. \A j \in 1..1 : (i - 1) + j <= Len(s) => s[(i - 1) + j] = beginObject[j]
    BY <1>4, <1>8, Zenon DEF Along
  <2>2. 1 \in 1..1 /\ (i - 1) + 1 = i
    BY <1>5
  <2> QED
    BY <1>4, <2>1, <2>2, Zenon
<1> HIDE DEF R
<1>19. readValue(s, i, R) = Result(W, <<"OBJECT", f>>, z)
  <2>1. CASE i <= Len(s)
    <3>1. Has(s, i, "tag") /\ s[i][2] = "OBJECT" /\ i + 1 <= Len(s) + 1
      BY <1>5, <1>18, <2>1 DEF Has
    <3>2. readValue(s, i, R) = Typed("OBJECT", R[<<"object", i + 1, 0>>])
      <4> DEFINE t == s[i][2]
      <4>1. Has(s, i, "tag") /\ t = "OBJECT" /\ t \notin DOMAIN Scalar
        BY <3>1 DEF Scalar
      <4> QED
        BY <4>1 DEF readValue, Scalar
    <3>3. R[<<"object", i + 1, 0>>] = Result(W, f, z)
      BY <1>16, <3>1, Zenon DEF Follows, R
    <3>4. Typed("OBJECT", Result(W, f, z)) = Result(W, <<"OBJECT", f>>, z)
      BY TypedResult
    <3> QED
      BY <3>2, <3>3, <3>4, Zenon
  <2>2. CASE ~(i <= Len(s))
    <3>1. ~Has(s, i, "tag")
      BY <1>5, <2>2 DEF Has
    <3>2. ~W
      BY <1>12, <2>2, Zenon DEF W
    <3> QED
      BY <3>1, <3>2, Zenon DEF readValue, Result
  <2> QED
    BY <2>1, <2>2
<1> QED
  BY <1>11, <1>17, <1>19, Zenon DEF W

LEMMA LevelReads ==
  ASSUME NEW s, Buffer(s), NEW d \in 0..Depth - 1, \A x \in Nested[d] : ReadWhole(s, x),
         NEW v \in Nested[d + 1]
  PROVE  ReadWhole(s, v)
<1>1. IsCoded(Nested[d])
  <2>1. d \in 0..Depth
    BY DepthAssumption
  <2> QED
    BY <2>1, AllCoded
<1>2. v \in Leaf \/ v \in Objects(Nested[d])
  BY NestedIs, Zenon
<1>3. CASE v \in Leaf
  BY <1>3, LeafReads
<1>4. CASE v \in Objects(Nested[d])
  BY <1>1, <1>4, ObjectReads
<1> QED
  BY <1>2, <1>3, <1>4

LEMMA AllRead ==
  ASSUME NEW s, Buffer(s)
  PROVE  \A v \in Nested[Depth] : ReadWhole(s, v)
<1> DEFINE S == {d \in 0..Depth : \A v \in Nested[d] : ReadWhole(s, v)}
<1>1. 0 \in S
  <2>1. 0 \in 0..Depth
    BY DepthAssumption
  <2>2. \A v \in Nested[0] : ReadWhole(s, v)
    BY NestedIs, LeafReads
  <2> QED
    BY <2>1, <2>2
<1>2. ASSUME NEW d \in 0..Depth - 1, d \in S PROVE d + 1 \in S
  <2>1. d + 1 \in 0..Depth
    BY DepthAssumption
  <2>2. \A v \in Nested[d + 1] : ReadWhole(s, v)
    BY <1>2, LevelReads
  <2> QED
    BY <2>1, <2>2
<1> HIDE DEF S
<1>3. 0..Depth \subseteq S
  BY <1>1, <1>2, DepthAssumption, UpTo
<1>4. Depth \in 0..Depth
  BY DepthAssumption
<1> QED
  BY <1>3, <1>4 DEF S

-----------------------------------------------------------------------------
(***************************************************************************)
(* A value behind what a buffer holds, whole and cut.                      *)
(***************************************************************************)
LEMMA CodedBuffer ==
  ASSUME NEW e \in Seq(Coded)
  PROVE  Buffer(e)
<1>1. Len(e) \in Nat /\ \A i \in 1..Len(e) : e[i] \in Coded
  BY LenProperties, ElementOfSeq
<1>2. \A x \in Coded : x[1] # "count"
  BY DEF Coded
<1> QED
  BY <1>1, <1>2, Zenon DEF Buffer

\* e behind p, in the buffer s.
Placed(s, p, e) ==
  /\ Len(s) = Len(p) + Len(e) /\ Len(p) \in Nat /\ Len(e) \in Nat
  /\ \A j \in 1..Len(p) : s[j] = p[j]
  /\ \A j \in 1..Len(e) : s[Len(p) + j] = e[j]

LEMMA Put ==
  ASSUME NEW U, NEW p \in Seq(U), NEW e \in Seq(U)
  PROVE  p \o e \in Seq(U) /\ Placed(p \o e, p, e)
<1> DEFINE c == p \o e
<1>1. /\ c \in Seq(U) /\ Len(c) = Len(p) + Len(e) /\ Len(p) \in Nat /\ Len(e) \in Nat
      /\ \A j \in 1..Len(p) : c[j] = p[j]
      /\ \A j \in 1..Len(e) : c[Len(p) + j] = e[j]
  BY ConcatProperties, LenProperties
<1> QED
  BY <1>1, Zenon DEF Placed

LEMMA PutBuffer ==
  ASSUME NEW s, NEW p, NEW e, Placed(s, p, e), Buffer(p), Buffer(e)
  PROVE  Buffer(s) /\ Along(s, Len(p) + 1, e)
<1>1. /\ Len(s) = Len(p) + Len(e) /\ Len(p) \in Nat /\ Len(e) \in Nat
      /\ \A j \in 1..Len(p) : s[j] = p[j]
      /\ \A j \in 1..Len(e) : s[Len(p) + j] = e[j]
  BY Zenon DEF Placed
<1>2. Buffer(s)
  <2>1. ASSUME NEW i \in 1..Len(s), s[i][1] = "count" PROVE s[i][2] \in Nat
    <3>1. CASE i \in 1..Len(p)
      BY <1>1, <2>1, <3>1 DEF Buffer
    <3>2. CASE i \notin 1..Len(p)
      <4>1. PICK j \in 1..Len(e) : Len(p) + j = i
        <5>1. i - Len(p) \in 1..Len(e) /\ Len(p) + (i - Len(p)) = i
          BY <1>1, <3>2
        <5> QED
          BY <5>1, Zenon
      <4>2. s[i] = e[j]
        BY <1>1, <4>1, Zenon
      <4> QED
        BY <2>1, <4>2 DEF Buffer
    <3> QED
      BY <3>1, <3>2
  <2>2. Len(s) \in Nat
    BY <1>1
  <2> QED
    BY <2>1, <2>2 DEF Buffer
<1>3. \A j \in 1..Len(e) : ((Len(p) + 1) - 1) + j = Len(p) + j
  BY <1>1
<1>4. Along(s, Len(p) + 1, e)
  BY <1>1, <1>3, Zenon DEF Along
<1> QED
  BY <1>2, <1>4

LEMMA CutBuffer ==
  ASSUME NEW s, Buffer(s), NEW n \in 0..Len(s), NEW i \in Nat, i > 0, NEW e, Along(s, i, e),
         Len(e) \in Nat
  PROVE  /\ Buffer(SubSeq(s, 1, n)) /\ Len(SubSeq(s, 1, n)) = n
         /\ Along(SubSeq(s, 1, n), i, e)
<1> DEFINE c == SubSeq(s, 1, n)
           S == {s[j] : j \in 1..n}
<1>0. n \in Nat /\ Len(s) \in Nat
  BY DEF Buffer
<1>1. Len(c) = n /\ \A j \in 1..n : c[j] = s[j]
  <2>1. \A j \in 1..n : s[j] \in S
    OBVIOUS
  <2> HIDE DEF S
  <2>2. Len(c) = (IF 1 <= n THEN n - 1 + 1 ELSE 0) /\ \A j \in 1..n - 1 + 1 : c[j] = s[1 + j - 1]
    BY <1>0, <2>1, SubSeqProperties
  <2>3. (IF 1 <= n THEN n - 1 + 1 ELSE 0) = n /\ n - 1 + 1 = n /\ \A j \in 1..n : 1 + j - 1 = j
    BY <1>0
  <2> HIDE DEF c
  <2> QED
    BY <2>2, <2>3, Zenon
<1> HIDE DEF c, S
<1>2. Buffer(c)
  <2>1. \A j \in 1..n : j \in 1..Len(s)
    BY <1>0
  <2> QED
    BY <1>0, <1>1, <2>1, Zenon DEF Buffer
<1>3. Along(c, i, e)
  <2>1. ASSUME NEW j \in 1..Len(e), (i - 1) + j <= n PROVE c[(i - 1) + j] = e[j]
    <3>1. (i - 1) + j \in 1..n /\ (i - 1) + j <= Len(s)
      BY <1>0, <2>1
    <3> QED
      BY <1>1, <3>1, Zenon DEF Along
  <2> QED
    BY <1>1, <2>1, Zenon DEF Along
<1> QED
  BY <1>1, <1>2, <1>3 DEF c

\* Every value whose strings and keys fit their length fields, behind whatever a
\* buffer holds, is read back, the whole of it and nothing more; and cut short
\* at any unit it throws (AMFEncoder against AMFDecoder).
THEOREM EncodingIsRead ==
  ASSUME NEW U, NEW p \in Seq(U), Buffer(p), NEW v \in Nested[Depth]
  PROVE  ReadsBack(p, v) /\ CutThrows(p, v)
<1> DEFINE e == encodeValue[v]
           s == p \o e
           i == Len(p) + 1
           x == Flattened[v]
<1>1. e \in Seq(Coded)
  <2>1. Depth \in 0..Depth
    BY DepthAssumption
  <2> QED
    BY <2>1, AllCoded, Zenon DEF IsCoded
<1> HIDE DEF e
<1>2. Buffer(e)
  BY <1>1, CodedBuffer
<1>3. Placed(s, p, e)
  <2> DEFINE D == U \cup Coded
  <2>1. U \subseteq D /\ Coded \subseteq D
    OBVIOUS
  <2> HIDE DEF D
  <2>2. p \in Seq(D) /\ e \in Seq(D)
    BY <1>1, <2>1, SeqMonotonic
  <2> QED
    BY <2>2, Put, Zenon
<1> HIDE DEF s
<1>4. Buffer(s) /\ Along(s, i, e)
  BY <1>2, <1>3, PutBuffer
<1>5. Len(s) = Len(p) + Len(e) /\ Len(p) \in Nat /\ Len(e) \in Nat
  BY <1>3, Zenon DEF Placed
<1>6. ASSUME NEW b, Buffer(b), Along(b, i, e), i \in 1..Len(b) + 1
      PROVE  decode(b, i) = Result(i + Len(e) <= Len(b) + 1, x, i + Len(e))
  <2>1. decode(b, i) = Reader(b)[<<"value", i, 0>>]
    BY <1>6, ReaderIs
  <2>2. ReadWhole(b, v)
    BY <1>6, AllRead
  <2> HIDE DEF i
  <2> QED
    BY <1>6, <2>1, <2>2, Zenon DEF ReadWhole, e
<1>7. i \in Nat /\ i > 0
  BY <1>5
<1>8. ReadsBack(p, v)
  <2>1. i \in 1..Len(s) + 1 /\ i + Len(e) <= Len(s) + 1 /\ i + Len(e) = Len(s) + 1
    BY <1>5
  <2>2. decode(s, i) = Result(i + Len(e) <= Len(s) + 1, x, i + Len(e))
    BY <1>4, <1>6, <2>1
  <2>3. decode(s, i) = Got(x, Len(s) + 1)
    BY <2>1, <2>2, Zenon DEF Result
  <2> QED
    BY <2>3, Zenon DEF ReadsBack, s, e
<1>9. CutThrows(p, v)
  <2>1. ASSUME NEW n \in Len(p)..Len(s) - 1 PROVE ~decode(SubSeq(s, 1, n), i).ok
    <3> DEFINE c == SubSeq(s, 1, n)
    <3>1. n \in 0..Len(s)
      BY <1>5
    <3>2. Buffer(c) /\ Len(c) = n /\ Along(c, i, e)
      BY <1>4, <1>5, <1>7, <3>1, CutBuffer
    <3> HIDE DEF c
    <3>3. i \in 1..n + 1 /\ ~(i + Len(e) <= n + 1)
      BY <1>5
    <3>4. decode(c, i) = Result(i + Len(e) <= Len(c) + 1, x, i + Len(e))
      BY <1>6, <3>2, <3>3
    <3>5. decode(c, i) = Throw
      BY <3>2, <3>3, <3>4, Zenon DEF Result
    <3> QED
      BY <3>5 DEF Throw, c
  <2> QED
    BY <2>1, Zenon DEF CutThrows, s, e
<1> QED
  BY <1>8, <1>9

LEMMA KeptMembers ==
  ASSUME NEW kvs, NEW V, MembersOf(kvs, V), NEW n \in 0..Len(kvs)
  PROVE  MembersOf(SubSeq(kvs, 1, n), V)
<1> DEFINE kept == SubSeq(kvs, 1, n)
           S == {kvs[j] : j \in 1..n}
<1>1. Len(kvs) \in Nat /\ \A i \in 1..Len(kvs) : kvs[i][1] \in Keys /\ kvs[i][2] \in V
  BY Zenon DEF MembersOf
<1>2. n \in Nat /\ \A j \in 1..n : j \in 1..Len(kvs)
  BY <1>1
<1>3. kept \in Seq(S) /\ Len(kept) = n /\ \A j \in 1..n : kept[j] = kvs[j]
  <2>1. \A j \in 1..n : kvs[j] \in S
    OBVIOUS
  <2> HIDE DEF S
  <2>2. /\ kept \in Seq(S) /\ Len(kept) = (IF 1 <= n THEN n - 1 + 1 ELSE 0)
        /\ \A j \in 1..n - 1 + 1 : kept[j] = kvs[1 + j - 1]
    BY <1>2, <2>1, SubSeqProperties
  <2>3. (IF 1 <= n THEN n - 1 + 1 ELSE 0) = n /\ n - 1 + 1 = n /\ \A j \in 1..n : 1 + j - 1 = j
    BY <1>2
  <2> HIDE DEF kept
  <2> QED
    BY <2>2, <2>3, Zenon
<1> HIDE DEF kept, S
<1>4. DOMAIN kept = 1..n
  BY <1>3, LenProperties
<1> QED
  BY <1>1, <1>2, <1>3, <1>4, Zenon DEF MembersOf, kept

LEMMA ArrayEnds ==
  ASSUME NEW s, Buffer(s)
  PROVE  Follows(s, "array", Len(s) + 1, TRUE, <<>>, Len(s) + 1)
<1>1. Len(s) + 1 \in Nat /\ ~(Len(s) + 1 <= Len(s)) /\ Len(s) + 1 <= Len(s) + 1
  BY DEF Buffer
<1>2. ~Has(s, Len(s) + 1, "string")
  BY <1>1 DEF Has
<1>3. Reader(s)[<<"array", Len(s) + 1, 0>>] = readMembers(s, Len(s) + 1, "array", Reader(s))
  BY <1>1, ReadersAre
<1>4. "array" # "object" /\ "array" \in {"object", "array"} /\ TRUE \in BOOLEAN
  OBVIOUS
<1>5. readMembers(s, Len(s) + 1, "array", Reader(s)) = Got(<<>>, Len(s) + 1)
  BY <1>1, <1>2, <1>4, Zenon DEF readMembers
<1> QED
  BY <1>1, <1>3, <1>4, <1>5, Zenon DEF Follows, Result

\* An ECMA array that stops behind a member is read as the members before,
\* without an error: OnMetadata ends many a message so.
THEOREM ArrayIsRead ==
  ASSUME NEW U, NEW p \in Seq(U), Buffer(p), NEW kvs, MembersOf(kvs, Nested[Depth])
  PROVE  CutArray(p, kvs)
<1> SUFFICES ASSUME NEW n \in 0..Len(kvs)
             PROVE  LET kept == SubSeq(kvs, 1, n)
                        s == p \o encodeECMAArray(Len(kvs)) \o encodeMembers(kept, encodeValue)
                    IN  decode(s, Len(p) + 1)
                          = Got(<<"ECMA_ARRAY", FlattenedMembers(kept, Flattened)>>, Len(s) + 1)
  BY DEF CutArray
<1> DEFINE kept == SubSeq(kvs, 1, n)
           K == Len(kvs)
           V == Nested[Depth]
           a1 == <<"tag", "ECMA_ARRAY">>
           a2 == <<"count", K>>
           a == encodeECMAArray(K)
           E == encodeMembers(kept, encodeValue)
           F == FlattenedMembers(kept, Flattened)
           b == p \o a
           s == b \o E
           i == Len(p) + 1
           R == Reader(s)
<1>1. K \in Nat
  BY Zenon DEF MembersOf
<1>2. MembersOf(kept, V)
  BY KeptMembers
<1>3. IsCoded(V)
  <2>1. Depth \in 0..Depth
    BY DepthAssumption
  <2> QED
    BY <2>1, AllCoded, Zenon
<1>4. a = <<a1, a2>> /\ Len(a) = 2 /\ a[1] = a1 /\ a[2] = a2
  BY DEF encodeECMAArray
<1>5. a1[1] = "tag" /\ a1[2] = "ECMA_ARRAY" /\ a2[1] = "count" /\ a2[2] = K
  OBVIOUS
<1> HIDE DEF kept, K, V, a, E, F
<1>6. E \in Seq(Coded)
  BY <1>2, <1>3, MembersCoded, Zenon DEF E
<1>7. Buffer(a)
  <2>1. \A j \in 1..2 : a[j][1] = "count" => a[j][2] \in Nat
    BY <1>1, <1>4, <1>5
  <2> QED
    BY <1>4, <2>1 DEF Buffer
<1> DEFINE D == U \cup Coded \cup {a1, a2}
<1>8. p \in Seq(D) /\ E \in Seq(D) /\ a \in Seq(D)
  <2>1. U \subseteq D /\ Coded \subseteq D /\ a1 \in D /\ a2 \in D
    OBVIOUS
  <2> HIDE DEF D, a1, a2
  <2>2. p \in Seq(D) /\ E \in Seq(D)
    BY <1>6, <2>1, SeqMonotonic
  <2>3. a \in Seq(D)
    BY <1>4, <2>1, ShortSeqs, Zenon
  <2> QED
    BY <2>2, <2>3
<1> HIDE DEF D, a1, a2
<1>9. b \in Seq(D) /\ Placed(b, p, a)
  BY <1>8, Put, Zenon
<1> HIDE DEF b
<1>10. Placed(s, b, E)
  BY <1>8, <1>9, Put, Zenon
<1> HIDE DEF s
<1>11. Buffer(b)
  BY <1>7, <1>9, PutBuffer
<1>12. Buffer(s) /\ Along(s, Len(b) + 1, E)
  BY <1>6, <1>10, <1>11, CodedBuffer, PutBuffer
<1>13. /\ Len(b) = Len(p) + 2 /\ Len(p) \in Nat /\ b[Len(p) + 1] = a1 /\ b[Len(p) + 2] = a2
  <2>1. Len(b) = Len(p) + Len(a) /\ Len(p) \in Nat /\ \A j \in 1..Len(a) : b[Len(p) + j] = a[j]
    BY <1>9, Zenon DEF Placed
  <2>2. 1 \in 1..2 /\ 2 \in 1..2
    OBVIOUS
  <2> QED
    BY <1>4, <2>1, <2>2, Zenon
<1>14. Len(s) = Len(b) + Len(E) /\ Len(E) \in Nat /\ \A j \in 1..Len(b) : s[j] = b[j]
  BY <1>10, Zenon DEF Placed
<1>15. /\ i \in 1..Len(s) /\ i + 1 \in 1..Len(s) /\ i \in 1..Len(b) /\ i + 1 \in 1..Len(b)
       /\ i + 1 = Len(p) + 2 /\ i \in Nat /\ i + 2 \in Nat /\ i + 2 > 0
       /\ i + 2 = Len(b) + 1 /\ (i + 2) + Len(E) = Len(s) + 1 /\ i + 2 <= Len(s) + 1
  BY <1>13, <1>14
<1>16. s[i] = a1 /\ s[i + 1] = a2
  BY <1>13, <1>14, <1>15, Zenon
<1>17. Follows(s, "array", i + 2, TRUE, F, Len(s) + 1)
  <2>1. \A x \in V : ReadWhole(s, x)
    BY <1>12, AllRead DEF V
  <2>2. Along(s, i + 2, E)
    BY <1>12, <1>15, Zenon
  <2>3. Follows(s, "array", Len(s) + 1, TRUE, <<>>, Len(s) + 1)
    BY <1>12, ArrayEnds
  <2> HIDE DEF i
  <2> QED
    BY <1>2, <1>3, <1>12, <1>15, <2>1, <2>2, <2>3, MembersRead, Zenon DEF E, F
<1>18. R[<<"array", i + 2, 0>>] = Got(F, Len(s) + 1)
  BY <1>15, <1>17, Zenon DEF Follows, Result, R
<1> HIDE DEF R
<1>19. decode(s, i) = readValue(s, i, R)
  BY <1>12, <1>15, DecodeIs DEF R
<1>20. readValue(s, i, R) = Typed("ECMA_ARRAY", R[<<"array", i + 2, 0>>])
  <2> DEFINE t == s[i][2]
  <2>1. Has(s, i, "tag") /\ Has(s, i + 1, "count") /\ t = "ECMA_ARRAY"
    BY <1>5, <1>15, <1>16, Zenon DEF Has
  <2> QED
    BY <2>1 DEF readValue, Scalar
<1>21. Typed("ECMA_ARRAY", Got(F, Len(s) + 1)) = Got(<<"ECMA_ARRAY", F>>, Len(s) + 1)
  BY DEF Typed, Got
<1>22. decode(s, i) = Got(<<"ECMA_ARRAY", F>>, Len(s) + 1)
  BY <1>18, <1>19, <1>20, <1>21, Zenon
<1> QED
  BY <1>22, Zenon DEF s, b, a, K, E, F, kept

\* What is nested, and an object, has members that are nested.
LEMMA NestedMembers ==
  ASSUME NEW v \in Nested[Depth], v[1] = "OBJECT"
  PROVE  MembersOf(v[2], Nested[Depth])
<1>1. v \notin Leaf
  BY LeafIs DEF Null, Scalar
<1>2. Depth # 0
  BY <1>1, NestedIs
<1>3. PICK d \in 0..Depth - 1 : d + 1 = Depth
  <2>1. Depth - 1 \in 0..Depth - 1 /\ (Depth - 1) + 1 = Depth
    BY <1>2, DepthAssumption
  <2> QED
    BY <2>1, Zenon
<1>4. Nested[Depth] = Leaf \cup Objects(Nested[d]) /\ Nested[d] \subseteq Nested[Depth]
  BY <1>3, NestedIs, NestedGrows, Zenon
<1>5. MembersOf(v[2], Nested[d])
  BY <1>1, <1>4, ObjectMembers
<1> QED
  BY <1>4, <1>5, Zenon DEF MembersOf

\* A string that does not fit is read as its first bytes, without an exception,
\* and the reader stops before the bytes behind them (writeShortString).
THEOREM LongStringIsCut ==
  ASSUME NEW U, NEW p \in Seq(U), Buffer(p), NEW str \in DOMAIN Spill
  PROVE  LongIsCut(p, str)
<1> DEFINE a == <<"tag", "STRING">>
           b == <<"string", Spill[str][1]>>
           rest == Spill[str][2]
           e == encodeString(str)
           s == p \o e
           i == Len(p) + 1
<1>1. rest \in Seq(AmfUnits)
  BY SpillAssumption
<1> DEFINE W == AmfUnits \cup {a, b}
<1>2. /\ a \in W /\ b \in W /\ AmfUnits \subseteq W
      /\ \A u \in W : u[1] = "count" => u[2] \in Nat
  <2>1. \A u \in AmfUnits : u[1] = "count" => u[2] \in Nat
    BY DEF AmfUnits
  <2> QED
    BY <2>1
<1> HIDE DEF W, rest
<1>3. <<a>> \in Seq(W) /\ <<b>> \in Seq(W) /\ rest \in Seq(W)
  BY <1>1, <1>2, SeqMonotonic, ShortSeqs
<1>4. e = <<a>> \o (<<b>> \o rest)
  BY Zenon DEF encodeString, writeShortString, rest
<1>5. /\ e \in Seq(W) /\ Len(e) \in Nat /\ Len(e) >= 2 /\ e[1] = a /\ e[2] = b
  <2>1. PICK A, B \in Seq(W) : A = <<a>> /\ B = <<b>> /\ Len(A) = 1 /\ Len(B) = 1
                              /\ A[1] = a /\ B[1] = b
    BY <1>3
  <2>2. PICK C \in Seq(W) : C = B \o rest /\ Len(C) \in Nat /\ Len(C) >= 1 /\ C[1] = b
    <3> HIDE DEF a, b, e
    <3>1. Len(rest) \in Nat
      BY <1>3, LenProperties
    <3>2. /\ B \o rest \in Seq(W) /\ Len(B \o rest) = 1 + Len(rest) /\ (B \o rest)[1] = b
      BY <1>3, <2>1, <3>1, ConcatProperties
    <3>3. Len(B \o rest) \in Nat /\ Len(B \o rest) >= 1
      BY <3>1, <3>2
    <3> QED
      BY <3>2, <3>3, Zenon
  <2>3. A \o C \in Seq(W) /\ Len(A \o C) = 1 + Len(C) /\ (A \o C)[1] = a /\ (A \o C)[2] = C[1]
    BY <2>1, <2>2, ConcatProperties
  <2>4. e = A \o C
    BY <1>4, <2>1, <2>2, Zenon
  <2> HIDE DEF e, a, b
  <2> QED
    BY <2>2, <2>3, <2>4
<1> HIDE DEF e
<1>6. Buffer(e)
  <2>1. \A j \in 1..Len(e) : e[j] \in W
    BY <1>5, ElementOfSeq
  <2> QED
    BY <1>2, <1>5, <2>1, Zenon DEF Buffer
<1>7. Placed(s, p, e)
  <2> DEFINE D == U \cup W
  <2>1. U \subseteq D /\ W \subseteq D
    OBVIOUS
  <2> HIDE DEF D
  <2>2. p \in Seq(D) /\ e \in Seq(D)
    BY <1>5, <2>1, SeqMonotonic
  <2> QED
    BY <2>2, Put, Zenon
<1> HIDE DEF s
<1>8. Buffer(s)
  BY <1>6, <1>7, PutBuffer
<1>9. /\ i \in Nat /\ i \in 1..Len(s) /\ i + 1 \in 1..Len(s) /\ i + 2 = Len(p) + 3
      /\ s[i] = a /\ s[i + 1] = b
  <2>1. /\ Len(s) = Len(p) + Len(e) /\ Len(p) \in Nat
        /\ \A j \in 1..Len(e) : s[Len(p) + j] = e[j]
    BY <1>7, Zenon DEF Placed
  <2>2. 1 \in 1..Len(e) /\ 2 \in 1..Len(e) /\ Len(p) + 2 = i + 1
    BY <1>5, <2>1
  <2>3. s[i] = a /\ s[i + 1] = b
    BY <1>5, <2>1, <2>2, Zenon
  <2> QED
    BY <1>5, <2>1, <2>3
<1>10. "STRING" \in DOMAIN Scalar /\ Scalar["STRING"] = "string"
  BY DEF Scalar
<1>11. decode(s, i) = Got(<<"STRING", Spill[str][1]>>, i + 2)
  <2> HIDE DEF i
  <2> QED
    BY <1>8, <1>9, <1>10, DecodeScalar
<1> QED
  BY <1>9, <1>11, Zenon DEF LongIsCut, s, e

\* Behind a message in hand the codec keeps what it promises: HandleAMF reads
\* one value after the other at the place where the one before ended.
THEOREM SessionCodec == Spec => []CodecFaithful
<1>1. Base => CodecFaithful
  <2> SUFFICES ASSUME Base, inbox \notin {None, Garbled} PROVE Promised(inbox.payload)
    BY DEF CodecFaithful
  <2>1. inbox \in Records
    BY DEF Base
  <2>2. inbox.payload \in Seq(Units)
    BY <2>1 DEF Records
  <2>3. Buffer(inbox.payload)
    BY <2>2, PayloadBuffer
  <2>4. ASSUME NEW v \in Values
        PROVE  /\ ReadsBack(inbox.payload, v) /\ CutThrows(inbox.payload, v)
               /\ v[1] = "OBJECT" => CutArray(inbox.payload, v[2])
    <3>1. v \in Nested[Depth]
      BY ValuesAssumption
    <3>2. ReadsBack(inbox.payload, v) /\ CutThrows(inbox.payload, v)
      BY <2>2, <2>3, <3>1, EncodingIsRead
    <3>3. v[1] = "OBJECT" => CutArray(inbox.payload, v[2])
      BY <2>2, <2>3, <3>1, NestedMembers, ArrayIsRead
    <3> QED
      BY <3>2, <3>3
  <2>5. \A str \in DOMAIN Spill : LongIsCut(inbox.payload, str)
    BY <2>2, <2>3, LongStringIsCut
  <2> QED
    BY <2>4, <2>5 DEF Promised
<1> QED
  BY <1>1, SessionInvariant, PTL

=============================================================================
