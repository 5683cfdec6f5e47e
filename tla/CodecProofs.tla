---------------------------- MODULE CodecProofs -----------------------------
(***************************************************************************)
(* Machine-checked proofs about PacketCodec: what Unpack makes of what     *)
(* Write wrote, for every well-formed packet. encodeLength, decodeLength,  *)
(* FlattenSeq and the lists of SUBSCRIBE and UNSUBSCRIBE are recursive     *)
(* functions, of which a proof knows only the equation they are CHOSEn by: *)
(* that it has a solution is Recursion, and Reached says what a solution   *)
(* gives for items that lie one behind the other.                          *)
(***************************************************************************)
EXTENDS PacketCodec, WellFoundedInduction, TLAPS

\* A set of numbers has a least one.
LEMMA LeastNumber ==
  ASSUME NEW S, S \subseteq Nat, S # {}
  PROVE  \E i \in S : \A j \in S : i <= j
<1>1. PICK i \in S : \A j \in S : ~(<<j, i>> \in OpToRel(<, Nat))
  BY WFMin, NatLessThanWellFounded, Zenon
<1>2. \A j \in S : ~(j < i)
  BY <1>1 DEF OpToRel
<1>3. QED
  BY <1>2

\* From every place i of D that is not in B, where it ends, a recursion asks
\* for next[i], whose rank is lower.
Recursive(D, rank, next, B) ==
  /\ rank \in [D -> Nat] /\ next \in [D -> D] /\ B \subseteq D
  /\ \A i \in D \ B : rank[next[i]] < rank[i]

\* Such a recursion has a solution.
Solves(h, dom, next, B, base, step) ==
  \A i \in dom : h[i] = IF i \in B THEN base[i] ELSE step[<<i, h[next[i]]>>]

\* Whatever D, base and step are: a recursion over ranks that decrease can be
\* solved.  What CHOOSE gives for such a function therefore is a solution.
LEMMA Recursion ==
  ASSUME NEW D, NEW V, NEW rank, NEW next, NEW B, Recursive(D, rank, next, B),
         NEW base \in [D -> V], NEW step \in [D \X V -> V]
  PROVE  \E h \in [D -> V] : Solves(h, D, next, B, base, step)
<1> DEFINE Low(n) == {i \in D : rank[i] <= n}
           Partial(n) == {h \in [Low(n) -> V] : Solves(h, Low(n), next, B, base, step)}
<1>r. /\ rank \in [D -> Nat] /\ next \in [D -> D] /\ B \subseteq D
      /\ \A i \in D \ B : rank[next[i]] < rank[i]
  BY DEF Recursive
<1> USE <1>r
<1>1. ASSUME NEW m \in Nat, NEW n \in Nat, m <= n,
             NEW h \in Partial(m), NEW g \in Partial(n)
      PROVE  \A i \in Low(m) : h[i] = g[i]
  <2> DEFINE S == {r \in Nat : \E i \in Low(m) : rank[i] = r /\ h[i] # g[i]}
  <2>1. SUFFICES ASSUME NEW j \in Low(m), h[j] # g[j] PROVE FALSE
    OBVIOUS
  <2>2. rank[j] \in S
    BY <2>1
  <2>3. PICK r \in S : \A q \in S : r <= q
    <3>1. S \subseteq Nat /\ S # {}
      BY <2>2
    <3> HIDE DEF S
    <3> QED BY <3>1, LeastNumber
  <2>4. PICK i \in Low(m) : rank[i] = r /\ h[i] # g[i]
    BY <2>3
  <2>5. /\ h[i] = IF i \in B THEN base[i] ELSE step[<<i, h[next[i]]>>]
        /\ g[i] = IF i \in B THEN base[i] ELSE step[<<i, g[next[i]]>>]
    <3>1. i \in Low(n)
      BY <1>1, <2>4
    <3> QED BY <2>4, <3>1 DEF Solves
  <2>6. CASE i \in B
    BY <2>4, <2>5, <2>6
  <2>7. CASE i \notin B
    <3>1. /\ next[i] \in D /\ rank[next[i]] \in Nat /\ rank[i] \in Nat
          /\ rank[next[i]] < rank[i] /\ rank[i] <= m
      BY <2>4, <2>7
    <3>2. next[i] \in Low(m) /\ rank[next[i]] \notin S
      BY <1>1, <2>3, <2>4, <3>1
    <3>3. h[next[i]] = g[next[i]]
      BY <3>1, <3>2
    <3> QED BY <2>4, <2>5, <2>7, <3>3
  <2> QED BY <2>6, <2>7
<1>2. \A n \in Nat : Partial(n) # {}
  <2> DEFINE S == {n \in Nat : Partial(n) = {}}
  <2>1. SUFFICES ASSUME S # {} PROVE FALSE
    OBVIOUS
  <2>2. PICK n \in S : \A m \in S : n <= m
    <3>1. S \subseteq Nat
      OBVIOUS
    <3> HIDE DEF S
    <3> QED BY <2>1, <3>1, LeastNumber
  <2>3. PICK g : g \in [Low(n) -> V] /\ \A i \in Low(n) : rank[i] < n =>
          g[i] = IF i \in B THEN base[i] ELSE step[<<i, g[next[i]]>>]
    <3>1. CASE n = 0
      <4>1. [i \in Low(n) |-> base[i]] \in [Low(n) -> V]
        OBVIOUS
      <4>2. \A i \in Low(n) : ~(rank[i] < n)
        BY <3>1
      <4> QED BY <4>1, <4>2
    <3>2. CASE n # 0
      <4>1. n - 1 \in Nat /\ n - 1 \notin S
        BY <2>2, <3>2
      <4>2. PICK h : h \in Partial(n - 1)
        BY <4>1
      <4> DEFINE g == [i \in Low(n) |-> IF i \in Low(n - 1) THEN h[i] ELSE base[i]]
      <4>3. g \in [Low(n) -> V]
        BY <4>2
      <4>4. ASSUME NEW i \in Low(n), rank[i] < n
            PROVE  g[i] = IF i \in B THEN base[i] ELSE step[<<i, g[next[i]]>>]
        <5>1. i \in Low(n - 1) /\ g[i] = h[i]
          BY <4>1, <4>4
        <5>2. h[i] = IF i \in B THEN base[i] ELSE step[<<i, h[next[i]]>>]
          BY <4>2, <5>1 DEF Solves
        <5>3. ASSUME i \notin B PROVE g[next[i]] = h[next[i]]
          <6>1. /\ next[i] \in D /\ rank[next[i]] \in Nat /\ rank[i] \in Nat
                /\ rank[next[i]] < rank[i]
            BY <5>1, <5>3
          <6>2. next[i] \in Low(n - 1) /\ next[i] \in Low(n)
            BY <4>1, <4>4, <6>1
          <6> QED BY <6>2
        <5> QED BY <5>1, <5>2, <5>3
      <4> QED BY <4>3, <4>4
    <3> QED BY <3>1, <3>2
  <2> DEFINE f == [i \in Low(n) |-> IF i \in B THEN base[i] ELSE step[<<i, g[next[i]]>>]]
  <2>4. ASSUME NEW i \in Low(n), i \notin B
        PROVE  next[i] \in Low(n) /\ f[next[i]] = g[next[i]] /\ g[next[i]] \in V
    <3>1. /\ next[i] \in D /\ rank[next[i]] \in Nat /\ rank[i] \in Nat
          /\ rank[next[i]] < rank[i] /\ rank[i] <= n
      BY <2>4
    <3>2. next[i] \in Low(n) /\ rank[next[i]] < n
      BY <3>1
    <3> QED BY <2>3, <3>2
  <2>5. f \in [Low(n) -> V]
    <3>1. ASSUME NEW i \in Low(n)
          PROVE  (IF i \in B THEN base[i] ELSE step[<<i, g[next[i]]>>]) \in V
      BY <2>4
    <3> QED BY <3>1
  <2>6. Solves(f, Low(n), next, B, base, step)
    BY <2>4 DEF Solves
  <2> QED BY <2>2, <2>5, <2>6
<1> DEFINE h == [i \in D |-> (CHOOSE g : g \in Partial(rank[i]))[i]]
<1>3. ASSUME NEW i \in D, NEW n \in Nat, rank[i] <= n, NEW g \in Partial(n)
      PROVE  h[i] = g[i]
  <2> DEFINE g0 == CHOOSE f : f \in Partial(rank[i])
  <2>1. rank[i] \in Nat /\ g0 \in Partial(rank[i])
    <3>1. rank[i] \in Nat
      OBVIOUS
    <3>2. Partial(rank[i]) # {}
      BY <1>2, <3>1
    <3> HIDE DEF Partial
    <3>3. g0 \in Partial(rank[i])
      BY <3>2, Zenon
    <3> QED BY <3>1, <3>3
  <2>2. i \in Low(rank[i])
    BY <2>1
  <2>3. h[i] = g0[i]
    OBVIOUS
  <2> HIDE DEF g0, Partial, h
  <2> QED BY <1>1, <1>3, <2>1, <2>2, <2>3
<1>4. ASSUME NEW i \in D
      PROVE  h[i] \in V /\ h[i] = IF i \in B THEN base[i] ELSE step[<<i, h[next[i]]>>]
  <2>1. PICK g : g \in Partial(rank[i])
    BY <1>2
  <2>2. i \in Low(rank[i]) /\ rank[i] \in Nat
    OBVIOUS
  <2>3. h[i] = g[i]
    BY <1>3, <2>1, <2>2
  <2>4. g[i] \in V /\ g[i] = IF i \in B THEN base[i] ELSE step[<<i, g[next[i]]>>]
    BY <2>1, <2>2 DEF Solves
  <2>5. ASSUME i \notin B PROVE h[next[i]] = g[next[i]]
    <3>1. next[i] \in D /\ rank[next[i]] <= rank[i]
      BY <2>2, <2>5
    <3> HIDE DEF h, Partial
    <3> QED BY <1>3, <2>1, <2>2, <3>1
  <2> QED BY <2>3, <2>4, <2>5
<1>5. h \in [D -> V]
  BY <1>4
<1> QED BY <1>4, <1>5 DEF Solves

\* What holds in B and of each other place if it holds of the next.
Carried(T, D, next, B) ==
  B \subseteq T /\ \A i \in D \ B : next[i] \in T => i \in T

\* It holds everywhere.
LEMMA Reached ==
  ASSUME NEW D, NEW rank, NEW next, NEW B, Recursive(D, rank, next, B),
         NEW T, Carried(T, D, next, B)
  PROVE  D \subseteq T
<1>r. /\ rank \in [D -> Nat] /\ next \in [D -> D]
      /\ \A i \in D \ B : rank[next[i]] < rank[i]
  BY DEF Recursive
<1>c. B \subseteq T /\ \A i \in D \ B : next[i] \in T => i \in T
  BY DEF Carried
<1> USE <1>r, <1>c
<1> DEFINE S == {r \in Nat : \E j \in D : rank[j] = r /\ j \notin T}
<1>1. SUFFICES ASSUME NEW i \in D, i \notin T PROVE FALSE
  OBVIOUS
<1>2. rank[i] \in S
  BY <1>1
<1>3. PICK r \in S : \A q \in S : r <= q
  <2>1. S \subseteq Nat
    OBVIOUS
  <2> HIDE DEF S
  <2> QED BY <1>2, <2>1, LeastNumber
<1>4. PICK j \in D : rank[j] = r /\ j \notin T
  BY <1>3
<1>5. next[j] \in D /\ rank[next[j]] \in Nat /\ rank[next[j]] < r
  BY <1>4
<1>6. rank[next[j]] \notin S
  BY <1>3, <1>5
<1> QED BY <1>4, <1>5, <1>6

-----------------------------------------------------------------------------
(* Bytes at their place.                                                   *)

\* Bytes that follow one another.
LEMMA Joined ==
  ASSUME NEW s \in Seq(Byte), NEW t \in Seq(Byte)
  PROVE  /\ s \o t \in Seq(Byte) /\ Len(s \o t) = Len(s) + Len(t)
         /\ Len(s) \in Nat /\ Len(t) \in Nat
OBVIOUS

\* The bytes s are in b, from i on.
Sits(s, b, i) ==
  \A j \in 1 .. Len(s) : i + j - 1 \in 1 .. Len(b) /\ b[i + j - 1] = s[j]

\* Of two that follow one another each is in its place.
LEMMA SitsTwo ==
  ASSUME NEW s \in Seq(Byte), NEW t \in Seq(Byte), NEW b \in Seq(Byte),
         NEW i \in Nat, Sits(s \o t, b, i)
  PROVE  Sits(s, b, i) /\ Sits(t, b, i + Len(s))
<1>1. /\ Len(s \o t) = Len(s) + Len(t) /\ Len(s) \in Nat /\ Len(t) \in Nat
      /\ \A j \in 1 .. Len(s) : (s \o t)[j] = s[j]
      /\ \A j \in 1 .. Len(t) : (s \o t)[Len(s) + j] = t[j]
  OBVIOUS
<1>2. ASSUME NEW j \in 1 .. Len(s)
      PROVE  i + j - 1 \in 1 .. Len(b) /\ b[i + j - 1] = s[j]
  BY <1>1, <1>2 DEF Sits
<1>3. ASSUME NEW j \in 1 .. Len(t)
      PROVE  i + Len(s) + j - 1 \in 1 .. Len(b) /\ b[i + Len(s) + j - 1] = t[j]
  <2>1. Len(s) + j \in 1 .. Len(s \o t)
    BY <1>1
  <2>2. i + (Len(s) + j) - 1 \in 1 .. Len(b) /\ b[i + (Len(s) + j) - 1] = t[j]
    BY <1>1, <2>1 DEF Sits
  <2>3. i + (Len(s) + j) - 1 = i + Len(s) + j - 1
    BY <1>1
  <2> QED BY <2>2, <2>3
<1> QED BY <1>2, <1>3 DEF Sits

\* A sequence sits in itself, from its first place on.
LEMMA SitsWhole == ASSUME NEW b \in Seq(Byte) PROVE Sits(b, b, 1)
BY DEF Sits

\* A byte is read where it sits.
LEMMA ByteAt ==
  ASSUME NEW v \in Byte, NEW b \in Seq(Byte), NEW i \in Nat, Sits(<<v>>, b, i)
  PROVE  decodeByte(b, i) = v
<1>1. i + 1 - 1 \in 1 .. Len(b) /\ b[i + 1 - 1] = v
  BY DEF Sits
<1> QED BY <1>1 DEF decodeByte

\* encodeUint16 makes two bytes.
LEMMA Uint16Bytes ==
  ASSUME NEW n \in Uint16
  PROVE  /\ n \div 256 \in Byte /\ n % 256 \in Byte
         /\ 256 * (n \div 256) + (n % 256) = n
         /\ encodeUint16(n) \in Seq(Byte) /\ Len(encodeUint16(n)) = 2
<1>1. n \div 256 \in Byte /\ n % 256 \in Byte /\ 256 * (n \div 256) + (n % 256) = n
  BY DEF Uint16, Byte
<1> QED BY <1>1 DEF encodeUint16

\* A number is read where its two bytes sit.
LEMMA Uint16At ==
  ASSUME NEW n \in Uint16, NEW b \in Seq(Byte), NEW i \in Nat,
         Sits(encodeUint16(n), b, i)
  PROVE  decodeUint16(b, i) = n
<1> DEFINE hi == n \div 256  lo == n % 256
<1>1. hi \in Byte /\ lo \in Byte /\ 256 * hi + lo = n /\ encodeUint16(n) = <<hi, lo>>
  BY Uint16Bytes DEF encodeUint16
<1> HIDE DEF hi, lo
<1>2. /\ i + 1 - 1 \in 1 .. Len(b) /\ b[i + 1 - 1] = hi
      /\ i + 2 - 1 \in 1 .. Len(b) /\ b[i + 2 - 1] = lo
  BY <1>1 DEF Sits
<1>3. decodeByte(b, i) = hi /\ decodeByte(b, i + 1) = lo
  BY <1>2 DEF decodeByte
<1> QED BY <1>1, <1>3 DEF decodeUint16

\* A string is two bytes longer when encoded.
LEMMA StringBytes ==
  ASSUME NEW s \in Text
  PROVE  /\ s \in Seq(Byte) /\ Len(s) \in Uint16 /\ encodeString(s) \in Seq(Byte)
         /\ Len(encodeString(s)) = 2 + Len(s)
<1>1. s \in Seq(Byte) /\ Len(s) \in Uint16
  BY DEF Text
<1>2. encodeUint16(Len(s)) \in Seq(Byte) /\ Len(encodeUint16(Len(s))) = 2
  BY <1>1, Uint16Bytes
<1>3. /\ encodeUint16(Len(s)) \o s \in Seq(Byte)
      /\ Len(encodeUint16(Len(s)) \o s) = 2 + Len(s)
  BY <1>1, <1>2, Joined
<1> QED BY <1>1, <1>3 DEF encodeString

\* A string is read where it sits, and the next field begins where it ends.
LEMMA StringAt ==
  ASSUME NEW s \in Text, NEW b \in Seq(Byte), NEW i \in Nat,
         Sits(encodeString(s), b, i)
  PROVE  decodeString(b, i) = s /\ After(b, i) = i + Len(encodeString(s))
<1>1. /\ s \in Seq(Byte) /\ Len(s) \in Uint16 /\ Len(encodeString(s)) = 2 + Len(s)
      /\ encodeUint16(Len(s)) \in Seq(Byte) /\ Len(encodeUint16(Len(s))) = 2
  BY StringBytes, Uint16Bytes
<1>2. Sits(encodeUint16(Len(s)), b, i) /\ Sits(s, b, i + 2)
  BY <1>1, SitsTwo DEF encodeString
<1>3. decodeUint16(b, i) = Len(s)
  BY <1>1, <1>2, Uint16At
<1>4. ASSUME NEW j \in 1 .. Len(s) PROVE decodeByte(b, i + 1 + j) = s[j]
  <2>1. i + 2 + j - 1 \in 1 .. Len(b) /\ b[i + 2 + j - 1] = s[j]
    BY <1>2 DEF Sits
  <2>2. i + 2 + j - 1 = i + 1 + j
    OBVIOUS
  <2> QED BY <2>1, <2>2 DEF decodeByte
<1>5. decodeString(b, i) = [j \in 1 .. Len(s) |-> s[j]]
  BY <1>3, <1>4 DEF decodeString
<1>6. s = [j \in 1 .. Len(s) |-> s[j]]
  BY <1>1
<1>7. After(b, i) = i + 2 + Len(s)
  BY <1>3 DEF After
<1> QED BY <1>1, <1>5, <1>6, <1>7 DEF Uint16

\* What follows the bytes that sit at the front is the rest.
LEMMA RestAt ==
  ASSUME NEW s \in Seq(Byte), NEW t \in Seq(Byte)
  PROVE  SubSeq(s \o t, Len(s) + 1, Len(s \o t)) = t
OBVIOUS

\* Reading past the end of nothing gives zeros.
LEMMA NothingThere ==
  ASSUME NEW i \in Nat
  PROVE  /\ decodeByte(<<>>, i) = 0 /\ decodeUint16(<<>>, i) = 0
         /\ decodeString(<<>>, i) = <<>>
<1>1. \A j \in Nat : decodeByte(<<>>, j) = 0
  BY DEF decodeByte
<1>2. decodeUint16(<<>>, i) = 0
  BY <1>1 DEF decodeUint16
<1> QED BY <1>1, <1>2 DEF decodeString

-----------------------------------------------------------------------------
(* The length.                                                             *)

\* f is what encodeLength computes, for every length.
IsDigits(f) ==
  f = [n \in Nat |-> IF n < 128 THEN <<n>> ELSE <<128 + (n % 128)>> \o f[n \div 128]]

\* encodeLength without LET.
LEMMA DigitsAre ==
  \A n \in Nat :
    /\ encodeLength(n) \in Seq(Byte)
    /\ encodeLength(n) = IF n < 128 THEN <<n>>
                         ELSE <<128 + (n % 128)>> \o encodeLength(n \div 128)
<1> DEFINE V == Seq(Byte)
           rank == [n \in Nat |-> n]
           next == [n \in Nat |-> n \div 128]
           B == {n \in Nat : n < 128}
           base == [n \in Nat |-> IF n < 128 THEN <<n>> ELSE <<>>]
           step == [p \in Nat \X V |-> <<128 + (p[1] % 128)>> \o p[2]]
           f == CHOOSE g : IsDigits(g)
<1>1. \A n \in Nat : n \div 128 \in Nat /\ (n >= 128 => n \div 128 < n)
  OBVIOUS
<1>2. Recursive(Nat, rank, next, B)
  BY <1>1 DEF Recursive
<1>3. base \in [Nat -> V]
  <2>1. \A n \in Nat : n < 128 => n \in Byte
    BY DEF Byte
  <2>2. \A n \in Nat : n < 128 => <<n>> \in Seq(Byte)
    BY <2>1
  <2> QED BY <2>2
<1>4. step \in [Nat \X V -> V]
  <2>1. \A n \in Nat : 128 + (n % 128) \in Byte
    BY DEF Byte
  <2>2. ASSUME NEW n \in Nat, NEW s \in V PROVE <<128 + (n % 128)>> \o s \in V
    <3>1. <<128 + (n % 128)>> \in Seq(Byte)
      BY <2>1
    <3> QED BY <3>1, Joined
  <2> QED BY <2>2
<1>6. \E h \in [Nat -> V] : Solves(h, Nat, next, B, base, step)
  <2> HIDE DEF V, rank, next, B, base, step
  <2> QED BY <1>2, <1>3, <1>4, Recursion
<1>7. PICK h \in [Nat -> V] : Solves(h, Nat, next, B, base, step)
  BY <1>6
<1>8. IsDigits(h)
  <2>1. ASSUME NEW n \in Nat
        PROVE  h[n] = IF n < 128 THEN <<n>> ELSE <<128 + (n % 128)>> \o h[n \div 128]
    <3>1. h[n] = IF n \in B THEN base[n] ELSE step[<<n, h[next[n]]>>]
      BY <1>7 DEF Solves
    <3>2. n \div 128 \in Nat /\ h[n \div 128] \in V
      BY <1>1, <1>7
    <3> QED BY <3>1, <3>2
  <2>2. h = [n \in Nat |-> h[n]]
    OBVIOUS
  <2> HIDE DEF V
  <2> QED BY <2>1, <2>2 DEF IsDigits
<1>9. IsDigits(f)
  BY <1>8, Zenon
<1>10. \A n \in Nat : encodeLength(n) = f[n]
  BY Zenon DEF encodeLength, IsDigits
<1> HIDE DEF f
<1>11. ASSUME NEW n \in Nat
       PROVE  f[n] = IF n < 128 THEN <<n>> ELSE <<128 + (n % 128)>> \o f[n \div 128]
  BY <1>9, Zenon DEF IsDigits
<1> DEFINE T == {n \in Nat : f[n] = h[n]}
<1>12. \A n \in B : n \in T
  <2>1. ASSUME NEW n \in B PROVE f[n] = <<n>> /\ h[n] = <<n>>
    BY <1>8, <1>11, Zenon DEF IsDigits
  <2> QED BY <2>1
<1>13. ASSUME NEW n \in Nat \ B, next[n] \in T PROVE n \in T
  <2>1. f[n] = <<128 + (n % 128)>> \o f[n \div 128]
    BY <1>11, Zenon
  <2>2. h[n] = <<128 + (n % 128)>> \o h[n \div 128]
    BY <1>8, Zenon DEF IsDigits
  <2>3. f[n \div 128] = h[n \div 128]
    BY <1>13
  <2>4. f[n] = h[n]
    BY <2>1, <2>2, <2>3, Zenon
  <2> QED BY <2>4
<1>14. \A n \in Nat : encodeLength(n) = h[n]
  <2>1. Nat \subseteq T
    <3>1. Carried(T, Nat, next, B)
      BY <1>12, <1>13 DEF Carried
    <3> HIDE DEF T, B, next, rank
    <3> QED BY <1>2, <3>1, Reached, Zenon
  <2> QED BY <1>10, <2>1
<1>15. ASSUME NEW n \in Nat
       PROVE  encodeLength(n) = IF n < 128 THEN <<n>>
                                ELSE <<128 + (n % 128)>> \o encodeLength(n \div 128)
  <2>1. encodeLength(n \div 128) = f[n \div 128] /\ encodeLength(n) = f[n]
    BY <1>1, <1>10, Zenon
  <2> QED BY <1>11, <2>1, Zenon
<1>16. ASSUME NEW n \in Nat PROVE encodeLength(n) \in Seq(Byte)
  BY <1>7, <1>14
<1> QED BY <1>15, <1>16

\* f is what decodeLength computes, from every digit on.
IsValue(f, digits) ==
  f = [i \in 1 .. Len(digits) + 1 |->
         IF i > Len(digits) THEN 0 ELSE (digits[i] % 128) + 128 * f[i + 1]]

\* There is one such function at most.
LEMMA ValuesAgree ==
  ASSUME NEW digits \in Seq(Byte), NEW f, IsValue(f, digits),
         NEW h, IsValue(h, digits)
  PROVE  \A i \in 1 .. Len(digits) + 1 : f[i] = h[i]
<1> DEFINE n == Len(digits)
           D == 1 .. n + 1
           rank == [i \in D |-> n + 1 - i]
           next == [i \in D |-> IF i > n THEN i ELSE i + 1]
           B == {i \in D : i > n}
           T == {i \in D : f[i] = h[i]}
<1>1. n \in Nat
  OBVIOUS
<1>2. ASSUME NEW g, IsValue(g, digits), NEW i \in D
      PROVE  g[i] = IF i > n THEN 0 ELSE (digits[i] % 128) + 128 * g[i + 1]
  BY <1>2, Zenon DEF IsValue
<1> HIDE DEF n
<1>3. Recursive(D, rank, next, B)
  BY <1>1 DEF Recursive
<1>5. B \subseteq T
  <2>1. ASSUME NEW i \in B PROVE f[i] = 0 /\ h[i] = 0
    BY <1>2, Zenon
  <2> QED BY <2>1
<1>6. ASSUME NEW i \in D \ B, next[i] \in T PROVE i \in T
  <2>1. f[i] = (digits[i] % 128) + 128 * f[i + 1]
    BY <1>2, Zenon
  <2>2. h[i] = (digits[i] % 128) + 128 * h[i + 1]
    BY <1>2, Zenon
  <2>3. f[i + 1] = h[i + 1]
    BY <1>6
  <2>4. f[i] = h[i]
    BY <2>1, <2>2, <2>3, Zenon
  <2> QED BY <2>4
<1>7. D \subseteq T
  <2>1. Carried(T, D, next, B)
    BY <1>5, <1>6 DEF Carried
  <2> HIDE DEF D, T, B, next, rank
  <2> QED BY <1>3, <2>1, Reached, Zenon
<1> QED BY <1>7, Zenon DEF n

\* There is one, and decodeLength is its value at 1.
LEMMA ValueExists ==
  ASSUME NEW digits \in Seq(Byte)
  PROVE  \E f \in [1 .. Len(digits) + 1 -> Nat] :
           IsValue(f, digits) /\ decodeLength(digits) = f[1]
<1> DEFINE n == Len(digits)
           D == 1 .. n + 1
           rank == [i \in D |-> n + 1 - i]
           next == [i \in D |-> IF i > n THEN i ELSE i + 1]
           B == {i \in D : i > n}
           base == [i \in D |-> 0]
           step == [p \in D \X Nat |->
                      IF p[1] > n THEN 0 ELSE (digits[p[1]] % 128) + 128 * p[2]]
           f == CHOOSE g : IsValue(g, digits)
<1>1. n \in Nat
  OBVIOUS
<1> HIDE DEF n
<1>2. Recursive(D, rank, next, B) /\ base \in [D -> Nat]
  BY <1>1 DEF Recursive
<1>3. step \in [D \X Nat -> Nat]
  <2>1. \A i \in 1 .. n : digits[i] \in Byte
    BY DEF n
  <2>2. \A i \in 1 .. n : digits[i] % 128 \in Nat
    BY <2>1 DEF Byte
  <2>3. ASSUME NEW i \in D, NEW v \in Nat
        PROVE  (IF i > n THEN 0 ELSE (digits[i] % 128) + 128 * v) \in Nat
    BY <1>1, <2>2
  <2> QED BY <2>3
<1>5. PICK h \in [D -> Nat] : Solves(h, D, next, B, base, step)
  <2> HIDE DEF D, rank, next, B, base, step
  <2> QED BY <1>2, <1>3, Recursion
<1>6. ASSUME NEW g PROVE IsValue(g, digits) <=>
        g = [i \in D |-> IF i > n THEN 0 ELSE (digits[i] % 128) + 128 * g[i + 1]]
  BY Zenon DEF IsValue, n
<1>7. IsValue(h, digits)
  <2>1. ASSUME NEW i \in D
        PROVE  h[i] = IF i > n THEN 0 ELSE (digits[i] % 128) + 128 * h[i + 1]
    <3>1. h[i] = IF i \in B THEN base[i] ELSE step[<<i, h[next[i]]>>]
      BY <1>5 DEF Solves
    <3>2. CASE i > n
      BY <3>1, <3>2
    <3>3. CASE ~(i > n)
      <4>1. i + 1 \in D /\ h[i + 1] \in Nat /\ next[i] = i + 1 /\ i \notin B
        BY <1>1, <1>5, <3>3
      <4>2. h[i] = step[<<i, h[i + 1]>>]
        BY <3>1, <4>1
      <4> QED BY <3>3, <4>1, <4>2
    <3> QED BY <3>2, <3>3
  <2>2. h = [i \in D |-> h[i]]
    OBVIOUS
  <2> HIDE DEF D
  <2> QED BY <1>6, <2>1, <2>2
<1>8. IsValue(f, digits)
  BY <1>7, Zenon
<1>9. decodeLength(digits) = f[1]
  BY Zenon DEF decodeLength, IsValue
<1> HIDE DEF f
<1>10. f[1] = h[1]
  <2>1. 1 \in 1 .. Len(digits) + 1
    BY <1>1 DEF n
  <2>2. \A i \in 1 .. Len(digits) + 1 : f[i] = h[i]
    BY <1>7, <1>8, ValuesAgree, Zenon
  <2> QED BY <2>1, <2>2, Zenon
<1>11. h \in [1 .. Len(digits) + 1 -> Nat]
  BY <1>5 DEF n
<1> HIDE DEF D
<1> QED BY <1>7, <1>9, <1>10, <1>11

\* One digit more at the front.
LEMMA ValueCons ==
  ASSUME NEW d \in Byte, NEW rest \in Seq(Byte)
  PROVE  decodeLength(<<d>> \o rest) = (d % 128) + 128 * decodeLength(rest)
<1> DEFINE all == <<d>> \o rest
           n == Len(rest)
<1>1. /\ all \in Seq(Byte) /\ n \in Nat /\ Len(all) = n + 1 /\ all[1] = d
      /\ \A i \in 1 .. n : all[i + 1] = rest[i]
  OBVIOUS
<1>2. PICK f \in [1 .. Len(all) + 1 -> Nat] :
        IsValue(f, all) /\ decodeLength(all) = f[1]
  BY <1>1, ValueExists
<1> DEFINE g == [i \in 1 .. n + 1 |-> f[i + 1]]
<1> HIDE DEF all, n
<1>3. ASSUME NEW i \in 1 .. n + 2
      PROVE  f[i] = IF i > n + 1 THEN 0 ELSE (all[i] % 128) + 128 * f[i + 1]
  <2>1. f = [j \in 1 .. Len(all) + 1 |->
             IF j > Len(all) THEN 0 ELSE (all[j] % 128) + 128 * f[j + 1]]
    BY <1>2 DEF IsValue
  <2>2. i \in 1 .. Len(all) + 1 /\ Len(all) = n + 1
    BY <1>1
  <2> QED BY <2>1, <2>2, Zenon
<1>4. IsValue(g, rest)
  <2>1. ASSUME NEW i \in 1 .. n + 1
        PROVE  f[i + 1] = IF i > n THEN 0 ELSE (rest[i] % 128) + 128 * g[i + 1]
    <3>1. i + 1 \in 1 .. n + 2 /\ (i + 1 > n + 1 <=> i > n)
      BY <1>1
    <3>2. CASE i > n
      BY <1>3, <3>1, <3>2
    <3>3. CASE ~(i > n)
      <4>1. i \in 1 .. n /\ i + 1 \in 1 .. n + 1
        BY <1>1, <3>3
      <4>2. all[i + 1] = rest[i] /\ g[i + 1] = f[(i + 1) + 1]
        BY <1>1, <4>1
      <4>3. f[i + 1] = (all[i + 1] % 128) + 128 * f[(i + 1) + 1]
        BY <1>3, <3>1, <3>3, Zenon
      <4> QED BY <3>3, <4>2, <4>3, Zenon
    <3> QED BY <3>2, <3>3
  <2>2. g = [i \in 1 .. n + 1 |->
             IF i > n THEN 0 ELSE (rest[i] % 128) + 128 * g[i + 1]]
    BY <2>1, Zenon
  <2> HIDE DEF g
  <2> QED BY <2>2, Zenon DEF IsValue, n
<1>5. decodeLength(rest) = g[1]
  <2>1. PICK h \in [1 .. Len(rest) + 1 -> Nat] :
          IsValue(h, rest) /\ decodeLength(rest) = h[1]
    BY ValueExists
  <2>2. 1 \in 1 .. Len(rest) + 1
    BY <1>1 DEF n
  <2>3. h[1] = g[1]
    <3> HIDE DEF g
    <3>1. \A i \in 1 .. Len(rest) + 1 : h[i] = g[i]
      BY <1>4, <2>1, ValuesAgree, Zenon
    <3> QED BY <2>2, <3>1, Zenon
  <2> QED BY <2>1, <2>3
<1>6. f[1] = (all[1] % 128) + 128 * f[2]
  <2>1. 1 \in 1 .. n + 2 /\ ~(1 > n + 1)
    BY <1>1
  <2>2. f[1] = (all[1] % 128) + 128 * f[1 + 1]
    BY <1>3, <2>1, Zenon
  <2> QED BY <2>2
<1>7. g[1] = f[2]
  BY <1>1
<1> QED BY <1>1, <1>2, <1>5, <1>6, <1>7 DEF all

\* No digit at all is worth nothing.
LEMMA ValueNone == decodeLength(<<>>) = 0
<1>1. <<>> \in Seq(Byte) /\ Len(<<>>) = 0
  OBVIOUS
<1>2. PICK f \in [1 .. Len(<<>>) + 1 -> Nat] :
        IsValue(f, <<>>) /\ decodeLength(<<>>) = f[1]
  BY <1>1, ValueExists
<1>3. f[1] = IF 1 > 0 THEN 0 ELSE (<<>>[1] % 128) + 128 * f[2]
  BY <1>1, <1>2 DEF IsValue
<1> QED BY <1>2, <1>3

\* What a length looks like: the last digit is below 128, the others are not,
\* two digits are of 128 at least, and it is read as it was.
LEMMA LengthAgrees ==
  ASSUME NEW n \in Nat
  PROVE  LET d == encodeLength(n) IN
           /\ d \in Seq(Byte) /\ d # <<>> /\ d[Len(d)] < 128
           /\ \A i \in 1 .. Len(d) - 1 : d[i] >= 128
           /\ Len(d) > 1 => n >= 128
           /\ decodeLength(d) = n
<1> DEFINE Good(d, m) ==
             /\ d \in Seq(Byte) /\ d # <<>> /\ d[Len(d)] < 128
             /\ \A i \in 1 .. Len(d) - 1 : d[i] >= 128
             /\ Len(d) > 1 => m >= 128
             /\ decodeLength(d) = m
           T == {m \in Nat : Good(encodeLength(m), m)}
           rank == [m \in Nat |-> m]
           next == [m \in Nat |-> m \div 128]
           B == {m \in Nat : m < 128}
<1>1. Recursive(Nat, rank, next, B)
  <2>1. \A m \in Nat : m \div 128 \in Nat /\ (m >= 128 => m \div 128 < m)
    OBVIOUS
  <2> QED BY <2>1 DEF Recursive
<1>3. ASSUME NEW m \in B PROVE m \in T
  <2>1. m \in Byte /\ m % 128 = m
    BY DEF Byte
  <2>2. encodeLength(m) = <<m>>
    BY DigitsAre
  <2>3. <<m>> \o <<>> = <<m>> /\ <<>> \in Seq(Byte)
    BY <2>1
  <2>4. decodeLength(<<m>>) = m
    <3>1. decodeLength(<<m>> \o <<>>) = (m % 128) + 128 * 0
      BY <2>1, <2>3, ValueCons, ValueNone, Zenon
    <3> QED BY <2>1, <2>3, <3>1
  <2>5. Good(<<m>>, m)
    BY <2>1, <2>4
  <2> QED BY <2>2, <2>5
<1>4. ASSUME NEW m \in Nat \ B, next[m] \in T PROVE m \in T
  <2> DEFINE d == 128 + (m % 128)
             q == m \div 128
             rest == encodeLength(q)
  <2>1. /\ d \in Byte /\ d >= 128 /\ q \in Nat
        /\ (d % 128) + 128 * q = m /\ m >= 128
    BY DEF Byte
  <2>2. encodeLength(m) = <<d>> \o rest
    BY DigitsAre
  <2>3. Good(rest, q)
    BY <1>4
  <2> HIDE DEF d, q, rest
  <2>4. decodeLength(<<d>> \o rest) = m
    BY <2>1, <2>3, ValueCons
  <2>5. /\ <<d>> \o rest \in Seq(Byte) /\ Len(<<d>> \o rest) = Len(rest) + 1
        /\ Len(rest) \in Nat /\ Len(rest) > 0
        /\ (<<d>> \o rest)[1] = d
        /\ \A i \in 1 .. Len(rest) : (<<d>> \o rest)[i + 1] = rest[i]
    BY <2>1, <2>3
  <2>6. ASSUME NEW i \in 1 .. Len(rest) PROVE (<<d>> \o rest)[i] >= 128
    <3>1. CASE i = 1
      BY <2>1, <2>5, <3>1
    <3>2. CASE i # 1
      <4>1. i - 1 \in 1 .. Len(rest) - 1 /\ (i - 1) + 1 = i /\ i - 1 \in 1 .. Len(rest)
        BY <2>5, <3>2
      <4>2. (<<d>> \o rest)[(i - 1) + 1] = rest[i - 1]
        BY <2>5, <4>1
      <4> QED BY <2>3, <4>1, <4>2
    <3> QED BY <3>1, <3>2
  <2>7. Good(<<d>> \o rest, m)
    BY <2>1, <2>3, <2>4, <2>5, <2>6
  <2> QED BY <2>2, <2>7
<1>5. Nat \subseteq T
  <2>1. Carried(T, Nat, next, B)
    BY <1>3, <1>4 DEF Carried
  <2> HIDE DEF T, B, next, rank
  <2> QED BY <1>1, <2>1, Reached, Zenon
<1> QED BY <1>5

-----------------------------------------------------------------------------
(* The fixed header.                                                       *)

\* The place of a name in PacketNames.
LEMMA PlaceOfName ==
  ASSUME NEW i \in 1 .. 14, NEW name, name = PacketNames[i]
  PROVE  (CHOOSE j \in DOMAIN PacketNames : PacketNames[j] = name) = i
<1>1. DOMAIN PacketNames = 1 .. 14
  BY DEF PacketNames
<1>2. ASSUME NEW j \in 1 .. 14, PacketNames[j] = PacketNames[i] PROVE j = i
  BY <1>2 DEF PacketNames
<1> DEFINE k == CHOOSE j \in DOMAIN PacketNames : PacketNames[j] = name
<1>3. k \in 1 .. 14 /\ PacketNames[k] = PacketNames[i]
  BY <1>1
<1> HIDE DEF k
<1>4. k = i
  BY <1>2, <1>3
<1> QED BY <1>4 DEF k

\* The bits of a byte that is put together of four numbers.
LEMMA Bits ==
  ASSUME NEW i \in Nat, NEW d \in {0, 1}, NEW q \in 0 .. 3, NEW r \in {0, 1},
         NEW byte, byte = 16 * i + 8 * d + 2 * q + r
  PROVE  /\ byte \div 16 = i /\ (byte \div 2) % 4 = q
         /\ (byte \div 8) % 2 = d /\ byte % 2 = r
<1>1. /\ i \in Nat /\ d \in Nat /\ d <= 1 /\ q \in Nat /\ q <= 3 /\ r \in Nat /\ r <= 1
  OBVIOUS
<1>2. byte \div 16 = i /\ byte \div 8 = 2 * i + d /\ byte \div 2 = 8 * i + 4 * d + q
  BY <1>1
<1>3. (2 * i + d) % 2 = d /\ (8 * i + 4 * d + q) % 4 = q /\ byte % 2 = r
  BY <1>1
<1> QED BY <1>2, <1>3

\* The powers of two that Bit divides by.
LEMMA Powers ==
  /\ 2 ^ 0 = 1 /\ 2 ^ 1 = 2 /\ 2 ^ 2 = 4 /\ 2 ^ 3 = 8
  /\ 2 ^ 5 = 32 /\ 2 ^ 6 = 64 /\ 2 ^ 7 = 128
OBVIOUS

\* The first byte of a packet is read as it was.
LEMMA HeaderAgrees ==
  ASSUME NEW h \in FixedHeader
  PROVE  typeAndFlags(h) \in Byte /\ unpack(typeAndFlags(h)) = h
<1> DEFINE d == boolToByte(h.dup)
           r == boolToByte(h.retain)
           q == h.qos
<1>1. /\ h = [type |-> h.type, dup |-> h.dup, qos |-> h.qos, retain |-> h.retain]
      /\ h.dup \in BOOLEAN /\ h.retain \in BOOLEAN /\ h.qos \in 0 .. 3
      /\ h.type \in {PacketNames[i] : i \in DOMAIN PacketNames}
  BY DEF FixedHeader
<1>2. PICK i \in 1 .. 14 : h.type = PacketNames[i]
  BY <1>1 DEF PacketNames
<1>3. typeAndFlags(h) = 16 * i + 8 * d + 2 * q + r
  <2>1. (CHOOSE j \in DOMAIN PacketNames : PacketNames[j] = h.type) = i
    BY <1>2, PlaceOfName, Zenon
  <2> QED BY <2>1, Zenon DEF typeAndFlags
<1>4. /\ d \in {0, 1} /\ (d = 1 <=> h.dup) /\ r \in {0, 1} /\ (r = 1 <=> h.retain)
      /\ q \in 0 .. 3 /\ i \in Nat /\ i <= 14
  BY <1>1 DEF boolToByte
<1> DEFINE byte == typeAndFlags(h)
<1>5. /\ byte \div 16 = i /\ (byte \div 2) % 4 = q
      /\ (byte \div 8) % 2 = d /\ byte % 2 = r
  <2> HIDE DEF d, q, r, byte
  <2>1. byte = 16 * i + 8 * d + 2 * q + r
    BY <1>3 DEF byte
  <2>2. d \in {0, 1} /\ q \in 0 .. 3 /\ r \in {0, 1} /\ i \in Nat
    BY <1>4
  <2> QED BY <2>1, <2>2, Bits
<1>6. byte \in Nat /\ byte < 256
  <2> HIDE DEF d, q, r
  <2> QED BY <1>3, <1>4
<1>7. byte \div 1 = byte
  <2> HIDE DEF byte
  <2> QED BY <1>6
<1>8. Bit(byte, 3) = h.dup /\ Bit(byte, 0) = h.retain
  <2> HIDE DEF byte, d, r
  <2>1. Bit(byte, 3) <=> d = 1
    BY <1>5, Powers DEF Bit
  <2>2. Bit(byte, 0) <=> r = 1
    BY <1>5, <1>7, Powers DEF Bit
  <2> QED BY <1>1, <1>4, <2>1, <2>2 DEF Bit
<1>9. unpack(byte) = Header(h.type, h.dup, h.qos, h.retain)
  <2> HIDE DEF byte
  <2> QED BY <1>2, <1>5, <1>8 DEF unpack
<1> QED BY <1>1, <1>6, <1>9 DEF Header, Byte

-----------------------------------------------------------------------------
(* What is put together of several pieces.                                 *)

\* f is what FlattenSeq computes, after each piece.
IsFlat(f, seqs) ==
  f = [i \in 1 .. Len(seqs) |-> IF i = 1 THEN seqs[i] ELSE f[i - 1] \o seqs[i]]

\* There is one such function at most.
LEMMA FlatsAgree ==
  ASSUME NEW seqs, Len(seqs) \in Nat, NEW f, IsFlat(f, seqs), NEW h, IsFlat(h, seqs)
  PROVE  \A i \in 1 .. Len(seqs) : f[i] = h[i]
<1> DEFINE n == Len(seqs)
           D == 1 .. n
           rank == [i \in D |-> i]
           next == [i \in D |-> IF i = 1 THEN 1 ELSE i - 1]
           B == {i \in D : i = 1}
           T == {i \in D : f[i] = h[i]}
<1>1. ASSUME NEW g, IsFlat(g, seqs), NEW i \in D
      PROVE  g[i] = IF i = 1 THEN seqs[i] ELSE g[i - 1] \o seqs[i]
  BY <1>1, Zenon DEF IsFlat
<1> HIDE DEF n
<1>2. Recursive(D, rank, next, B)
  BY DEF Recursive, n
<1>3. B \subseteq T
  <2>1. ASSUME NEW i \in B PROVE f[i] = seqs[i] /\ h[i] = seqs[i]
    BY <1>1, Zenon
  <2> QED BY <2>1
<1>4. ASSUME NEW i \in D \ B, next[i] \in T PROVE i \in T
  <2>1. f[i] = f[i - 1] \o seqs[i]
    BY <1>1, Zenon
  <2>2. h[i] = h[i - 1] \o seqs[i]
    BY <1>1, Zenon
  <2>3. f[i - 1] = h[i - 1]
    BY <1>4
  <2>4. f[i] = h[i]
    BY <2>1, <2>2, <2>3, Zenon
  <2> QED BY <2>4
<1>5. D \subseteq T
  <2>1. Carried(T, D, next, B)
    BY <1>3, <1>4 DEF Carried
  <2> HIDE DEF D, T, B, next, rank
  <2> QED BY <1>2, <2>1, Reached, Zenon
<1> QED BY <1>5, Zenon DEF n

\* There is one, and FlattenSeq is its last value.
LEMMA FlatExists ==
  ASSUME NEW seqs \in Seq(Seq(Byte)), seqs # <<>>
  PROVE  \E f \in [1 .. Len(seqs) -> Seq(Byte)] :
           IsFlat(f, seqs) /\ FlattenSeq(seqs) = f[Len(seqs)]
<1> DEFINE V == Seq(Byte)
           n == Len(seqs)
           D == 1 .. n
           rank == [i \in D |-> i]
           next == [i \in D |-> IF i = 1 THEN 1 ELSE i - 1]
           B == {i \in D : i = 1}
           step == [p \in D \X V |-> p[2] \o seqs[p[1]]]
           f == CHOOSE g : IsFlat(g, seqs)
<1>1. n \in Nat /\ n # 0 /\ n \in D /\ seqs \in [D -> V]
  OBVIOUS
<1>2. Recursive(D, rank, next, B)
  BY <1>1 DEF Recursive
<1>3. step \in [D \X V -> V]
  <2>1. ASSUME NEW i \in D, NEW s \in V PROVE s \o seqs[i] \in V
    BY <1>1, Joined
  <2> QED BY <2>1
<1>4. PICK h \in [D -> V] : Solves(h, D, next, B, seqs, step)
  <2> HIDE DEF D, V, rank, next, B, step
  <2> QED BY <1>1, <1>2, <1>3, Recursion
<1>5. ASSUME NEW g PROVE IsFlat(g, seqs) <=>
        g = [i \in D |-> IF i = 1 THEN seqs[i] ELSE g[i - 1] \o seqs[i]]
  BY Zenon DEF IsFlat
<1>6. IsFlat(h, seqs)
  <2>1. ASSUME NEW i \in D
        PROVE  h[i] = IF i = 1 THEN seqs[i] ELSE h[i - 1] \o seqs[i]
    <3>1. h[i] = IF i \in B THEN seqs[i] ELSE step[<<i, h[next[i]]>>]
      BY <1>4 DEF Solves
    <3>2. CASE i = 1
      BY <3>1, <3>2
    <3>3. CASE i # 1
      <4>0. i - 1 \in D /\ next[i] = i - 1 /\ i \notin B
        BY <1>1, <3>3
      <4>1. i - 1 \in D /\ h[i - 1] \in V /\ next[i] = i - 1 /\ i \notin B
        BY <1>4, <4>0, Zenon
      <4>2. h[i] = step[<<i, h[i - 1]>>]
        BY <3>1, <4>1
      <4>3. <<i, h[i - 1]>> \in D \X V
        BY <4>1
      <4>4. step[<<i, h[i - 1]>>] = h[i - 1] \o seqs[i]
        BY <4>3
      <4> QED BY <3>3, <4>2, <4>4, Zenon
    <3> QED BY <3>2, <3>3
  <2>2. h = [i \in D |-> h[i]]
    OBVIOUS
  <2>3. [i \in D |-> h[i]]
          = [i \in D |-> IF i = 1 THEN seqs[i] ELSE h[i - 1] \o seqs[i]]
    BY <2>1, Zenon
  <2> HIDE DEF D
  <2> QED BY <1>5, <2>2, <2>3, Zenon
<1>7. IsFlat(f, seqs)
  BY <1>6, Zenon
<1>8. FlattenSeq(seqs) = f[n]
  BY <1>1, Zenon DEF FlattenSeq, IsFlat
<1> HIDE DEF f
<1>9. f[n] = h[n]
  <2>1. \A i \in D : f[i] = h[i]
    BY <1>1, <1>6, <1>7, FlatsAgree, Zenon
  <2> QED BY <1>1, <2>1, Zenon
<1>10. h \in [1 .. Len(seqs) -> Seq(Byte)]
  BY <1>4
<1> QED BY <1>6, <1>8, <1>9, <1>10

\* It does not matter which pieces are put together first.
LEMMA Grouped ==
  ASSUME NEW s \in Seq(Byte), NEW t \in Seq(Byte), NEW u \in Seq(Byte)
  PROVE  (s \o t) \o u = s \o (t \o u)
OBVIOUS

\* The first n of the pieces e, put together.
First(e, n) == FlattenSeq([i \in 1 .. n |-> e[i]])

\* Nothing put together is nothing.
LEMMA FirstNone == ASSUME NEW e PROVE First(e, 0) = <<>>
<1>1. [i \in 1 .. 0 |-> e[i]] = <<>>
  OBVIOUS
<1> QED BY <1>1 DEF First, FlattenSeq

\* One piece more at the end.
LEMMA FirstMore ==
  ASSUME NEW n \in Nat, NEW e, \A i \in 1 .. n + 1 : e[i] \in Seq(Byte)
  PROVE  /\ First(e, n) \in Seq(Byte) /\ First(e, n + 1) \in Seq(Byte)
         /\ First(e, n + 1) = First(e, n) \o e[n + 1]
<1> DEFINE s == [i \in 1 .. n |-> e[i]]
           t == [i \in 1 .. n + 1 |-> e[i]]
<1>1. /\ s \in Seq(Seq(Byte)) /\ t \in Seq(Seq(Byte)) /\ Len(s) = n /\ Len(t) = n + 1
      /\ t # <<>> /\ t[n + 1] = e[n + 1]
  OBVIOUS
<1>2. PICK f \in [1 .. Len(t) -> Seq(Byte)] :
        IsFlat(f, t) /\ FlattenSeq(t) = f[Len(t)]
  BY <1>1, FlatExists
<1>3. ASSUME NEW i \in 1 .. n + 1
      PROVE  f[i] = IF i = 1 THEN e[i] ELSE f[i - 1] \o e[i]
  <2>1. f = [j \in 1 .. Len(t) |-> IF j = 1 THEN t[j] ELSE f[j - 1] \o t[j]]
    BY <1>2 DEF IsFlat
  <2>2. i \in 1 .. Len(t) /\ t[i] = e[i]
    BY <1>1
  <2> QED BY <2>1, <2>2, Zenon
<1>4. First(e, n + 1) = f[n + 1] /\ f[n + 1] \in Seq(Byte)
  BY <1>1, <1>2 DEF First
<1>5. CASE n = 0
  <2>1. First(e, n) = <<>>
    BY <1>5, FirstNone
  <2>2. f[n + 1] = e[n + 1]
    BY <1>3, <1>5
  <2>3. e[n + 1] \in Seq(Byte) /\ <<>> \o e[n + 1] = e[n + 1] /\ <<>> \in Seq(Byte)
    OBVIOUS
  <2> QED BY <1>4, <2>1, <2>2, <2>3
<1>6. CASE n # 0
  <2> HIDE DEF s, t
  <2>1. s # <<>>
    BY <1>1, <1>6
  <2>2. PICK g \in [1 .. Len(s) -> Seq(Byte)] :
          IsFlat(g, s) /\ FlattenSeq(s) = g[Len(s)]
    BY <1>1, <2>1, FlatExists
  <2> DEFINE h == [i \in 1 .. n |-> f[i]]
  <2>3. IsFlat(h, s)
    <3>1. ASSUME NEW i \in 1 .. n
          PROVE  f[i] = IF i = 1 THEN s[i] ELSE h[i - 1] \o s[i]
      <4>1. i \in 1 .. n + 1 /\ s[i] = e[i]
        BY DEF s
      <4>2. CASE i = 1
        BY <1>3, <4>1, <4>2
      <4>3. CASE i # 1
        <5>1. h[i - 1] = f[i - 1]
          BY <4>3
        <5>2. f[i] = f[i - 1] \o e[i]
          BY <1>3, <4>1, <4>3, Zenon
        <5> QED BY <4>1, <4>3, <5>1, <5>2, Zenon
      <4> QED BY <4>2, <4>3
    <3>2. h = [i \in 1 .. n |-> IF i = 1 THEN s[i] ELSE h[i - 1] \o s[i]]
      BY <3>1, Zenon
    <3> HIDE DEF h
    <3> QED BY <1>1, <3>2, Zenon DEF IsFlat
  <2>4. g[n] = f[n]
    <3>1. n \in 1 .. n /\ h[n] = f[n]
      BY <1>6
    <3>2. \A i \in 1 .. Len(s) : g[i] = h[i]
      <4> HIDE DEF h
      <4>1. Len(s) \in Nat
        BY <1>1
      <4> QED BY <2>2, <2>3, <4>1, FlatsAgree, Zenon
    <3> QED BY <1>1, <3>1, <3>2
  <2>5. First(e, n) = f[n]
    BY <1>1, <2>2, <2>4 DEF First, s
  <2>6. n \in 1 .. Len(t) /\ f[n] \in Seq(Byte)
    BY <1>1, <1>2, <1>6
  <2>7. f[n + 1] = f[n] \o e[n + 1]
    <3>1. n + 1 \in 1 .. n + 1 /\ n + 1 # 1 /\ (n + 1) - 1 = n
      BY <1>6
    <3> QED BY <1>3, <3>1
  <2> QED BY <1>4, <2>5, <2>6, <2>7
<1> QED BY <1>5, <1>6

\* What is there after more pieces begins with what was there before.
LEMMA FirstGrows ==
  ASSUME NEW n \in Nat, NEW e, \A i \in 1 .. n : e[i] \in Seq(Byte), NEW k \in 0 .. n
  PROVE  /\ First(e, k) \in Seq(Byte) /\ First(e, n) \in Seq(Byte)
         /\ \E rest \in Seq(Byte) : First(e, n) = First(e, k) \o rest
<1> DEFINE D == k .. n
           rank == [m \in D |-> m - k]
           next == [m \in D |-> IF m = k THEN k ELSE m - 1]
           B == {m \in D : m = k}
           T == {m \in D : /\ First(e, m) \in Seq(Byte)
                           /\ \E rest \in Seq(Byte) : First(e, m) = First(e, k) \o rest}
<1>1. First(e, k) \in Seq(Byte)
  <2>1. CASE k = 0
    <3>1. First(e, 0) = <<>> /\ <<>> \in Seq(Byte)
      BY FirstNone
    <3> QED BY <2>1, <3>1, Zenon
  <2>2. CASE k # 0
    <3>1. k - 1 \in Nat /\ (k - 1) + 1 = k /\ \A i \in 1 .. (k - 1) + 1 : e[i] \in Seq(Byte)
      BY <2>2
    <3> QED BY <3>1, FirstMore
  <2> QED BY <2>1, <2>2
<1>2. B \subseteq T
  <2>1. First(e, k) = First(e, k) \o <<>> /\ <<>> \in Seq(Byte)
    BY <1>1
  <2> QED BY <1>1, <2>1
<1>3. ASSUME NEW m \in D \ B, next[m] \in T PROVE m \in T
  <2>1. /\ m - 1 \in Nat /\ (m - 1) + 1 = m /\ m \in 1 .. n /\ next[m] = m - 1
        /\ \A i \in 1 .. (m - 1) + 1 : e[i] \in Seq(Byte)
    BY <1>3
  <2>2. PICK rest \in Seq(Byte) : First(e, m - 1) = First(e, k) \o rest
    BY <1>3, <2>1
  <2>3. First(e, m) = First(e, m - 1) \o e[m] /\ First(e, m) \in Seq(Byte)
    BY <2>1, FirstMore
  <2>4. /\ rest \o e[m] \in Seq(Byte)
        /\ (First(e, k) \o rest) \o e[m] = First(e, k) \o (rest \o e[m])
    <3>1. e[m] \in Seq(Byte)
      BY <2>1
    <3> QED BY <1>1, <3>1, Joined, Grouped, Zenon
  <2>5. First(e, m) = First(e, k) \o (rest \o e[m])
    BY <2>2, <2>3, <2>4
  <2> QED BY <2>3, <2>4, <2>5
<1>4. D \subseteq T
  <2>1. Recursive(D, rank, next, B)
    BY DEF Recursive
  <2>2. Carried(T, D, next, B)
    BY <1>2, <1>3 DEF Carried
  <2> HIDE DEF D, T, B, next, rank
  <2> QED BY <2>1, <2>2, Reached, Zenon
<1>5. n \in D
  OBVIOUS
<1> QED BY <1>1, <1>4, <1>5

\* Each piece sits behind those before it.
LEMMA PieceSits ==
  ASSUME NEW n \in Nat, NEW e, \A i \in 1 .. n : e[i] \in Seq(Byte),
         NEW k \in 0 .. n - 1
  PROVE  /\ First(e, k) \in Seq(Byte) /\ First(e, n) \in Seq(Byte)
         /\ Len(First(e, k + 1)) = Len(First(e, k)) + Len(e[k + 1])
         /\ Len(First(e, k + 1)) <= Len(First(e, n))
         /\ Sits(e[k + 1], First(e, n), Len(First(e, k)) + 1)
<1>1. k \in Nat /\ k + 1 \in 0 .. n /\ \A i \in 1 .. k + 1 : e[i] \in Seq(Byte)
  OBVIOUS
<1>2. /\ First(e, k) \in Seq(Byte) /\ e[k + 1] \in Seq(Byte)
      /\ First(e, k + 1) = First(e, k) \o e[k + 1]
  BY <1>1, FirstMore
<1>3. First(e, n) \in Seq(Byte)
  BY <1>1, FirstGrows
<1>4. PICK rest \in Seq(Byte) : First(e, n) = First(e, k + 1) \o rest
  BY <1>1, FirstGrows
<1> DEFINE s == First(e, k)  t == e[k + 1]
<1> HIDE DEF s, t
<1>5. s \in Seq(Byte) /\ t \in Seq(Byte) /\ First(e, n) = (s \o t) \o rest
  BY <1>2, <1>4 DEF s, t
<1>6. /\ Len(s \o t) = Len(s) + Len(t) /\ Len((s \o t) \o rest) >= Len(s) + Len(t)
      /\ Len(s) \in Nat /\ Len(t) \in Nat
  BY <1>5
<1>7. ASSUME NEW j \in 1 .. Len(t)
      PROVE  /\ Len(s) + 1 + j - 1 \in 1 .. Len((s \o t) \o rest)
             /\ ((s \o t) \o rest)[Len(s) + 1 + j - 1] = t[j]
  <2>1. Len(s) + 1 + j - 1 = Len(s) + j /\ Len(s) + j \in 1 .. Len(s \o t)
    BY <1>6
  <2>2. (s \o t)[Len(s) + j] = t[j]
    BY <1>5, <1>6
  <2>3. ((s \o t) \o rest)[Len(s) + j] = (s \o t)[Len(s) + j]
    BY <1>5, <2>1
  <2> QED BY <1>6, <2>1, <2>2, <2>3
<1>8. Sits(t, (s \o t) \o rest, Len(s) + 1)
  BY <1>7 DEF Sits
<1>9. Len(First(e, n)) >= Len(s) + Len(t)
  BY <1>5, <1>6
<1> QED BY <1>2, <1>3, <1>5, <1>6, <1>8, <1>9 DEF s, t

-----------------------------------------------------------------------------
(* Bodies of a fixed layout.                                               *)

\* A body that is an identifier.
LEMMA IdAgrees ==
  ASSUME NEW n \in Uint16
  PROVE  encodeUint16(n) \in Seq(Byte) /\ decodeUint16(encodeUint16(n), 1) = n
BY Uint16Bytes, SitsWhole, Uint16At

\* CONNACK: two bytes.
LEMMA ConnackAgrees ==
  ASSUME NEW p \in ConnackPacket
  PROVE  WriteConnack(p) \in Seq(Byte) /\ UnpackConnack(WriteConnack(p)) = p
<1>1. /\ p = [topicNameCompression |-> p.topicNameCompression,
              returnCode |-> p.returnCode]
      /\ p.topicNameCompression \in Byte /\ p.returnCode \in Byte
  BY DEF ConnackPacket
<1> QED BY <1>1 DEF WriteConnack, UnpackConnack, decodeByte

\* SUBACK: an identifier and one byte for each subscription.
LEMMA SubackAgrees ==
  ASSUME NEW p \in SubackPacket
  PROVE  WriteSuback(p) \in Seq(Byte) /\ UnpackSuback(WriteSuback(p)) = p
<1>1. /\ p = [messageID |-> p.messageID, grantedQoss |-> p.grantedQoss]
      /\ p.messageID \in Uint16 /\ p.grantedQoss \in Seq(Byte)
  BY DEF SubackPacket
<1> DEFINE i == encodeUint16(p.messageID)  g == p.grantedQoss  b == i \o g
<1>2. i \in Seq(Byte) /\ Len(i) = 2
  BY <1>1, Uint16Bytes
<1>3. g \in Seq(Byte)
  BY <1>1
<1>4. b \in Seq(Byte)
  <2> HIDE DEF i, g
  <2> QED BY <1>2, <1>3, Joined
<1>5. Sits(i, b, 1) /\ SubSeq(b, 3, Len(b)) = g
  <2>1. Sits(i \o g, b, 1)
    BY <1>4, SitsWhole, Zenon
  <2> HIDE DEF i, g
  <2>2. SubSeq(b, Len(i) + 1, Len(b)) = g
    BY <1>2, <1>3, RestAt
  <2>3. Len(i) + 1 = 3
    BY <1>2
  <2> HIDE DEF b
  <2> QED BY <1>2, <1>3, <1>4, <2>1, <2>2, <2>3, SitsTwo
<1>6. decodeUint16(b, 1) = p.messageID
  <2> HIDE DEF b
  <2> QED BY <1>1, <1>4, <1>5, Uint16At
<1>7. WriteSuback(p) = b
  BY DEF WriteSuback
<1> HIDE DEF b
<1> QED BY <1>1, <1>4, <1>5, <1>6, <1>7 DEF UnpackSuback

\* PUBLISH: the topic, an identifier if there is a QoS, and the payload, which
\* begins within the body.
LEMMA PublishAgrees ==
  ASSUME NEW h \in FixedHeader, NEW p \in PublishPacket(h.qos)
  PROVE  LET b == WritePublish(h, p) IN
           /\ b \in Seq(Byte) /\ UnpackPublish(h, b) = p
           /\ PayloadAt(h, b) <= Len(b) + 1
<1>1. /\ p = [topicName |-> p.topicName, messageID |-> p.messageID,
              payload |-> p.payload]
      /\ p.topicName \in Text /\ p.payload \in Seq(Byte)
      /\ p.messageID \in IF h.qos > 0 THEN Uint16 ELSE {0}
  BY DEF PublishPacket
<1>2. h.qos > 0 \/ ~(h.qos > 0)
  OBVIOUS
<1> DEFINE t == encodeString(p.topicName)
           w == When(h.qos > 0, encodeUint16(p.messageID))
           b == WritePublish(h, p)
<1>3. t \in Seq(Byte)
  BY <1>1, StringBytes
<1>4. w \in Seq(Byte) /\ Len(w) = IF h.qos > 0 THEN 2 ELSE 0
  <2>1. CASE h.qos > 0
    <3>1. w = encodeUint16(p.messageID) /\ p.messageID \in Uint16
      BY <1>1, <2>1 DEF When
    <3> HIDE DEF w
    <3> QED BY <2>1, <3>1, Uint16Bytes
  <2>2. CASE ~(h.qos > 0)
    BY <2>2 DEF When
  <2> QED BY <2>1, <2>2
<1>5. b = (t \o w) \o p.payload
  BY DEF WritePublish
<1> HIDE DEF t, w, b
<1>6. t \o w \in Seq(Byte) /\ Len(t \o w) = Len(t) + Len(w) /\ b \in Seq(Byte)
  BY <1>1, <1>3, <1>4, <1>5, Joined
<1>7. Sits(t, b, 1) /\ Sits(w, b, 1 + Len(t))
  <2>1. Sits((t \o w) \o p.payload, b, 1)
    BY <1>5, <1>6, SitsWhole
  <2>2. Sits(t \o w, b, 1)
    BY <1>1, <1>6, <2>1, SitsTwo
  <2> QED BY <1>3, <1>4, <1>6, <2>2, SitsTwo
<1>8. decodeString(b, 1) = p.topicName /\ After(b, 1) = 1 + Len(t)
  BY <1>1, <1>6, <1>7, StringAt DEF t
<1>9. (IF h.qos > 0 THEN decodeUint16(b, After(b, 1)) ELSE 0) = p.messageID
  <2>1. CASE h.qos > 0
    <3>1. w = encodeUint16(p.messageID) /\ p.messageID \in Uint16
      BY <1>1, <2>1 DEF w, When
    <3>2. 1 + Len(t) \in Nat
      BY <1>3
    <3> QED BY <1>6, <1>7, <1>8, <2>1, <3>1, <3>2, Uint16At
  <2>2. CASE ~(h.qos > 0)
    BY <1>1, <2>2
  <2> QED BY <2>1, <2>2
<1>10. PayloadAt(h, b) = Len(t \o w) + 1
  <2>1. Len(t) \in Nat
    BY <1>3
  <2> QED BY <1>4, <1>6, <1>8, <2>1 DEF PayloadAt
<1>11. SubSeq(b, PayloadAt(h, b), Len(b)) = p.payload
  BY <1>1, <1>5, <1>6, <1>10, RestAt
<1>12. PayloadAt(h, b) <= Len(b) + 1
  <2>1. Len(b) = Len(t \o w) + Len(p.payload) /\ Len(p.payload) \in Nat
        /\ Len(t \o w) \in Nat
    BY <1>1, <1>5, <1>6, Joined
  <2>2. \A m, k \in Nat : m + 1 <= (m + k) + 1
    OBVIOUS
  <2> QED BY <1>10, <2>1, <2>2, Zenon
<1>13. UnpackPublish(h, b) = p
  BY <1>1, <1>8, <1>9, <1>11 DEF UnpackPublish
<1> QED BY <1>6, <1>12, <1>13 DEF b

\* What Unpack takes from the flags of a CONNECT is what Write put there.
LEMMA FlagsAgree ==
  ASSUME NEW c \in ConnectPacket
  PROVE  LET o == ConnectFlags(c) IN
           /\ o \in Byte /\ o % 2 = c.reservedBit /\ (o \div 8) % 4 = c.willQos
           /\ Bit(o, 1) = c.cleanSession /\ Bit(o, 2) = c.willFlag
           /\ Bit(o, 5) = c.willRetain /\ Bit(o, 6) = c.passwordFlag
           /\ Bit(o, 7) = c.usernameFlag
<1> DEFINE o == ConnectFlags(c)
           a == boolToByte(c.cleanSession)
           w == boolToByte(c.willFlag)
           r == boolToByte(c.willRetain)
           p == boolToByte(c.passwordFlag)
           u == boolToByte(c.usernameFlag)
           q == c.willQos
<1>1. /\ c.cleanSession \in BOOLEAN /\ c.willFlag \in BOOLEAN
      /\ c.willRetain \in BOOLEAN /\ c.passwordFlag \in BOOLEAN
      /\ c.usernameFlag \in BOOLEAN /\ c.willQos \in 0 .. 3 /\ c.reservedBit = 0
  BY DEF ConnectPacket
<1>2. \A x \in BOOLEAN : /\ boolToByte(x) \in Nat /\ boolToByte(x) <= 1
                         /\ x = (boolToByte(x) = 1)
  BY DEF boolToByte
<1>3. /\ a \in Nat /\ a <= 1 /\ w \in Nat /\ w <= 1 /\ r \in Nat /\ r <= 1
      /\ p \in Nat /\ p <= 1 /\ u \in Nat /\ u <= 1
  BY <1>1, <1>2, Zenon
<1>4. c.willQos \in Nat /\ c.willQos <= 3
  BY <1>1
<1>5. o = 2 * a + 4 * w + 8 * c.willQos + 32 * r + 64 * p + 128 * u
  BY DEF ConnectFlags
<1>6. /\ c.cleanSession = (a = 1) /\ c.willFlag = (w = 1) /\ c.willRetain = (r = 1)
      /\ c.passwordFlag = (p = 1) /\ c.usernameFlag = (u = 1)
  BY <1>1, <1>2, Zenon
<1> HIDE DEF o, a, w, r, p, u, q
<1>7. /\ o \in Byte /\ o % 2 = 0 /\ (o \div 2) % 2 = a
      /\ (o \div 4) % 2 = w /\ (o \div 8) % 4 = c.willQos /\ (o \div 32) % 2 = r
      /\ (o \div 64) % 2 = p /\ (o \div 128) % 2 = u
  <2>0. /\ a \in Nat /\ a <= 1 /\ w \in Nat /\ w <= 1 /\ q \in Nat /\ q <= 3
        /\ r \in Nat /\ r <= 1 /\ p \in Nat /\ p <= 1 /\ u \in Nat /\ u <= 1
        /\ o = 2 * a + 4 * w + 8 * q + 32 * r + 64 * p + 128 * u
    BY <1>3, <1>4, <1>5 DEF q
  <2>1. o \in Nat /\ o < 256 /\ o % 2 = 0
    BY <2>0
  <2>2. /\ o \div 2 = a + 2 * (w + 2 * q + 8 * r + 16 * p + 32 * u)
        /\ o \div 4 = w + 2 * (q + 4 * r + 8 * p + 16 * u)
        /\ o \div 8 = q + 4 * (r + 2 * p + 4 * u)
        /\ o \div 32 = r + 2 * (p + 2 * u)
        /\ o \div 64 = p + 2 * u /\ o \div 128 = u
    BY <2>0
  <2>3. \A x, y \in Nat : /\ x <= 1 => (x + 2 * y) % 2 = x
                          /\ x <= 3 => (x + 4 * y) % 4 = x
    BY <2>0
  <2>4. u % 2 = u
    BY <2>0
  <2>5. /\ w + 2 * q + 8 * r + 16 * p + 32 * u \in Nat
        /\ q + 4 * r + 8 * p + 16 * u \in Nat /\ r + 2 * p + 4 * u \in Nat
        /\ p + 2 * u \in Nat
    BY <2>0
  <2>6. (o \div 2) % 2 = a /\ (o \div 4) % 2 = w
    <3> DEFINE x == w + 2 * q + 8 * r + 16 * p + 32 * u
               y == q + 4 * r + 8 * p + 16 * u
    <3>1. x \in Nat /\ y \in Nat /\ o \div 2 = a + 2 * x /\ o \div 4 = w + 2 * y
      BY <2>2, <2>5
    <3> HIDE DEF x, y
    <3> QED BY <1>3, <1>4, <2>3, <3>1 DEF q
  <2>7. (o \div 8) % 4 = q /\ (o \div 32) % 2 = r
    <3> DEFINE x == r + 2 * p + 4 * u
               y == p + 2 * u
    <3>1. x \in Nat /\ y \in Nat /\ o \div 8 = q + 4 * x /\ o \div 32 = r + 2 * y
      BY <2>2, <2>5
    <3> HIDE DEF x, y
    <3> QED BY <1>3, <1>4, <2>3, <3>1 DEF q
  <2>8. (o \div 64) % 2 = p /\ (o \div 128) % 2 = u
    <3>1. o \div 64 = p + 2 * u /\ o \div 128 = u
      BY <2>2
    <3> QED BY <1>3, <2>3, <2>4, <3>1
  <2> QED BY <2>1, <2>6, <2>7, <2>8 DEF Byte, q
<1>8. /\ Bit(o, 1) = (a = 1) /\ Bit(o, 2) = (w = 1) /\ Bit(o, 5) = (r = 1)
      /\ Bit(o, 6) = (p = 1) /\ Bit(o, 7) = (u = 1)
  BY <1>7, Powers, Zenon DEF Bit
<1> QED BY <1>1, <1>6, <1>7, <1>8, Zenon DEF o

\* CONNECT: name, version, flags, keepalive and identifier, and after them the
\* fields that the flags announce.
LEMMA ConnectAgrees ==
  ASSUME NEW c \in ConnectPacket
  PROVE  WriteConnect(c) \in Seq(Byte) /\ UnpackConnect(WriteConnect(c)) = c
<1>1. /\ c.protocolName \in Text /\ c.protocolVersion \in Byte
      /\ c.keepaliveTimer \in Uint16 /\ c.clientIdentifier \in Text
      /\ c.willTopic \in Text /\ c.willMessage \in Text
      /\ c.username \in Text /\ c.password \in Text
      /\ c.willFlag \in BOOLEAN /\ c.usernameFlag \in BOOLEAN
      /\ c.passwordFlag \in BOOLEAN
  BY DEF ConnectPacket
<1>2. /\ ~c.willFlag => c.willTopic = <<>> /\ c.willMessage = <<>>
      /\ ~c.usernameFlag => c.username = <<>>
      /\ ~c.passwordFlag => c.password = <<>>
  BY DEF ConnectPacket
<1>3. c = [protocolName |-> c.protocolName, protocolVersion |-> c.protocolVersion,
           reservedBit |-> c.reservedBit, cleanSession |-> c.cleanSession,
           willFlag |-> c.willFlag, willQos |-> c.willQos,
           willRetain |-> c.willRetain, passwordFlag |-> c.passwordFlag,
           usernameFlag |-> c.usernameFlag, keepaliveTimer |-> c.keepaliveTimer,
           clientIdentifier |-> c.clientIdentifier, willTopic |-> c.willTopic,
           willMessage |-> c.willMessage, username |-> c.username,
           password |-> c.password]
  BY DEF ConnectPacket
<1> DEFINE n == encodeString(c.protocolName)
           o == ConnectFlags(c)
           v == <<c.protocolVersion, o>>
           k == encodeUint16(c.keepaliveTimer)
           d == encodeString(c.clientIdentifier)
           t == encodeString(c.willTopic)
           m == encodeString(c.willMessage)
           w == When(c.willFlag, t \o m)
           u == When(c.usernameFlag, encodeString(c.username))
           q == When(c.passwordFlag, encodeString(c.password))
           b == WriteConnect(c)
<1>4. /\ n \in Seq(Byte) /\ k \in Seq(Byte) /\ Len(k) = 2 /\ d \in Seq(Byte)
      /\ t \in Seq(Byte) /\ m \in Seq(Byte)
  BY <1>1, StringBytes, Uint16Bytes, Zenon
<1>5. o \in Byte
  BY FlagsAgree
<1>6. v \in Seq(Byte) /\ Len(v) = 2
  <2> HIDE DEF o
  <2> QED BY <1>1, <1>5
<1>7. /\ w \in Seq(Byte) /\ u \in Seq(Byte) /\ q \in Seq(Byte)
      /\ ~c.willFlag => w = <<>>
  <2>1. /\ encodeString(c.username) \in Seq(Byte)
        /\ encodeString(c.password) \in Seq(Byte) /\ <<>> \in Seq(Byte)
    BY <1>1, StringBytes
  <2>2. t \o m \in Seq(Byte)
    <3> HIDE DEF t, m
    <3> QED BY <1>4, Joined
  <2> HIDE DEF t, m
  <2> QED BY <2>1, <2>2, Zenon DEF When
<1>8. b = (((((n \o v) \o k) \o d) \o w) \o u) \o q
  BY DEF WriteConnect
<1> HIDE DEF n, o, v, k, d, t, m, w, u, q, b
<1>9. /\ n \o v \in Seq(Byte) /\ Len(n \o v) = Len(n) + 2 /\ Len(n) \in Nat
  <2>1. n \o v \in Seq(Byte) /\ Len(n \o v) = Len(n) + Len(v) /\ Len(n) \in Nat
    BY <1>4, <1>6, Joined, Zenon
  <2> QED BY <1>6, <2>1, Zenon
<1> DEFINE a == n \o v
<1>10. a \o k \in Seq(Byte) /\ Len(a \o k) = Len(n) + 4
  <2>1. a \in Seq(Byte) /\ Len(a) = Len(n) + 2
    BY <1>9
  <2> HIDE DEF a
  <2>2. a \o k \in Seq(Byte) /\ Len(a \o k) = Len(a) + Len(k)
    BY <1>4, <2>1, Joined, Zenon
  <2> DEFINE x == Len(a \o k)
  <2>3. x = (Len(n) + 2) + 2
    BY <1>4, <2>1, <2>2, Zenon
  <2> HIDE DEF x
  <2>4. x = Len(n) + 4
    BY <1>9, <2>3
  <2> QED BY <2>2, <2>4 DEF x
<1> DEFINE e == a \o k
<1>11. /\ e \o d \in Seq(Byte) /\ Len(e \o d) = Len(n) + 4 + Len(d) /\ Len(d) \in Nat
  <2>1. e \in Seq(Byte) /\ Len(e) = Len(n) + 4
    BY <1>10
  <2> HIDE DEF e
  <2> QED BY <1>4, <1>9, <2>1, Joined
<1> DEFINE f == e \o d
<1>12. /\ f \o w \in Seq(Byte) /\ Len(f \o w) = Len(n) + 4 + Len(d) + Len(w)
       /\ Len(w) \in Nat
  <2>1. f \in Seq(Byte) /\ Len(f) = Len(n) + 4 + Len(d)
    BY <1>11
  <2> HIDE DEF f
  <2> QED BY <1>7, <1>9, <1>11, <2>1, Joined
<1> DEFINE g == f \o w
<1>13. /\ g \o u \in Seq(Byte) /\ Len(g \o u) = Len(n) + 4 + Len(d) + Len(w) + Len(u)
       /\ Len(u) \in Nat
  <2>1. g \in Seq(Byte) /\ Len(g) = Len(n) + 4 + Len(d) + Len(w)
    BY <1>12
  <2> HIDE DEF g
  <2> QED BY <1>7, <1>9, <1>11, <1>12, <2>1, Joined
<1>14. b = (g \o u) \o q
  BY <1>8
<1>15. b \in Seq(Byte)
  <2> DEFINE gu == g \o u
  <2>1. gu \in Seq(Byte) /\ b = gu \o q
    BY <1>13, <1>14
  <2> HIDE DEF gu
  <2> QED BY <1>7, <2>1, Joined
<1>16. /\ Sits(g \o u, b, 1) /\ Sits(q, b, Len(n) + 5 + Len(d) + Len(w) + Len(u))
  <2> DEFINE gu == g \o u
  <2>1. /\ gu \in Seq(Byte) /\ Sits(gu \o q, b, 1)
        /\ Len(gu) = Len(n) + 4 + Len(d) + Len(w) + Len(u)
    BY <1>13, <1>14, <1>15, SitsWhole
  <2>2. 1 + Len(gu) = Len(n) + 5 + Len(d) + Len(w) + Len(u)
    BY <1>9, <1>11, <1>12, <1>13, <2>1
  <2>3. Sits(gu, b, 1) /\ Sits(q, b, 1 + Len(gu))
    <3> HIDE DEF gu
    <3> QED BY <1>7, <1>15, <2>1, SitsTwo
  <2> QED BY <2>2, <2>3
<1>17. Sits(g, b, 1) /\ Sits(u, b, Len(n) + 5 + Len(d) + Len(w))
  <2>1. g \in Seq(Byte) /\ Len(g) = Len(n) + 4 + Len(d) + Len(w)
    BY <1>12
  <2> HIDE DEF g
  <2>2. 1 + Len(g) = Len(n) + 5 + Len(d) + Len(w)
    BY <1>9, <1>11, <1>12, <2>1
  <2> QED BY <1>7, <1>15, <1>16, <2>1, <2>2, SitsTwo
<1>18. Sits(f, b, 1) /\ Sits(w, b, Len(n) + 5 + Len(d))
  <2>1. f \in Seq(Byte) /\ Len(f) = Len(n) + 4 + Len(d)
    BY <1>11
  <2> HIDE DEF f
  <2>2. 1 + Len(f) = Len(n) + 5 + Len(d)
    BY <1>9, <1>11, <2>1
  <2> QED BY <1>7, <1>15, <1>17, <2>1, <2>2, SitsTwo
<1>19. Sits(e, b, 1) /\ Sits(d, b, Len(n) + 5)
  <2>1. e \in Seq(Byte) /\ Len(e) = Len(n) + 4
    BY <1>10
  <2> HIDE DEF e
  <2>2. 1 + Len(e) = Len(n) + 5
    BY <1>9, <2>1
  <2> QED BY <1>4, <1>15, <1>18, <2>1, <2>2, SitsTwo
<1>20. Sits(a, b, 1) /\ Sits(k, b, Len(n) + 3)
  <2>1. a \in Seq(Byte) /\ Len(a) = Len(n) + 2
    BY <1>9
  <2> HIDE DEF a
  <2>2. 1 + Len(a) = Len(n) + 3
    BY <1>9, <2>1
  <2> QED BY <1>4, <1>15, <1>19, <2>1, <2>2, SitsTwo
<1>21. Sits(n, b, 1) /\ Sits(v, b, 1 + Len(n))
  BY <1>4, <1>6, <1>15, <1>20, SitsTwo
<1> HIDE DEF a, e, f, g
<1> DEFINE version == After(b, 1)
           will == After(b, version + 4)
           message == After(b, will)
           user == IF c.willFlag THEN After(b, message) ELSE will
           password == IF c.usernameFlag THEN After(b, user) ELSE user
<1>22. decodeString(b, 1) = c.protocolName /\ version = 1 + Len(n)
  BY <1>1, <1>15, <1>21, StringAt DEF n
<1>23. decodeByte(b, version) = c.protocolVersion /\ decodeByte(b, version + 1) = o
  <2>1. /\ 1 + Len(n) + 1 - 1 \in 1 .. Len(b)
        /\ b[1 + Len(n) + 1 - 1] = c.protocolVersion
        /\ 1 + Len(n) + 2 - 1 \in 1 .. Len(b) /\ b[1 + Len(n) + 2 - 1] = o
    BY <1>6, <1>21 DEF Sits, v
  <2>2. /\ 1 + Len(n) + 1 - 1 = 1 + Len(n)
        /\ 1 + Len(n) + 2 - 1 = (1 + Len(n)) + 1
    BY <1>9
  <2> QED BY <1>15, <1>22, <2>1, <2>2 DEF decodeByte
<1>24. decodeUint16(b, version + 2) = c.keepaliveTimer
  <2>1. version + 2 = Len(n) + 3 /\ Len(n) + 3 \in Nat
    BY <1>9, <1>22
  <2> QED BY <1>1, <1>15, <1>20, <2>1, Uint16At DEF k
<1>25. /\ decodeString(b, version + 4) = c.clientIdentifier
       /\ will = Len(n) + 5 + Len(d)
  <2>1. version + 4 = Len(n) + 5 /\ Len(n) + 5 \in Nat
    BY <1>9, <1>22
  <2> HIDE DEF version
  <2> QED BY <1>1, <1>15, <1>19, <2>1, StringAt DEF d
<1>26. /\ When(c.willFlag, decodeString(b, will)) = c.willTopic
       /\ When(c.willFlag, decodeString(b, message)) = c.willMessage
       /\ user = Len(n) + 5 + Len(d) + Len(w)
  <2>1. CASE c.willFlag
    <3>1. w = t \o m
      BY <2>1 DEF w, When
    <3>2. will \in Nat
      BY <1>9, <1>11, <1>25
    <3>3. Sits(t, b, will) /\ Sits(m, b, will + Len(t))
      <4> HIDE DEF will
      <4> QED BY <1>4, <1>15, <1>18, <1>25, <3>1, <3>2, SitsTwo
    <3>4. decodeString(b, will) = c.willTopic /\ message = will + Len(t)
      <4> HIDE DEF will
      <4> QED BY <1>1, <1>15, <3>2, <3>3, StringAt DEF t
    <3>5. /\ Len(t) \in Nat /\ Len(m) \in Nat /\ Len(w) = Len(t) + Len(m)
      BY <1>4, <3>1, Joined
    <3>6. message \in Nat
      <4> HIDE DEF will, message
      <4> QED BY <3>2, <3>4, <3>5
    <3>7. decodeString(b, message) = c.willMessage /\ After(b, message) = message + Len(m)
      <4>1. Sits(m, b, message)
        BY <3>3, <3>4
      <4> HIDE DEF will, message
      <4> QED BY <1>1, <1>15, <3>6, <4>1, StringAt DEF m
    <3>8. user = Len(n) + 5 + Len(d) + Len(w)
      <4>1. user = message + Len(m)
        BY <2>1, <3>7
      <4> HIDE DEF will, message, user
      <4> QED BY <1>9, <1>11, <1>25, <3>4, <3>5, <4>1
    <3> QED BY <2>1, <3>4, <3>7, <3>8 DEF When
  <2>2. CASE ~c.willFlag
    <3>1. Len(w) = 0
      BY <1>7, <2>2
    <3>2. user = Len(n) + 5 + Len(d) + Len(w)
      <4>1. user = will
        BY <2>2
      <4> HIDE DEF will, user
      <4> QED BY <1>9, <1>11, <1>25, <3>1, <4>1
    <3> QED BY <1>2, <2>2, <3>2 DEF When
  <2> QED BY <1>1, <2>1, <2>2
<1>27. /\ When(c.usernameFlag, decodeString(b, user)) = c.username
       /\ password = Len(n) + 5 + Len(d) + Len(w) + Len(u)
  <2>1. user \in Nat
    BY <1>9, <1>11, <1>12, <1>26
  <2> HIDE DEF user
  <2>2. CASE c.usernameFlag
    <3>1. u = encodeString(c.username)
      BY <2>2 DEF u, When
    <3>2. decodeString(b, user) = c.username /\ After(b, user) = user + Len(u)
      BY <1>1, <1>15, <1>17, <1>26, <2>1, <3>1, StringAt
    <3> QED BY <1>26, <2>2, <3>2 DEF When
  <2>3. CASE ~c.usernameFlag
    <3>1. Len(u) = 0
      BY <2>3 DEF u, When
    <3>2. password = user
      BY <2>3
    <3> HIDE DEF password
    <3> QED BY <1>2, <1>26, <2>1, <2>3, <3>1, <3>2 DEF When
  <2> QED BY <1>1, <2>2, <2>3
<1>28. When(c.passwordFlag, decodeString(b, password)) = c.password
  <2>1. password \in Nat
    BY <1>9, <1>11, <1>12, <1>13, <1>27
  <2> HIDE DEF password
  <2>2. CASE c.passwordFlag
    <3>1. q = encodeString(c.password)
      BY <2>2 DEF q, When
    <3>2. decodeString(b, password) = c.password
      BY <1>1, <1>15, <1>16, <1>27, <2>1, <3>1, StringAt
    <3> QED BY <2>2, <3>2 DEF When
  <2>3. CASE ~c.passwordFlag
    BY <1>2, <2>3 DEF When
  <2> QED BY <1>1, <2>2, <2>3
<1>29. /\ o % 2 = c.reservedBit /\ (o \div 8) % 4 = c.willQos
       /\ Bit(o, 1) = c.cleanSession /\ Bit(o, 2) = c.willFlag
       /\ Bit(o, 5) = c.willRetain /\ Bit(o, 6) = c.passwordFlag
       /\ Bit(o, 7) = c.usernameFlag
  BY FlagsAgree DEF o
<1>30. UnpackConnect(b) = c
  <2>1. UnpackConnect(b) =
          [protocolName |-> decodeString(b, 1),
           protocolVersion |-> decodeByte(b, version),
           reservedBit |-> o % 2, cleanSession |-> Bit(o, 1),
           willFlag |-> Bit(o, 2), willQos |-> (o \div 8) % 4,
           willRetain |-> Bit(o, 5), passwordFlag |-> Bit(o, 6),
           usernameFlag |-> Bit(o, 7),
           keepaliveTimer |-> decodeUint16(b, version + 2),
           clientIdentifier |-> decodeString(b, version + 4),
           willTopic |-> When(c.willFlag, decodeString(b, will)),
           willMessage |-> When(c.willFlag, decodeString(b, message)),
           username |-> When(c.usernameFlag, decodeString(b, user)),
           password |-> When(c.passwordFlag, decodeString(b, password))]
    BY <1>23, <1>29, Zenon DEF UnpackConnect
  <2> HIDE DEF version, will, message, user, password
  <2> QED BY <1>3, <1>22, <1>23, <1>24, <1>25, <1>26, <1>27, <1>28, <1>29, <2>1, Zenon
<1> QED BY <1>15, <1>30 DEF b

-----------------------------------------------------------------------------
(* Bodies that are lists.                                                  *)

\* From each of the places at, f gives an item and what it gives from the next.
Lists(f, at, item, n) ==
  /\ f[at[n]] = <<>>
  /\ \A k \in 0 .. n - 1 : f[at[k]] = <<item[k + 1]>> \o f[at[k + 1]]

\* From the first one it gives them all.
LEMMA Listed ==
  ASSUME NEW V, NEW n \in Nat, NEW item \in [1 .. n -> V], NEW f, NEW at,
         Lists(f, at, item, n)
  PROVE  f[at[0]] = item
<1>0. /\ f[at[n]] = <<>>
      /\ \A k \in 0 .. n - 1 : f[at[k]] = <<item[k + 1]>> \o f[at[k + 1]]
  BY DEF Lists
<1> DEFINE D == 0 .. n
           rank == [k \in D |-> n - k]
           next == [k \in D |-> IF k = n THEN n ELSE k + 1]
           B == {k \in D : k = n}
           Rest(k) == [j \in 1 .. n - k |-> item[k + j]]
           T == {k \in D : f[at[k]] = Rest(k)}
<1>2. Recursive(D, rank, next, B)
  BY DEF Recursive
<1>3. B \subseteq T
  <2>1. Rest(n) = <<>>
    OBVIOUS
  <2> QED BY <1>0, <2>1
<1>4. ASSUME NEW k \in D \ B, next[k] \in T PROVE k \in T
  <2>1. k \in 0 .. n - 1 /\ next[k] = k + 1 /\ k + 1 \in D
    OBVIOUS
  <2>2. f[at[k]] = <<item[k + 1]>> \o Rest(k + 1)
    <3>1. f[at[k]] = <<item[k + 1]>> \o f[at[k + 1]]
      BY <1>0, <2>1
    <3>2. f[at[k + 1]] = Rest(k + 1)
      BY <1>4, <2>1
    <3> QED BY <3>1, <3>2, Zenon
  <2>3. <<item[k + 1]>> \o Rest(k + 1) = Rest(k)
    <3>1. Rest(k + 1) \in Seq(V) /\ Len(Rest(k + 1)) = n - k - 1
      <4>1. \A j \in 1 .. n - (k + 1) : item[(k + 1) + j] \in V
        BY <2>1
      <4>2. n - (k + 1) \in Nat
        BY <2>1
      <4> QED BY <2>1, <4>1, <4>2
    <3>2. Rest(k) \in Seq(V) /\ Len(Rest(k)) = n - k
      <4>1. \A j \in 1 .. n - k : item[k + j] \in V
        BY <2>1
      <4> QED BY <2>1, <4>1
    <3>3. item[k + 1] \in V
      BY <2>1
    <3>4. ASSUME NEW j \in 1 .. n - k
          PROVE  (<<item[k + 1]>> \o Rest(k + 1))[j] = Rest(k)[j]
      <4>1. CASE j = 1
        BY <2>1, <3>1, <3>3, <4>1
      <4>2. CASE j # 1
        <5>1. j - 1 \in 1 .. n - (k + 1) /\ (k + 1) + (j - 1) = k + j
          BY <2>1, <4>2
        <5>2. Rest(k + 1)[j - 1] = Rest(k)[j]
          BY <5>1
        <5>3. (<<item[k + 1]>> \o Rest(k + 1))[j] = Rest(k + 1)[j - 1]
          <6> HIDE DEF Rest
          <6> QED BY <2>1, <3>1, <3>3, <4>2, <5>1
        <5> QED BY <5>2, <5>3
      <4> QED BY <4>1, <4>2
    <3> HIDE DEF Rest
    <3> QED BY <2>1, <3>1, <3>2, <3>3, <3>4
  <2> QED BY <2>1, <2>2, <2>3
<1>5. D \subseteq T
  <2>1. Carried(T, D, next, B)
    BY <1>3, <1>4 DEF Carried
  <2> HIDE DEF D, T, B, next, rank
  <2> QED BY <1>2, <2>1, Reached, Zenon
<1>6. 0 \in T
  BY <1>5
<1>7. Rest(0) = item
  OBVIOUS
<1> QED BY <1>6, <1>7

\* The next field begins behind the place it is looked for.
LEMMA AfterIs ==
  ASSUME NEW b \in Seq(Byte), NEW i \in Nat
  PROVE  decodeUint16(b, i) \in Nat /\ After(b, i) \in Nat /\ After(b, i) >= i + 2
<1>1. \A j \in Nat : decodeByte(b, j) \in Nat
  BY DEF decodeByte, Byte
<1>2. decodeByte(b, i) \in Nat /\ decodeByte(b, i + 1) \in Nat
  <2>1. i + 1 \in Nat
    OBVIOUS
  <2> QED BY <1>1, <2>1, Zenon
<1>3. decodeUint16(b, i) \in Nat
  BY <1>2 DEF decodeUint16
<1> QED BY <1>3 DEF After

\* What sits in something sits where that does.
LEMMA SitsWithin ==
  ASSUME NEW t \in Seq(Byte), NEW s \in Seq(Byte), NEW b \in Seq(Byte),
         NEW i \in Nat, NEW j \in Nat, Sits(t, s, j), Sits(s, b, i), j > 0
  PROVE  Sits(t, b, i + j - 1)
<1>1. ASSUME NEW k \in 1 .. Len(t)
      PROVE  /\ (i + j - 1) + k - 1 \in 1 .. Len(b)
             /\ b[(i + j - 1) + k - 1] = t[k]
  <2>1. j + k - 1 \in 1 .. Len(s) /\ s[j + k - 1] = t[k]
    BY DEF Sits
  <2>2. i + (j + k - 1) - 1 \in 1 .. Len(b) /\ b[i + (j + k - 1) - 1] = s[j + k - 1]
    BY <2>1 DEF Sits
  <2>3. i + (j + k - 1) - 1 = (i + j - 1) + k - 1
    OBVIOUS
  <2> QED BY <2>1, <2>2, <2>3
<1> QED BY <1>1 DEF Sits

\* The pieces e are bytes.
Pieces(e, n) == \A i \in 1 .. n : e[i] \in Seq(Byte)

\* Where the piece behind the first k of them begins, in a list that follows an
\* identifier.
Place(e, k) == 3 + Len(First(e, k))

\* There it sits.
LEMMA ListSits ==
  ASSUME NEW x \in Uint16, NEW n \in Nat, NEW e, Pieces(e, n)
  PROVE  LET b == encodeUint16(x) \o First(e, n)
         IN /\ b \in Seq(Byte) /\ Sits(encodeUint16(x), b, 1)
            /\ Place(e, 0) = 3 /\ Place(e, n) = Len(b) + 1
            /\ \A k \in 0 .. n : Place(e, k) \in Nat
            /\ \A k \in 0 .. n - 1 :
                 /\ Place(e, k + 1) = Place(e, k) + Len(e[k + 1])
                 /\ Place(e, k + 1) <= Len(b) + 1
                 /\ Sits(e[k + 1], b, Place(e, k))
<1> DEFINE id == encodeUint16(x)
<1>i. id \in Seq(Byte) /\ Len(id) = 2
  BY Uint16Bytes
<1>e. \A i \in 1 .. n : e[i] \in Seq(Byte)
  BY DEF Pieces
<1> HIDE DEF id
<1> USE <1>i, <1>e
<1> DEFINE all == First(e, n)
           b == id \o all
<1>1. all \in Seq(Byte)
  BY FirstGrows
<1>2. b \in Seq(Byte) /\ Len(b) = Len(id) + Len(all) /\ Len(all) \in Nat
  <2> HIDE DEF all
  <2> QED BY <1>1, Joined, Zenon
<1>3. Sits(id, b, 1) /\ Sits(all, b, 1 + Len(id))
  <2>1. Sits(id \o all, b, 1)
    BY <1>2, SitsWhole, Zenon
  <2> HIDE DEF all, b
  <2> QED BY <1>1, <1>2, <2>1, SitsTwo
<1>4. \A k \in 0 .. n : Len(First(e, k)) \in Nat
  <2>1. \A k \in 0 .. n : First(e, k) \in Seq(Byte)
    BY FirstGrows
  <2> QED BY <2>1
<1>5. /\ 3 + Len(First(e, 0)) = 3
      /\ \A k \in 0 .. n : 3 + Len(First(e, k)) \in Nat
  <2>1. Len(First(e, 0)) = 0
    BY FirstNone
  <2> QED BY <1>4, <2>1
<1>6. ASSUME NEW k \in 0 .. n - 1
      PROVE  /\ 3 + Len(First(e, k + 1)) = 3 + Len(First(e, k)) + Len(e[k + 1])
             /\ 3 + Len(First(e, k + 1)) <= Len(b) + 1
             /\ Sits(e[k + 1], b, 3 + Len(First(e, k)))
  <2>1. /\ First(e, k) \in Seq(Byte)
        /\ Len(First(e, k + 1)) = Len(First(e, k)) + Len(e[k + 1])
        /\ Len(First(e, k + 1)) <= Len(all)
        /\ Sits(e[k + 1], all, Len(First(e, k)) + 1)
    BY PieceSits
  <2>2. e[k + 1] \in Seq(Byte) /\ Len(e[k + 1]) \in Nat /\ Len(First(e, k)) \in Nat
    BY <2>1
  <2> DEFINE m == Len(First(e, k))  l == Len(First(e, k + 1))
  <2>3. m \in Nat /\ l = m + Len(e[k + 1]) /\ l <= Len(all)
    BY <2>1, <2>2
  <2>4. Sits(e[k + 1], b, 3 + m)
    <3>1. Sits(e[k + 1], all, m + 1) /\ m + 1 \in Nat /\ m + 1 > 0
      BY <2>1, <2>3
    <3>2. (1 + Len(id)) + (m + 1) - 1 = 3 + m /\ 1 + Len(id) \in Nat
      BY <2>3
    <3> HIDE DEF m, all, b
    <3>3. Sits(e[k + 1], b, (1 + Len(id)) + (m + 1) - 1)
      BY <1>1, <1>2, <1>3, <2>2, <3>1, <3>2, SitsWithin
    <3> QED BY <3>2, <3>3
  <2>5. 3 + l = 3 + m + Len(e[k + 1]) /\ 3 + l <= Len(b) + 1
    <3> DEFINE y == Len(b)  z == Len(all)  v == Len(e[k + 1])
    <3>1. y = 2 + z /\ z \in Nat /\ v \in Nat /\ m \in Nat /\ l = m + v /\ l <= z
      BY <1>2, <2>2, <2>3
    <3> HIDE DEF m, l, y, z, v
    <3>2. 3 + l = 3 + m + v /\ 3 + l <= y + 1
      BY <3>1
    <3> QED BY <3>2 DEF y, v
  <2> QED BY <2>4, <2>5
<1>7. 3 + Len(First(e, n)) = Len(b) + 1
  <2> DEFINE z == Len(all)
  <2>1. Len(b) = 2 + z /\ z \in Nat
    BY <1>2
  <2> HIDE DEF z, b
  <2>2. 3 + z = Len(b) + 1
    BY <2>1
  <2> QED BY <2>2 DEF z
<1> QED BY <1>2, <1>3, <1>5, <1>6, <1>7, Zenon DEF Place, id

\* f is what UnpackSubscribe computes: where the topics begin, from i on.
IsPlaces(f, b) ==
  f = [i \in Nat |-> IF i > Len(b) THEN <<>> ELSE <<i>> \o f[After(b, i) + 1]]

\* There is such a function, since each topic is behind the one before.
LEMMA PlacesExist ==
  ASSUME NEW b \in Seq(Byte)
  PROVE  \E f : /\ IsPlaces(f, b)
                /\ UnpackSubscribe(b) =
                     [messageID |-> decodeUint16(b, 1),
                      topics |-> [i \in DOMAIN f[3] |-> decodeString(b, f[3][i])],
                      qoss |-> [i \in DOMAIN f[3] |->
                                  decodeByte(b, After(b, f[3][i]))]]
<1> DEFINE V == Seq(Nat)
           rank == [i \in Nat |-> IF i > Len(b) THEN 0 ELSE Len(b) + 1 - i]
           next == [i \in Nat |-> After(b, i) + 1]
           B == {i \in Nat : i > Len(b)}
           base == [i \in Nat |-> <<>>]
           step == [p \in Nat \X V |-> <<p[1]>> \o p[2]]
           f == CHOOSE g : IsPlaces(g, b)
<1>1. Recursive(Nat, rank, next, B)
  <2>1. \A i \in Nat : After(b, i) + 1 \in Nat /\ After(b, i) + 1 > i
    <3>1. ASSUME NEW i \in Nat PROVE After(b, i) + 1 \in Nat /\ After(b, i) + 1 > i
      <4>1. After(b, i) \in Nat /\ After(b, i) >= i + 2
        BY AfterIs, Zenon
      <4> QED BY <4>1
    <3> QED BY <3>1, Zenon
  <2>2. Len(b) \in Nat
    OBVIOUS
  <2>3. rank \in [Nat -> Nat] /\ next \in [Nat -> Nat] /\ B \subseteq Nat
    BY <2>1, <2>2
  <2>4. ASSUME NEW i \in Nat \ B PROVE rank[next[i]] < rank[i]
    <3>1. /\ next[i] = After(b, i) + 1 /\ next[i] \in Nat /\ next[i] > i
          /\ i <= Len(b) /\ rank[i] = Len(b) + 1 - i
      BY <2>1, <2>2
    <3>2. rank[next[i]] = IF next[i] > Len(b) THEN 0 ELSE Len(b) + 1 - next[i]
      BY <3>1
    <3> HIDE DEF rank, next
    <3> QED BY <2>2, <3>1, <3>2
  <2> HIDE DEF rank, next, B
  <2> QED BY <2>3, <2>4 DEF Recursive
<1>2. base \in [Nat -> V] /\ step \in [Nat \X V -> V]
  OBVIOUS
<1>3. PICK h \in [Nat -> V] : Solves(h, Nat, next, B, base, step)
  <2> HIDE DEF V, rank, next, B, base, step
  <2> QED BY <1>1, <1>2, Recursion
<1>4. IsPlaces(h, b)
  <2>1. ASSUME NEW i \in Nat
        PROVE  h[i] = IF i > Len(b) THEN <<>> ELSE <<i>> \o h[After(b, i) + 1]
    <3>1. h[i] = IF i \in B THEN base[i] ELSE step[<<i, h[next[i]]>>]
      BY <1>3 DEF Solves
    <3>2. CASE i > Len(b)
      BY <3>1, <3>2
    <3>3. CASE ~(i > Len(b))
      <4>1. next[i] = After(b, i) + 1 /\ After(b, i) + 1 \in Nat
        <5>1. After(b, i) \in Nat
          BY AfterIs, Zenon
        <5> DEFINE x == After(b, i)
        <5>2. next[i] = x + 1
          OBVIOUS
        <5> HIDE DEF x, next
        <5>3. x \in Nat
          BY <5>1 DEF x
        <5>4. x + 1 \in Nat
          BY <5>3
        <5> QED BY <5>2, <5>4 DEF x
      <4>2. h[After(b, i) + 1] \in V
        BY <1>3, <4>1
      <4>3. h[i] = step[<<i, h[After(b, i) + 1]>>]
        BY <3>1, <3>3, <4>1
      <4>4. step[<<i, h[After(b, i) + 1]>>] = <<i>> \o h[After(b, i) + 1]
        <5>1. ASSUME NEW v \in V PROVE step[<<i, v>>] = <<i>> \o v
          OBVIOUS
        <5> HIDE DEF V, step
        <5> QED BY <4>2, <5>1, Zenon
      <4> QED BY <3>3, <4>3, <4>4, Zenon
    <3> QED BY <3>2, <3>3
  <2>2. h = [i \in Nat |-> h[i]]
    BY <1>3
  <2>3. [i \in Nat |-> h[i]]
          = [i \in Nat |-> IF i > Len(b) THEN <<>> ELSE <<i>> \o h[After(b, i) + 1]]
    BY <2>1, Zenon
  <2> QED BY <2>2, <2>3, Zenon DEF IsPlaces
<1>5. IsPlaces(f, b)
  BY <1>4, Zenon
<1>6. UnpackSubscribe(b) =
        [messageID |-> decodeUint16(b, 1),
         topics |-> [i \in DOMAIN f[3] |-> decodeString(b, f[3][i])],
         qoss |-> [i \in DOMAIN f[3] |-> decodeByte(b, After(b, f[3][i]))]]
  BY Zenon DEF UnpackSubscribe, IsPlaces
<1> HIDE DEF f
<1> QED BY <1>5, <1>6

\* SUBSCRIBE: an identifier, and each topic with its QoS.
LEMMA SubscribeAgrees ==
  ASSUME NEW s \in SubscribePacket
  PROVE  WriteSubscribe(s) \in Seq(Byte) /\ UnpackSubscribe(WriteSubscribe(s)) = s
<1> DEFINE n == Len(s.topics)
           id == encodeUint16(s.messageID)
           e == [i \in 1 .. n |-> encodeString(s.topics[i]) \o <<s.qoss[i]>>]
           b == id \o First(e, n)
           P(k) == Place(e, k)
<1>1. /\ s = [messageID |-> s.messageID, topics |-> s.topics, qoss |-> s.qoss]
      /\ s.messageID \in Uint16 /\ s.topics \in Seq(Text) /\ s.qoss \in Seq(Byte)
      /\ n \in Nat /\ Len(s.qoss) = n
  BY DEF SubscribePacket
<1>2. id \in Seq(Byte) /\ Len(id) = 2
  BY <1>1, Uint16Bytes
<1>3. \A i \in 1 .. n : s.topics[i] \in Text /\ s.qoss[i] \in Byte
  BY <1>1
<1>4. \A i \in 1 .. n : e[i] \in Seq(Byte)
  <2>1. ASSUME NEW i \in 1 .. n PROVE e[i] \in Seq(Byte)
    <3>1. encodeString(s.topics[i]) \in Seq(Byte) /\ <<s.qoss[i]>> \in Seq(Byte)
      BY <1>3, StringBytes
    <3>2. e[i] = encodeString(s.topics[i]) \o <<s.qoss[i]>>
      OBVIOUS
    <3> HIDE DEF e
    <3> QED BY <3>1, <3>2, Joined, Zenon
  <2> QED BY <2>1
<1>5. WriteSubscribe(s) = b
  <2>1. DOMAIN s.topics = 1 .. n
    BY <1>1
  <2>2. [i \in DOMAIN s.topics |-> encodeString(s.topics[i]) \o <<s.qoss[i]>>] = e
    BY <2>1
  <2>3. [i \in 1 .. n |-> e[i]] = e
    OBVIOUS
  <2>4. WriteSubscribe(s) = id \o FlattenSeq(e)
    BY <2>2, Zenon DEF WriteSubscribe
  <2> HIDE DEF e, n
  <2> QED BY <2>3, <2>4, Zenon DEF First
<1> HIDE DEF id, e, b
<1>6. /\ b \in Seq(Byte) /\ Sits(id, b, 1) /\ P(0) = 3 /\ P(n) = Len(b) + 1
      /\ \A k \in 0 .. n : P(k) \in Nat
      /\ \A k \in 0 .. n - 1 :
           /\ P(k + 1) = P(k) + Len(e[k + 1]) /\ P(k + 1) <= Len(b) + 1
           /\ Sits(e[k + 1], b, P(k))
  <2> HIDE DEF n
  <2>1. Pieces(e, n)
    BY <1>4, Zenon DEF Pieces
  <2> QED BY <1>1, <2>1, ListSits, Zenon DEF b, id
<1> HIDE DEF P
<1>7. ASSUME NEW k \in 0 .. n - 1
      PROVE  /\ decodeString(b, P(k)) = s.topics[k + 1] /\ P(k) <= Len(b)
             /\ decodeByte(b, After(b, P(k))) = s.qoss[k + 1]
             /\ After(b, P(k)) + 1 = P(k + 1)
  <2>1. k + 1 \in 1 .. n /\ P(k) \in Nat
    BY <1>1, <1>6
  <2> DEFINE t == encodeString(s.topics[k + 1])  q == <<s.qoss[k + 1]>>
  <2>2. e[k + 1] = t \o q
    BY <2>1 DEF e
  <2>3. t \in Seq(Byte) /\ q \in Seq(Byte) /\ Len(q) = 1
    BY <1>3, <2>1, StringBytes
  <2>4. Len(e[k + 1]) = Len(t) + 1 /\ Len(t) \in Nat
    <3> HIDE DEF t, q
    <3>1. Len(t \o q) = Len(t) + Len(q) /\ Len(t) \in Nat
      BY <2>3, Joined, Zenon
    <3> QED BY <2>2, <2>3, <3>1, Zenon
  <2>5. Sits(t, b, P(k)) /\ Sits(q, b, P(k) + Len(t))
    <3>1. Sits(t \o q, b, P(k))
      BY <1>6, <2>2
    <3> HIDE DEF t, q
    <3> QED BY <1>6, <2>1, <2>3, <3>1, SitsTwo
  <2>6. decodeString(b, P(k)) = s.topics[k + 1] /\ After(b, P(k)) = P(k) + Len(t)
    BY <1>3, <1>6, <2>1, <2>5, StringAt
  <2>7. decodeByte(b, After(b, P(k))) = s.qoss[k + 1]
    <3>1. P(k) + Len(t) \in Nat
      BY <2>1, <2>4
    <3> HIDE DEF t
    <3> QED BY <1>3, <1>6, <2>1, <2>5, <2>6, <3>1, ByteAt
  <2>8. P(k + 1) = P(k) + (Len(t) + 1) /\ P(k + 1) <= Len(b) + 1
    BY <1>6, <2>4
  <2>9. After(b, P(k)) + 1 = P(k + 1) /\ P(k) <= Len(b)
    <3>1. Len(b) \in Nat
      BY <1>6
    <3> HIDE DEF t
    <3> QED BY <2>1, <2>4, <2>6, <2>8, <3>1
  <2> QED BY <2>6, <2>7, <2>9
<1>8. PICK f : /\ IsPlaces(f, b)
               /\ UnpackSubscribe(b) =
                    [messageID |-> decodeUint16(b, 1),
                     topics |-> [i \in DOMAIN f[3] |-> decodeString(b, f[3][i])],
                     qoss |-> [i \in DOMAIN f[3] |-> decodeByte(b, After(b, f[3][i]))]]
  BY <1>6, PlacesExist
<1>9. ASSUME NEW i \in Nat
      PROVE  f[i] = IF i > Len(b) THEN <<>> ELSE <<i>> \o f[After(b, i) + 1]
  BY <1>8, Zenon DEF IsPlaces
<1> DEFINE at == [k \in 0 .. n |-> P(k)]
           item == [k \in 1 .. n |-> P(k - 1)]
<1>10. f[3] = item
  <2>1. item \in [1 .. n -> Nat]
    <3>1. \A k \in 1 .. n : k - 1 \in 0 .. n
      BY <1>1
    <3> QED BY <1>6, <3>1
  <2>2. f[at[n]] = <<>>
    <3>1. at[n] = Len(b) + 1 /\ Len(b) \in Nat
      BY <1>1, <1>6
    <3>2. Len(b) + 1 \in Nat /\ Len(b) + 1 > Len(b)
      BY <3>1
    <3> HIDE DEF at
    <3> QED BY <1>9, <3>1, <3>2
  <2>3. ASSUME NEW k \in 0 .. n - 1
        PROVE  f[at[k]] = <<item[k + 1]>> \o f[at[k + 1]]
    <3>1. /\ k \in 0 .. n /\ k + 1 \in 0 .. n /\ k + 1 \in 1 .. n /\ (k + 1) - 1 = k
      BY <1>1
    <3>2. at[k] = P(k) /\ at[k + 1] = P(k + 1) /\ item[k + 1] = P(k) /\ P(k) \in Nat
      BY <1>6, <3>1
    <3>3. ~(P(k) > Len(b))
      <4>1. Len(b) \in Nat
        BY <1>6
      <4> QED BY <1>7, <3>2, <4>1
    <3>4. f[P(k)] = <<P(k)>> \o f[After(b, P(k)) + 1]
      BY <1>9, <3>2, <3>3, Zenon
    <3>5. After(b, P(k)) + 1 = P(k + 1)
      BY <1>7
    <3> HIDE DEF at, item
    <3> QED BY <3>2, <3>4, <3>5, Zenon
  <2>4. at[0] = 3
    BY <1>1, <1>6
  <2> HIDE DEF at, item, n
  <2>5. f[at[0]] = item
    <3>1. Lists(f, at, item, n)
      BY <2>2, <2>3, Zenon DEF Lists
    <3> QED BY <1>1, <2>1, <3>1, Listed, Zenon
  <2> QED BY <2>4, <2>5
<1>11. /\ DOMAIN f[3] = 1 .. n
       /\ \A i \in 1 .. n : /\ f[3][i] = P(i - 1) /\ i - 1 \in 0 .. n - 1
                            /\ (i - 1) + 1 = i
  BY <1>1, <1>10
<1>12. [i \in DOMAIN f[3] |-> decodeString(b, f[3][i])] = s.topics
  <2>1. \A i \in 1 .. n : decodeString(b, f[3][i]) = s.topics[i]
    BY <1>7, <1>11
  <2>2. s.topics = [i \in 1 .. n |-> s.topics[i]]
    BY <1>1
  <2> HIDE DEF n
  <2> QED BY <1>11, <2>1, <2>2
<1>13. [i \in DOMAIN f[3] |-> decodeByte(b, After(b, f[3][i]))] = s.qoss
  <2>1. \A i \in 1 .. n : decodeByte(b, After(b, f[3][i])) = s.qoss[i]
    BY <1>7, <1>11
  <2>2. s.qoss = [i \in 1 .. n |-> s.qoss[i]]
    BY <1>1
  <2> HIDE DEF n
  <2> QED BY <1>11, <2>1, <2>2
<1>14. decodeUint16(b, 1) = s.messageID
  BY <1>1, <1>6, Uint16At DEF id
<1> QED BY <1>1, <1>5, <1>6, <1>8, <1>12, <1>13, <1>14

\* Past the end a string is empty.
LEMMA PastTheEnd ==
  ASSUME NEW b \in Seq(Byte), NEW i \in Nat, i > Len(b)
  PROVE  decodeString(b, i) = <<>>
<1>1. decodeByte(b, i) = 0 /\ decodeByte(b, i + 1) = 0
  BY DEF decodeByte
<1>2. decodeUint16(b, i) = 0
  BY <1>1 DEF decodeUint16
<1> QED BY <1>2 DEF decodeString

\* f is what UnpackUnsubscribe computes: the topics from i on.
IsTopics(f, b) ==
  f = [i \in Nat |-> IF decodeString(b, i) = <<>> THEN <<>>
                     ELSE <<decodeString(b, i)>> \o f[After(b, i)]]

\* There is such a function, since each topic is behind the one before.
LEMMA TopicsExist ==
  ASSUME NEW b \in Seq(Byte)
  PROVE  \E f : /\ IsTopics(f, b)
                /\ UnpackUnsubscribe(b) =
                     [messageID |-> decodeUint16(b, 1), topics |-> f[3]]
<1> DEFINE V == Seq(Seq(Nat))
           rank == [i \in Nat |-> IF i > Len(b) THEN 0 ELSE Len(b) + 1 - i]
           next == [i \in Nat |-> After(b, i)]
           B == {i \in Nat : decodeString(b, i) = <<>>}
           base == [i \in Nat |-> <<>>]
           step == [p \in Nat \X V |-> <<decodeString(b, p[1])>> \o p[2]]
           f == CHOOSE g : IsTopics(g, b)
<1>0. ASSUME NEW i \in Nat PROVE After(b, i) \in Nat /\ After(b, i) > i
  <2>1. After(b, i) \in Nat /\ After(b, i) >= i + 2
    BY AfterIs, Zenon
  <2> QED BY <2>1
<1>1. Recursive(Nat, rank, next, B)
  <2>2. Len(b) \in Nat
    OBVIOUS
  <2>3. rank \in [Nat -> Nat] /\ next \in [Nat -> Nat] /\ B \subseteq Nat
    BY <1>0, <2>2
  <2>4. ASSUME NEW i \in Nat \ B PROVE rank[next[i]] < rank[i]
    <3>1. /\ next[i] = After(b, i) /\ next[i] \in Nat /\ next[i] > i
          /\ i <= Len(b)
      BY <1>0, <2>2, PastTheEnd
    <3>2. /\ rank[next[i]] = IF next[i] > Len(b) THEN 0 ELSE Len(b) + 1 - next[i]
          /\ rank[i] = Len(b) + 1 - i
      BY <2>2, <3>1
    <3> HIDE DEF rank, next
    <3> QED BY <2>2, <3>1, <3>2
  <2> HIDE DEF rank, next, B
  <2> QED BY <2>3, <2>4 DEF Recursive
<1>2. base \in [Nat -> V] /\ step \in [Nat \X V -> V]
  <2>1. ASSUME NEW i \in Nat PROVE decodeString(b, i) \in Seq(Nat)
    <3>1. \A j \in Nat : decodeByte(b, j) \in Nat
      BY DEF decodeByte, Byte
    <3>2. decodeUint16(b, i) \in Nat
      BY AfterIs, Zenon
    <3>3. ASSUME NEW j \in 1 .. decodeUint16(b, i)
          PROVE  decodeByte(b, i + 1 + j) \in Nat
      <4>1. j \in Nat
        OBVIOUS
      <4>2. i + 1 + j \in Nat
        BY <4>1
      <4> QED BY <3>1, <4>2, Zenon
    <3> HIDE DEF V
    <3> QED BY <3>2, <3>3 DEF decodeString
  <2>2. ASSUME NEW i \in Nat, NEW v \in V PROVE <<decodeString(b, i)>> \o v \in V
    BY <2>1
  <2>3. base \in [Nat -> V]
    OBVIOUS
  <2> HIDE DEF V
  <2> QED BY <2>2, <2>3
<1>3. PICK h \in [Nat -> V] : Solves(h, Nat, next, B, base, step)
  <2> HIDE DEF V, rank, next, B, base, step
  <2> QED BY <1>1, <1>2, Recursion
<1>4. IsTopics(h, b)
  <2>1. ASSUME NEW i \in Nat
        PROVE  h[i] = IF decodeString(b, i) = <<>> THEN <<>>
                      ELSE <<decodeString(b, i)>> \o h[After(b, i)]
    <3>1. h[i] = IF i \in B THEN base[i] ELSE step[<<i, h[next[i]]>>]
      BY <1>3 DEF Solves
    <3>2. CASE decodeString(b, i) = <<>>
      BY <3>1, <3>2
    <3>3. CASE decodeString(b, i) # <<>>
      <4>1. next[i] = After(b, i) /\ After(b, i) \in Nat
        BY <1>0
      <4>2. h[After(b, i)] \in V
        BY <1>3, <4>1
      <4>3. h[i] = step[<<i, h[After(b, i)]>>]
        BY <3>1, <3>3, <4>1
      <4>4. step[<<i, h[After(b, i)]>>] = <<decodeString(b, i)>> \o h[After(b, i)]
        <5>1. <<i, h[After(b, i)]>> \in Nat \X V
          BY <4>2
        <5> QED BY <5>1
      <4> QED BY <3>3, <4>3, <4>4, Zenon
    <3> QED BY <3>2, <3>3
  <2>2. h = [i \in Nat |-> h[i]]
    BY <1>3
  <2>3. [i \in Nat |-> h[i]]
          = [i \in Nat |-> IF decodeString(b, i) = <<>> THEN <<>>
                           ELSE <<decodeString(b, i)>> \o h[After(b, i)]]
    BY <2>1, Zenon
  <2> QED BY <2>2, <2>3, Zenon DEF IsTopics
<1>5. IsTopics(f, b)
  BY <1>4, Zenon
<1>6. UnpackUnsubscribe(b) = [messageID |-> decodeUint16(b, 1), topics |-> f[3]]
  BY Zenon DEF UnpackUnsubscribe, IsTopics
<1> HIDE DEF f
<1> QED BY <1>5, <1>6

\* UNSUBSCRIBE: an identifier, and each topic.
LEMMA UnsubscribeAgrees ==
  ASSUME NEW u \in UnsubscribePacket
  PROVE  /\ WriteUnsubscribe(u) \in Seq(Byte)
         /\ UnpackUnsubscribe(WriteUnsubscribe(u)) = u
<1> DEFINE n == Len(u.topics)
           id == encodeUint16(u.messageID)
           e == [i \in 1 .. n |-> encodeString(u.topics[i])]
           b == id \o First(e, n)
           P(k) == Place(e, k)
<1>1. /\ u = [messageID |-> u.messageID, topics |-> u.topics]
      /\ u.messageID \in Uint16 /\ u.topics \in Seq(Text \ {<<>>}) /\ n \in Nat
  BY DEF UnsubscribePacket
<1>3. \A i \in 1 .. n : u.topics[i] \in Text /\ u.topics[i] # <<>>
  BY <1>1
<1>4. \A i \in 1 .. n : e[i] \in Seq(Byte)
  BY <1>3, StringBytes
<1>5. WriteUnsubscribe(u) = b
  <2>1. DOMAIN u.topics = 1 .. n
    BY <1>1
  <2>2. [i \in DOMAIN u.topics |-> encodeString(u.topics[i])] = e
    BY <2>1
  <2>3. [i \in 1 .. n |-> e[i]] = e
    OBVIOUS
  <2>4. WriteUnsubscribe(u) = id \o FlattenSeq(e)
    BY <2>2, Zenon DEF WriteUnsubscribe
  <2> HIDE DEF e, n
  <2> QED BY <2>3, <2>4, Zenon DEF First
<1> HIDE DEF id, e, b
<1>6. /\ b \in Seq(Byte) /\ Sits(id, b, 1) /\ P(0) = 3 /\ P(n) = Len(b) + 1
      /\ \A k \in 0 .. n : P(k) \in Nat
      /\ \A k \in 0 .. n - 1 :
           /\ P(k + 1) = P(k) + Len(e[k + 1]) /\ P(k + 1) <= Len(b) + 1
           /\ Sits(e[k + 1], b, P(k))
  <2> HIDE DEF n
  <2>1. Pieces(e, n)
    BY <1>4, Zenon DEF Pieces
  <2> QED BY <1>1, <2>1, ListSits, Zenon DEF b, id
<1> HIDE DEF P
<1>7. ASSUME NEW k \in 0 .. n - 1
      PROVE  decodeString(b, P(k)) = u.topics[k + 1] /\ After(b, P(k)) = P(k + 1)
  <2>1. k + 1 \in 1 .. n /\ P(k) \in Nat
    BY <1>1, <1>6
  <2>2. e[k + 1] = encodeString(u.topics[k + 1])
    BY <2>1 DEF e
  <2> QED BY <1>3, <1>6, <2>1, <2>2, StringAt
<1>8. PICK f : /\ IsTopics(f, b)
               /\ UnpackUnsubscribe(b) =
                    [messageID |-> decodeUint16(b, 1), topics |-> f[3]]
  BY <1>6, TopicsExist
<1>9. ASSUME NEW i \in Nat
      PROVE  f[i] = IF decodeString(b, i) = <<>> THEN <<>>
                    ELSE <<decodeString(b, i)>> \o f[After(b, i)]
  BY <1>8, Zenon DEF IsTopics
<1> DEFINE at == [k \in 0 .. n |-> P(k)]
           item == u.topics
<1>10. f[3] = item
  <2>1. item \in [1 .. n -> Text]
    BY <1>1
  <2>2. f[at[n]] = <<>>
    <3>1. at[n] = Len(b) + 1 /\ Len(b) \in Nat
      BY <1>1, <1>6
    <3>2. Len(b) + 1 \in Nat /\ Len(b) + 1 > Len(b)
      BY <3>1
    <3>3. decodeString(b, Len(b) + 1) = <<>>
      BY <1>6, <3>2, PastTheEnd
    <3> HIDE DEF at
    <3> QED BY <1>9, <3>1, <3>2, <3>3
  <2>3. ASSUME NEW k \in 0 .. n - 1
        PROVE  f[at[k]] = <<item[k + 1]>> \o f[at[k + 1]]
    <3>1. k \in 0 .. n /\ k + 1 \in 0 .. n /\ k + 1 \in 1 .. n
      BY <1>1
    <3>2. at[k] = P(k) /\ at[k + 1] = P(k + 1) /\ P(k) \in Nat
      BY <1>6, <3>1
    <3>3. decodeString(b, P(k)) = item[k + 1] /\ item[k + 1] # <<>>
      BY <1>3, <1>7, <3>1
    <3>4. f[P(k)] = <<item[k + 1]>> \o f[After(b, P(k))]
      BY <1>9, <3>2, <3>3, Zenon
    <3>5. After(b, P(k)) = P(k + 1)
      BY <1>7
    <3> HIDE DEF at, item
    <3> QED BY <3>2, <3>4, <3>5, Zenon
  <2>4. at[0] = 3
    BY <1>1, <1>6
  <2> HIDE DEF at, item, n
  <2>5. f[at[0]] = item
    <3>1. Lists(f, at, item, n)
      BY <2>2, <2>3, Zenon DEF Lists
    <3> QED BY <1>1, <2>1, <3>1, Listed, Zenon
  <2> QED BY <2>4, <2>5
<1>14. decodeUint16(b, 1) = u.messageID
  BY <1>1, <1>6, Uint16At DEF id
<1> QED BY <1>1, <1>5, <1>6, <1>8, <1>10, <1>14

-----------------------------------------------------------------------------
(* Packets.                                                                *)

\* The body of each packet is bytes, and is read as it was.
LEMMA BodyAgrees ==
  ASSUME NEW h \in FixedHeader, NEW c \in Struct(h)
  PROVE  LET b == Body(h, c) IN
           b \in Seq(Byte) /\ Fields(h, b) = c /\ ~UnpackPanics(h, b)
<1> DEFINE b == Body(h, c)
<1>1. h.type \in {PacketNames[i] : i \in DOMAIN PacketNames}
  BY DEF FixedHeader
<1>2. \/ h.type \in {"CONNECT", "CONNACK", "PUBLISH", "SUBSCRIBE", "SUBACK",
                     "UNSUBSCRIBE"}
      \/ h.type \in MessageIDOnly
      \/ h.type \in {"PINGREQ", "PINGRESP", "DISCONNECT"}
  BY <1>1 DEF PacketNames, MessageIDOnly
<1>3. h.type # "PUBLISH" => ~UnpackPanics(h, b)
  BY DEF UnpackPanics
<1>4. CASE h.type = "CONNECT"
  <2>1. /\ c \in ConnectPacket /\ b = WriteConnect(c)
        /\ Fields(h, b) = UnpackConnect(b)
    BY <1>4 DEF Struct, Body, Fields, MessageIDOnly
  <2> HIDE DEF b
  <2>2. b \in Seq(Byte) /\ Fields(h, b) = c
    BY <2>1, ConnectAgrees, Zenon
  <2> QED BY <1>3, <1>4, <2>2 DEF b
<1>5. CASE h.type = "CONNACK"
  <2>1. /\ c \in ConnackPacket /\ b = WriteConnack(c)
        /\ Fields(h, b) = UnpackConnack(b)
    BY <1>5 DEF Struct, Body, Fields, MessageIDOnly
  <2> HIDE DEF b
  <2>2. b \in Seq(Byte) /\ Fields(h, b) = c
    BY <2>1, ConnackAgrees, Zenon
  <2> QED BY <1>3, <1>5, <2>2 DEF b
<1>6. CASE h.type = "PUBLISH"
  <2>1. /\ c \in PublishPacket(h.qos) /\ b = WritePublish(h, c)
        /\ Fields(h, b) = UnpackPublish(h, b)
    BY <1>6 DEF Struct, Body, Fields, MessageIDOnly
  <2> HIDE DEF b
  <2>2. b \in Seq(Byte) /\ Fields(h, b) = c /\ PayloadAt(h, b) <= Len(b) + 1
    BY <2>1, PublishAgrees, Zenon
  <2>3. Len(b) + 1 \in Nat /\ PayloadAt(h, b) \in Nat
    <3>1. After(b, 1) \in Nat
      BY <2>2, AfterIs
    <3> QED BY <2>2, <3>1 DEF PayloadAt
  <2>4. ~(PayloadAt(h, b) > Len(b) + 1)
    BY <2>2, <2>3
  <2> QED BY <2>2, <2>4 DEF UnpackPanics, b
<1>7. CASE h.type = "SUBSCRIBE"
  <2>1. /\ c \in SubscribePacket /\ b = WriteSubscribe(c)
        /\ Fields(h, b) = UnpackSubscribe(b)
    BY <1>7 DEF Struct, Body, Fields, MessageIDOnly
  <2> HIDE DEF b
  <2>2. b \in Seq(Byte) /\ Fields(h, b) = c
    BY <2>1, SubscribeAgrees, Zenon
  <2> QED BY <1>3, <1>7, <2>2 DEF b
<1>8. CASE h.type = "SUBACK"
  <2>1. /\ c \in SubackPacket /\ b = WriteSuback(c)
        /\ Fields(h, b) = UnpackSuback(b)
    BY <1>8 DEF Struct, Body, Fields, MessageIDOnly
  <2> HIDE DEF b
  <2>2. b \in Seq(Byte) /\ Fields(h, b) = c
    BY <2>1, SubackAgrees, Zenon
  <2> QED BY <1>3, <1>8, <2>2 DEF b
<1>9. CASE h.type = "UNSUBSCRIBE"
  <2>1. /\ c \in UnsubscribePacket /\ b = WriteUnsubscribe(c)
        /\ Fields(h, b) = UnpackUnsubscribe(b)
    BY <1>9 DEF Struct, Body, Fields, MessageIDOnly
  <2> HIDE DEF b
  <2>2. b \in Seq(Byte) /\ Fields(h, b) = c
    BY <2>1, UnsubscribeAgrees, Zenon
  <2> QED BY <1>3, <1>9, <2>2 DEF b
<1>10. CASE h.type \in MessageIDOnly
  <2>1. /\ c \in [messageID : Uint16] /\ b = encodeUint16(c.messageID)
        /\ Fields(h, b) = [messageID |-> decodeUint16(b, 1)]
        /\ h.type # "PUBLISH"
    BY <1>10 DEF Struct, Body, Fields, MessageIDOnly
  <2>2. c = [messageID |-> c.messageID] /\ c.messageID \in Uint16
    BY <2>1
  <2> HIDE DEF b
  <2>3. b \in Seq(Byte) /\ decodeUint16(b, 1) = c.messageID
    BY <2>1, <2>2, IdAgrees, Zenon
  <2>4. Fields(h, b) = c
    BY <2>1, <2>2, <2>3, Zenon
  <2> QED BY <1>3, <2>1, <2>3, <2>4 DEF b
<1>11. CASE h.type \in {"PINGREQ", "PINGRESP", "DISCONNECT"}
  <2>1. /\ c \in [nothing : {{}}] /\ b = <<>> /\ Fields(h, b) = [nothing |-> {}]
        /\ h.type # "PUBLISH"
    BY <1>11 DEF Struct, Body, Fields, MessageIDOnly
  <2>2. c = [nothing |-> {}]
    BY <2>1
  <2> QED BY <1>3, <2>1, <2>2
<1> QED BY <1>2, <1>4, <1>5, <1>6, <1>7, <1>8, <1>9, <1>10, <1>11

\* The bytes w are a first byte, the digits of a length, and a body.
Framed(w, t, d, b) ==
  /\ w \in Seq(Byte) /\ Len(w) = 1 + Len(d) + Len(b) /\ w[1] = t
  /\ \A i \in 1 .. Len(d) : w[1 + i] = d[i]
  /\ \A i \in 1 .. Len(b) : w[1 + Len(d) + i] = b[i]

\* So are those that Write puts together.
LEMMA PiecesOfWrite ==
  ASSUME NEW t \in Byte, NEW d \in Seq(Byte), NEW b \in Seq(Byte)
  PROVE  Framed(<<t>> \o d \o b, t, d, b)
<1> DEFINE w == <<t>> \o d \o b
<1>1. /\ <<t>> \o d \in Seq(Byte) /\ Len(<<t>> \o d) = 1 + Len(d)
      /\ (<<t>> \o d)[1] = t
      /\ \A i \in 1 .. Len(d) : (<<t>> \o d)[1 + i] = d[i]
  OBVIOUS
<1> DEFINE td == <<t>> \o d
<1>2. /\ td \in Seq(Byte) /\ w = td \o b /\ Len(td) = 1 + Len(d)
      /\ Len(d) \in Nat /\ Len(b) \in Nat /\ td[1] = t
      /\ \A i \in 1 .. Len(d) : td[1 + i] = d[i]
  BY <1>1
<1> HIDE DEF td, w
<1>3. /\ w \in Seq(Byte) /\ Len(w) = Len(td) + Len(b)
      /\ \A i \in 1 .. Len(td) : w[i] = td[i]
      /\ \A i \in 1 .. Len(b) : w[Len(td) + i] = b[i]
  <2>1. td \in Seq(Byte) /\ b \in Seq(Byte) /\ w = td \o b
    BY <1>2
  <2> QED BY <2>1
<1>4. /\ 1 \in 1 .. Len(td) /\ \A i \in 1 .. Len(d) : 1 + i \in 1 .. Len(td)
  BY <1>2
<1>5. w[1] = t /\ \A i \in 1 .. Len(d) : w[1 + i] = d[i]
  BY <1>2, <1>3, <1>4, Zenon
<1>6. Len(w) = 1 + Len(d) + Len(b) /\ 1 + Len(d) = Len(td)
  BY <1>2, <1>3
<1>7. Framed(w, t, d, b)
  BY <1>3, <1>5, <1>6, Zenon DEF Framed
<1> QED BY <1>7 DEF w

\* A CONNECT read out of nothing is not accepted.
LEMMA EmptyRefused ==
  ASSUME NEW h, h.type = "CONNECT"
  PROVE  Validate(Fields(h, <<>>)) # "CONN_ACCEPTED"
<1>1. decodeString(<<>>, 1) = <<>>
  BY NothingThere
<1>2. UnpackConnect(<<>>).protocolName = <<>>
  BY <1>1, Zenon DEF UnpackConnect
<1>3. <<>> # MQTT /\ <<>> # MQIsdp
  BY DEF MQTT, MQIsdp
<1>4. Fields(h, <<>>) = UnpackConnect(<<>>)
  BY DEF Fields, MessageIDOnly
<1> DEFINE c == UnpackConnect(<<>>)
<1>5. c.protocolName \notin {MQIsdp, MQTT}
  BY <1>2, <1>3
<1> HIDE DEF c
<1>6. Validate(c) # "CONN_ACCEPTED"
  BY <1>5 DEF Validate
<1> QED BY <1>4, <1>6 DEF c

\* What Unpack makes of what Write wrote, for every type of packet and whatever
\* its fields are: the first byte gives the fixed header back, the digits are a
\* length that decodeLength stops at and reads as it was, and the body unpacks to
\* the packet.  ReadPacket therefore returns the packet that was written.
THEOREM WrittenIsRead ==
  ASSUME NEW p, WellFormed(p)
  PROVE  LET b == Body(p.head, p.body)
             d == encodeLength(Len(b))
             t == typeAndFlags(p.head) IN
           /\ b \in Seq(Byte) /\ Unpack(p.head, b) = p /\ ~UnpackPanics(p.head, b)
           /\ t \in Byte /\ unpack(t) = p.head
           /\ d \in Seq(Byte) /\ d # <<>>
           /\ \A i \in 1 .. Len(d) : d[i] < 128 <=> i = Len(d)
           /\ Len(d) > 1 => Len(b) >= 128
           /\ decodeLength(d) = Len(b)
           /\ Framed(Write(p), t, d, b)
<1> DEFINE b == Body(p.head, p.body)
           d == encodeLength(Len(b))
           t == typeAndFlags(p.head)
<1>1. p \in [head : FixedHeader, body : Struct(p.head)]
  BY Zenon DEF WellFormed
<1>2. p.head \in FixedHeader /\ p.body \in Struct(p.head)
      /\ p = [head |-> p.head, body |-> p.body]
  BY <1>1
<1>3. b \in Seq(Byte) /\ Fields(p.head, b) = p.body /\ ~UnpackPanics(p.head, b)
  BY <1>2, BodyAgrees, Zenon
<1>4. Unpack(p.head, b) = p
  BY <1>2, <1>3, Zenon DEF Unpack
<1>5. t \in Byte /\ unpack(t) = p.head
  BY <1>2, HeaderAgrees, Zenon
<1>6. Write(p) = <<t>> \o d \o b
  BY Zenon DEF Write
<1>7. Len(b) \in Nat
  BY <1>3
<1>8. /\ d \in Seq(Byte) /\ d # <<>> /\ d[Len(d)] < 128
      /\ \A i \in 1 .. Len(d) - 1 : d[i] >= 128
      /\ Len(d) > 1 => Len(b) >= 128
      /\ decodeLength(d) = Len(b)
  BY <1>7, LengthAgrees, Zenon
<1> HIDE DEF b, d, t
<1>9. ASSUME NEW i \in 1 .. Len(d) PROVE d[i] < 128 <=> i = Len(d)
  <2>1. d[i] \in Nat /\ (i = Len(d) \/ i \in 1 .. Len(d) - 1)
    BY <1>8 DEF Byte
  <2>2. i \in 1 .. Len(d) - 1 => d[i] >= 128
    BY <1>8, Zenon
  <2> QED BY <1>8, <2>1, <2>2
<1>10. Framed(Write(p), t, d, b)
  BY <1>3, <1>5, <1>6, <1>8, PiecesOfWrite, Zenon
<1> QED BY <1>3, <1>4, <1>5, <1>8, <1>9, <1>10, Zenon DEF b, d, t

=============================================================================
