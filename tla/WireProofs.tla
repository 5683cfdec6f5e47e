----------------------------- MODULE WireProofs -----------------------------
(***************************************************************************)
(* Machine-checked proofs about Wire, for every set of well-formed packets *)
(* and every number of them: the inductive invariant, the safety           *)
(* properties, and that Wire implements PacketLink.                        *)
(***************************************************************************)
EXTENDS WireInv, CodecProofs

-----------------------------------------------------------------------------
(* The bytes of the packets that are sent.                                 *)

\* A packet, its digits and its body.
LEMMA PacketIs ==
  ASSUME NEW p \in Packet
  PROVE  LET b == Body(p.head, p.body) IN
           /\ p.head \in FixedHeader /\ p.body \in Struct(p.head)
           /\ b \in Seq(Byte) /\ Unpack(p.head, b) = p /\ ~UnpackPanics(p.head, b)
           /\ typeAndFlags(p.head) \in Byte /\ unpack(typeAndFlags(p.head)) = p.head
           /\ Digits(p) \in Seq(Byte) /\ Digits(p) # <<>>
           /\ \A i \in 1 .. Len(Digits(p)) : Digits(p)[i] < 128 <=> i = Len(Digits(p))
           /\ Len(Digits(p)) > 1 => Len(b) >= 128
           /\ decodeLength(Digits(p)) = Len(b)
           /\ Write(p) \in Seq(Byte)
           /\ Len(Write(p)) = 1 + Len(Digits(p)) + Len(b)
           /\ Write(p)[1] = typeAndFlags(p.head)
           /\ \A i \in 1 .. Len(Digits(p)) : Write(p)[1 + i] = Digits(p)[i]
           /\ \A i \in 1 .. Len(b) : Write(p)[1 + Len(Digits(p)) + i] = b[i]
<1>1. WellFormed(p)
  BY PacketAssumption
<1>2. p \in [head : FixedHeader, body : Struct(p.head)]
  BY <1>1, Zenon DEF WellFormed
<1>3. p.head \in FixedHeader /\ p.body \in Struct(p.head)
  BY <1>2
<1> QED BY <1>1, <1>3, WrittenIsRead, Zenon DEF Digits, Framed

\* A packet that Write and Unpack agree about does not bring Receive down.
LEMMA PacketServed == ASSUME NEW p \in Packet PROVE ~ReceivePanics(p)
<1>1. p.body \in Struct(p.head)
  BY PacketIs
<1>2. ASSUME p.head.type = "UNSUBSCRIBE" PROVE p.body.topics # <<>>
  <2>1. p.body \in UnsubscribePacket
    BY <1>1, <1>2 DEF Struct, MessageIDOnly
  <2> QED BY <2>1 DEF UnsubscribePacket
<1> QED BY <1>2 DEF ReceivePanics

\* Where the packets are in the bytes of all.
LEMMA Position ==
  ASSUME NEW s \in Seq(Packet), NEW n \in 0 .. Len(s) - 1
  PROVE  LET all == Bytes(s, Len(s))
             at == Len(Bytes(s, n))
             w == Write(s[n + 1])
         IN /\ all \in Seq(Byte) /\ at \in Nat
            /\ Len(Bytes(s, n + 1)) = at + Len(w) /\ at + Len(w) <= Len(all)
            /\ \A i \in 1 .. Len(w) : all[at + i] = w[i]
<1> DEFINE e == [i \in 1 .. Len(s) |-> Write(s[i])]
<1>1. Len(s) \in Nat /\ n + 1 \in 1 .. Len(s) /\ \A i \in 1 .. Len(s) : s[i] \in Packet
  OBVIOUS
<1>2. \A i \in 1 .. Len(s) : e[i] \in Seq(Byte)
  BY <1>1, PacketIs
<1>3. ASSUME NEW k \in 0 .. Len(s) PROVE First(e, k) = Bytes(s, k)
  <2>1. \A i \in 1 .. k : e[i] = Write(s[i])
    BY <1>1
  <2>2. [i \in 1 .. k |-> e[i]] = [i \in 1 .. k |-> Write(s[i])]
    BY <2>1, Zenon
  <2> QED BY <2>2, Zenon DEF First, Bytes
<1> HIDE DEF e
<1>4. /\ First(e, n) \in Seq(Byte) /\ First(e, Len(s)) \in Seq(Byte)
      /\ Len(First(e, n + 1)) = Len(First(e, n)) + Len(e[n + 1])
      /\ Len(First(e, n + 1)) <= Len(First(e, Len(s)))
      /\ Sits(e[n + 1], First(e, Len(s)), Len(First(e, n)) + 1)
  BY <1>1, <1>2, PieceSits
<1>5. e[n + 1] = Write(s[n + 1])
  BY <1>1 DEF e
<1>6. /\ First(e, n) = Bytes(s, n) /\ First(e, n + 1) = Bytes(s, n + 1)
      /\ First(e, Len(s)) = Bytes(s, Len(s))
  BY <1>1, <1>3
<1> DEFINE all == Bytes(s, Len(s))
           at == Len(Bytes(s, n))
           w == Write(s[n + 1])
<1>7. /\ all \in Seq(Byte) /\ Bytes(s, n) \in Seq(Byte)
      /\ Len(Bytes(s, n + 1)) = at + Len(w) /\ at + Len(w) <= Len(all)
      /\ Sits(w, all, at + 1)
  BY <1>4, <1>5, <1>6, Zenon
<1>8. at \in Nat
  BY <1>7
<1>9. ASSUME NEW i \in 1 .. Len(w) PROVE all[at + i] = w[i]
  <2>1. all[(at + 1) + i - 1] = w[i]
    BY <1>7, Zenon DEF Sits
  <2>2. (at + 1) + i - 1 = at + i
    <3> HIDE DEF at
    <3> QED BY <1>8
  <2> QED BY <2>1, <2>2
<1> QED BY <1>7, <1>8, <1>9, Zenon

\* One packet more.
LEMMA OneMore ==
  ASSUME NEW s \in Seq(Packet), NEW p \in Packet
  PROVE  /\ \A n \in 0 .. Len(s) : Bytes(Append(s, p), n) = Bytes(s, n)
         /\ Bytes(s, Len(s)) \in Seq(Byte)
         /\ Bytes(Append(s, p), Len(s) + 1) = Bytes(s, Len(s)) \o Write(p)
<1> DEFINE t == Append(s, p)
           e == [i \in 1 .. Len(s) + 1 |-> Write(t[i])]
<1>1. /\ Len(s) \in Nat /\ t[Len(s) + 1] = p
      /\ \A i \in 1 .. Len(s) : t[i] = s[i] /\ s[i] \in Packet
  OBVIOUS
<1>2. ASSUME NEW n \in 0 .. Len(s) PROVE Bytes(t, n) = Bytes(s, n)
  <2>1. \A i \in 1 .. n : Write(t[i]) = Write(s[i])
    BY <1>1
  <2> HIDE DEF t
  <2>2. [i \in 1 .. n |-> Write(t[i])] = [i \in 1 .. n |-> Write(s[i])]
    BY <2>1, Zenon
  <2> QED BY <2>2, Zenon DEF Bytes
<1>3. \A i \in 1 .. Len(s) + 1 : t[i] \in Packet
  BY <1>1
<1> HIDE DEF t
<1>4. \A i \in 1 .. Len(s) + 1 : e[i] \in Seq(Byte)
  BY <1>3, PacketIs
<1>5. ASSUME NEW n \in 0 .. Len(s) + 1 PROVE First(e, n) = Bytes(t, n)
  <2>1. \A i \in 1 .. n : e[i] = Write(t[i])
    BY <1>1
  <2>2. [i \in 1 .. n |-> e[i]] = [i \in 1 .. n |-> Write(t[i])]
    BY <2>1, Zenon
  <2> QED BY <2>2, Zenon DEF First, Bytes
<1>6. e[Len(s) + 1] = Write(p)
  BY <1>1
<1> HIDE DEF e
<1>7. /\ First(e, Len(s)) \in Seq(Byte)
      /\ First(e, Len(s) + 1) = First(e, Len(s)) \o e[Len(s) + 1]
  BY <1>1, <1>4, FirstMore
<1>8. /\ First(e, Len(s)) = Bytes(s, Len(s))
      /\ First(e, Len(s) + 1) = Bytes(t, Len(s) + 1)
  BY <1>1, <1>2, <1>5
<1> QED BY <1>2, <1>6, <1>7, <1>8, Zenon DEF t

-----------------------------------------------------------------------------
(* What is on its way.                                                     *)

\* The bytes from t on, when the first r of them are taken.
LEMMA Suffix ==
  ASSUME NEW all \in Seq(Byte), NEW t \in Nat, NEW s, s = SubSeq(all, t + 1, Len(all))
  PROVE  /\ s \in Seq(Byte)
         /\ t <= Len(all) => Len(s) = Len(all) - t
         /\ t >= Len(all) => s = <<>>
         /\ s # <<>> => /\ Head(s) = all[t + 1]
                        /\ Tail(s) = SubSeq(all, (t + 1) + 1, Len(all))
         /\ \A r \in Nat :
              t + r <= Len(all) =>
                /\ SubSeq(s, r + 1, Len(s)) = SubSeq(all, (t + r) + 1, Len(all))
                /\ SubSeq(s, 1, r) \in Seq(Byte) /\ Len(SubSeq(s, 1, r)) = r
                /\ \A i \in 1 .. r : SubSeq(s, 1, r)[i] = all[t + i]
<1>0. Len(all) \in Nat
  OBVIOUS
<1>1. s \in Seq(Byte) /\ (t >= Len(all) => s = <<>>)
  OBVIOUS
<1>2. t <= Len(all) => /\ Len(s) = Len(all) - t
                       /\ \A i \in 1 .. Len(all) - t : s[i] = all[t + i]
  OBVIOUS
<1>3. ASSUME s # <<>>
      PROVE  Head(s) = all[t + 1] /\ Tail(s) = SubSeq(all, (t + 1) + 1, Len(all))
  <2>1. t < Len(all)
    BY <1>0, <1>1, <1>3
  <2>2. Head(s) = all[t + 1]
    BY <2>1
  <2>3. Tail(s) = SubSeq(all, (t + 1) + 1, Len(all))
    BY <2>1
  <2> QED BY <2>2, <2>3
<1>4. ASSUME NEW r \in Nat, t + r <= Len(all)
      PROVE  /\ SubSeq(s, r + 1, Len(s)) = SubSeq(all, (t + r) + 1, Len(all))
             /\ SubSeq(s, 1, r) \in Seq(Byte) /\ Len(SubSeq(s, 1, r)) = r
             /\ \A i \in 1 .. r : SubSeq(s, 1, r)[i] = all[t + i]
  <2>1. t <= Len(all) /\ r <= Len(all) - t
    BY <1>0, <1>4
  <2>2. Len(s) = Len(all) - t /\ \A i \in 1 .. Len(all) - t : s[i] = all[t + i]
    BY <1>2, <2>1
  <2>3. /\ SubSeq(s, 1, r) \in Seq(Byte) /\ Len(SubSeq(s, 1, r)) = r
        /\ \A i \in 1 .. r : SubSeq(s, 1, r)[i] = s[i]
    BY <1>1, <2>1, <2>2
  <2>4. \A i \in 1 .. r : s[i] = all[t + i]
    BY <1>0, <2>1, <2>2
  <2>5. SubSeq(s, r + 1, Len(s)) = SubSeq(all, (t + r) + 1, Len(all))
    BY <1>0, <1>1, <1>4, <2>1, <2>2
  <2> QED BY <2>3, <2>4, <2>5
<1> QED BY <1>1, <1>2, <1>3, <1>4

\* More bytes at the end.
LEMMA Longer ==
  ASSUME NEW all \in Seq(Byte), NEW w \in Seq(Byte), NEW t \in Nat, t <= Len(all)
  PROVE  SubSeq(all, t + 1, Len(all)) \o w
           = SubSeq(all \o w, t + 1, Len(all \o w))
<1> DEFINE s == SubSeq(all, t + 1, Len(all))
           both == all \o w
           u == SubSeq(both, t + 1, Len(both))
<1>1. /\ Len(all) \in Nat /\ Len(w) \in Nat
      /\ both \in Seq(Byte) /\ Len(both) = Len(all) + Len(w)
      /\ \A i \in 1 .. Len(all) : both[i] = all[i]
      /\ \A i \in 1 .. Len(w) : both[Len(all) + i] = w[i]
  OBVIOUS
<1>2. /\ s \in Seq(Byte) /\ Len(s) = Len(all) - t
      /\ \A i \in 1 .. Len(all) - t : s[i] = all[t + i]
  OBVIOUS
<1>3. /\ u \in Seq(Byte) /\ Len(u) = Len(both) - t
      /\ \A i \in 1 .. Len(both) - t : u[i] = both[t + i]
  <2> HIDE DEF both
  <2> QED BY <1>1
<1> HIDE DEF s, both, u
<1>4. /\ s \o w \in Seq(Byte) /\ Len(s \o w) = Len(u)
      /\ \A i \in 1 .. Len(s) : (s \o w)[i] = s[i]
      /\ \A i \in 1 .. Len(w) : (s \o w)[Len(s) + i] = w[i]
  <2>1. s \in Seq(Byte)
    BY <1>2
  <2>2. /\ s \o w \in Seq(Byte) /\ Len(s \o w) = Len(s) + Len(w)
        /\ \A i \in 1 .. Len(s) : (s \o w)[i] = s[i]
        /\ \A i \in 1 .. Len(w) : (s \o w)[Len(s) + i] = w[i]
    BY <2>1
  <2>3. Len(s) + Len(w) = Len(u)
    BY <1>1, <1>2, <1>3
  <2> QED BY <2>2, <2>3, Zenon
<1>5. ASSUME NEW i \in 1 .. Len(u) PROVE (s \o w)[i] = u[i]
  <2>1. CASE i <= Len(all) - t
    <3>1. i \in 1 .. Len(s) /\ t + i \in 1 .. Len(all) /\ i \in 1 .. Len(both) - t
      BY <1>1, <1>2, <1>3, <2>1
    <3> QED BY <1>1, <1>2, <1>3, <1>4, <3>1
  <2>2. CASE i > Len(all) - t
    <3> DEFINE k == i - (Len(all) - t)
    <3>1. /\ k \in 1 .. Len(w) /\ i = Len(s) + k /\ t + i = Len(all) + k
          /\ i \in 1 .. Len(both) - t
      BY <1>1, <1>2, <1>3, <2>2
    <3> HIDE DEF k
    <3>2. (s \o w)[i] = w[k] /\ u[i] = both[t + i] /\ both[t + i] = w[k]
      BY <1>1, <1>3, <1>4, <3>1, Zenon
    <3> QED BY <3>2
  <2>3. i <= Len(all) - t \/ i > Len(all) - t
    <3>1. Len(all) - t \in Nat /\ i \in Nat
      BY <1>1, <1>3
    <3> QED BY <3>1
  <2> QED BY <2>1, <2>2, <2>3, Zenon
<1>6. s \o w = u
  <2> DEFINE v == s \o w
  <2>1. v \in Seq(Byte) /\ Len(v) = Len(u) /\ \A i \in 1 .. Len(u) : v[i] = u[i]
    BY <1>4, <1>5
  <2> HIDE DEF v
  <2>2. v = u
    BY <1>3, <2>1
  <2> QED BY <2>2 DEF v
<1> QED BY <1>6 DEF s, u, both

\* One digit more.
LEMMA OneDigit ==
  ASSUME NEW d \in Seq(Byte), NEW n \in Nat, n < Len(d), NEW s, s = SubSeq(d, 1, n)
  PROVE  Append(s, d[n + 1]) = SubSeq(d, 1, n + 1)
OBVIOUS

-----------------------------------------------------------------------------
(* What the invariant says of the state.                                   *)

\* The types.
LEMMA Types ==
  ASSUME Inv
  PROVE  /\ sent \in Seq(Packet) /\ Len(sent) \in Nat /\ Len(got) \in Nat
         /\ Len(got) <= Len(sent) /\ stream \in Seq(Byte) /\ digits \in Seq(Byte)
         /\ Len(digits) \in Nat /\ header \in Byte /\ lost \in BOOLEAN
         /\ (Ended => lost)
BY DEF Inv, TypeOK, Faithful

\* The packet that is being read, and where its bytes are.
LEMMA InPacket ==
  ASSUME Inv, Len(got) < Len(sent)
  PROVE  LET at == Len(Bytes(sent, Len(got)))
             p == Current
         IN /\ p \in Packet /\ All \in Seq(Byte) /\ at \in Nat
            /\ at + Len(Write(p)) <= Len(All)
            /\ Len(Bytes(sent, Len(got) + 1)) = at + Len(Write(p))
            /\ \A i \in 1 .. Len(Write(p)) : All[at + i] = Write(p)[i]
<1>1. sent \in Seq(Packet) /\ Len(got) \in 0 .. Len(sent) - 1
  BY Types
<1>2. Current \in Packet
  BY <1>1 DEF Current
<1> QED BY <1>1, <1>2, Position, Zenon DEF All, Current

\* What has been taken is of the packets that were written.
LEMMA TakenIs ==
  ASSUME Inv, phase \in {"type", "length", "body"}, ~AtEnd
  PROVE  /\ All \in Seq(Byte) /\ Taken \in Nat /\ Taken <= Len(All)
         /\ stream = SubSeq(All, Taken + 1, Len(All))
<1>1. stream = SubSeq(All, Taken + 1, Len(All))
  BY DEF Inv, Flow
<1>2. CASE Len(got) < Len(sent)
  <2> DEFINE at == Len(Bytes(sent, Len(got)))  p == Current
  <2>1. /\ p \in Packet /\ All \in Seq(Byte) /\ at \in Nat
        /\ at + Len(Write(p)) <= Len(All)
    BY <1>2, InPacket, Zenon
  <2>2. /\ Len(Write(p)) = 1 + Len(Digits(p)) + Len(Body(p.head, p.body))
        /\ Len(Digits(p)) \in Nat /\ Len(Digits(p)) > 0
        /\ Len(Body(p.head, p.body)) \in Nat
    <3> HIDE DEF p
    <3>1. /\ Digits(p) \in Seq(Byte) /\ Digits(p) # <<>>
          /\ Body(p.head, p.body) \in Seq(Byte)
          /\ Len(Write(p)) = 1 + Len(Digits(p)) + Len(Body(p.head, p.body))
      BY <2>1, PacketIs, Zenon
    <3> QED BY <3>1
  <2>3. phase \in {"length", "body"} => Len(digits) <= Len(Digits(p))
    <3>1. phase \in {"length", "body"} =>
            IF phase = "body" THEN Len(digits) = Len(Digits(Current))
                              ELSE Len(digits) < Len(Digits(Current))
      BY DEF Inv, Within
    <3> QED BY <2>2, <3>1, Types
  <2>4. Len(digits) \in Nat /\ Len(All) \in Nat
    BY <2>1, Types
  <2>5. Taken = at + IF phase \in {"length", "body"} THEN 1 + Len(digits) ELSE 0
    BY DEF Taken
  <2> HIDE DEF at, p
  <2>6. Taken \in Nat /\ Taken <= Len(All)
    BY <2>1, <2>2, <2>3, <2>4, <2>5
  <2> QED BY <1>1, <2>1, <2>6
<1>3. CASE ~(Len(got) < Len(sent))
  <2>1. Len(got) = Len(sent) /\ phase = "type"
    BY <1>3, Types DEF Inv, Within
  <2>2. Taken = Len(All) + 0
    BY <2>1 DEF Taken, All
  <2>3. All \in Seq(Byte)
    <3>1. CASE Len(sent) = 0
      <4>1. All = <<>>
        BY <3>1, FirstNone DEF All, Bytes, First
      <4> QED BY <4>1
    <3>2. CASE Len(sent) # 0
      <4>1. sent \in Seq(Packet) /\ Len(sent) - 1 \in 0 .. Len(sent) - 1
        BY <3>2, Types
      <4> QED BY <4>1, Position DEF All
    <3> QED BY <3>1, <3>2
  <2> QED BY <1>1, <2>2, <2>3
<1> QED BY <1>2, <1>3

\* While more can be read, what has been read is what was written.
LEMMA GotIsSent ==
  ASSUME Inv, ~AtEnd \/ phase \notin {"type", "over", "panic"}
  PROVE  \A i \in DOMAIN got : got[i] = sent[i]
BY DEF Inv, Faithful

-----------------------------------------------------------------------------
(* The invariant holds at first and after every step.                      *)

\* Nothing is written, read or lost at first.
LEMMA InitInv == ASSUME Init PROVE Inv
<1>1. TypeOK
  <2>1. 0 \in Byte /\ FALSE \in BOOLEAN /\ Len(<<>>) <= MaxSent
    BY SentAssumption DEF Byte
  <2>2. \A S : <<>> \in Seq(S)
    OBVIOUS
  <2>3. \A i \in DOMAIN digits : FALSE
    BY DEF Init
  <2> QED BY <2>1, <2>2, <2>3 DEF Init, TypeOK, Ended
<1>2. OddEnds /\ Within
  BY DEF Init, OddEnds, Within
<1>3. Faithful
  BY DEF Init, Faithful
<1>4. Flow
  <2>1. Bytes(sent, 0) = <<>>
    BY FirstNone DEF Bytes, First
  <2>2. All = <<>> /\ Taken = 0
    BY <2>1 DEF Init, All, Taken
  <2> QED BY <2>2 DEF Init, Flow
<1> QED BY <1>1, <1>2, <1>3, <1>4 DEF Inv

\* A packet is written: its bytes follow those on their way.
LEMMA WriteInv ==
  ASSUME Inv, NEW p \in Packet, WritePacket(p)
  PROVE  Inv'
<1>1. /\ ~lost /\ Len(sent) < MaxSent /\ sent' = Append(sent, p)
      /\ stream' = stream \o Write(p)
      /\ lost' = lost /\ phase' = phase /\ header' = header
      /\ digits' = digits /\ got' = got
  BY DEF WritePacket
<1>2. ~AtEnd /\ ~AtEnd' /\ phase \in {"type", "length", "body"}
  BY <1>1 DEF AtEnd, Inv, TypeOK, Ended
<1>3. /\ sent' \in Seq(Packet) /\ Len(sent') = Len(sent) + 1
      /\ \A i \in 1 .. Len(sent) : sent'[i] = sent[i]
  BY <1>1, Types
<1>4. Write(p) \in Seq(Byte)
  BY PacketIs, Zenon
<1>5. TypeOK'
  <2>1. TypeOK
    BY DEF Inv
  <2>2. Len(sent') <= MaxSent
    BY <1>1, <1>3, SentAssumption, Types
  <2>3. stream' \in Seq(Byte)
    BY <1>1, <1>4, Types, Joined
  <2> QED BY <1>1, <1>3, <2>1, <2>2, <2>3 DEF TypeOK, Ended
<1>6. OddEnds'
  BY <1>1, <1>2 DEF OddEnds, Long
<1>7. Flow'
  <2>1. /\ All \in Seq(Byte) /\ Taken \in Nat /\ Taken <= Len(All)
        /\ stream = SubSeq(All, Taken + 1, Len(All))
    BY <1>2, TakenIs, Zenon
  <2>2. /\ \A n \in 0 .. Len(sent) : Bytes(sent', n) = Bytes(sent, n)
        /\ Bytes(sent', Len(sent')) = All \o Write(p)
    BY <1>1, <1>3, OneMore, Types DEF All
  <2>3. All' = All \o Write(p)
    BY <2>2 DEF All
  <2>4. Taken' = Taken
    <3>1. Bytes(sent', Len(got)) = Bytes(sent, Len(got))
      BY <2>2, Types
    <3> QED BY <1>1, <3>1 DEF Taken
  <2>5. stream' = SubSeq(All \o Write(p), Taken + 1, Len(All \o Write(p)))
    <3>1. SubSeq(All, Taken + 1, Len(All)) \o Write(p)
            = SubSeq(All \o Write(p), Taken + 1, Len(All \o Write(p)))
      BY <1>4, <2>1, Longer, Zenon
    <3> QED BY <1>1, <2>1, <3>1, Zenon
  <2> QED BY <2>3, <2>4, <2>5, Zenon DEF Flow
<1>8. Within'
  <2>1. SUFFICES ASSUME phase \in {"length", "body"} PROVE Within'
    BY <1>1, <1>2 DEF Within
  <2>2. Within
    BY DEF Inv
  <2>3. Len(got) < Len(sent)
    BY <2>1, <2>2 DEF Within
  <2>4. Len(got)' = Len(got) /\ Len(got') < Len(sent') /\ Current' = Current
    BY <1>1, <1>3, <2>3, Types DEF Current
  <2> QED BY <1>1, <1>2, <2>1, <2>2, <2>4 DEF Within
<1>9. Faithful'
  <2>1. \A i \in DOMAIN got : got[i] = sent[i]
    BY <1>2, GotIsSent
  <2>2. DOMAIN got = 1 .. Len(got)
    BY DEF Inv, TypeOK
  <2>3. \A i \in DOMAIN got : sent'[i] = sent[i]
    BY <1>3, <2>2, Types
  <2> QED BY <1>1, <1>3, <2>1, <2>3, Types DEF Faithful
<1> QED BY <1>5, <1>6, <1>7, <1>8, <1>9 DEF Inv

\* The connection is lost.
LEMMA LoseInv ==
  ASSUME Inv, LoseConnection
  PROVE  Inv'
<1>1. /\ ~lost /\ lost' = TRUE /\ stream' \in {<<>>, stream}
      /\ sent' = sent /\ phase' = phase /\ header' = header
      /\ digits' = digits /\ got' = got
  BY DEF LoseConnection
<1>2. ~AtEnd /\ phase \in {"type", "length", "body"}
  BY <1>1 DEF AtEnd, Inv, TypeOK, Ended
<1>3. TypeOK'
  <2>1. stream' \in Seq(Byte)
    <3>1. stream \in Seq(Byte) /\ <<>> \in Seq(Byte)
      BY Types
    <3> QED BY <1>1, <3>1, Zenon
  <2> QED BY <1>1, <2>1 DEF Inv, TypeOK, Ended
<1>4. OddEnds'
  BY <1>1, <1>2 DEF OddEnds, Long
<1>5. Flow'
  <2>1. stream = SubSeq(All, Taken + 1, Len(All))
    BY <1>2, TakenIs, Zenon
  <2>2. All' = All /\ Taken' = Taken
    BY <1>1 DEF All, Taken
  <2> QED BY <1>1, <2>1, <2>2 DEF Flow, AtEnd
<1>6. Within'
  <2>1. Current' = Current
    BY <1>1 DEF Current
  <2> QED BY <1>1, <1>2, <2>1 DEF Inv, Within
<1>7. Faithful'
  <2>1. \A i \in DOMAIN got : got[i] = sent[i]
    BY <1>2, GotIsSent
  <2> QED BY <1>1, <2>1, Types DEF Faithful
<1> QED BY <1>3, <1>4, <1>5, <1>6, <1>7 DEF Inv

\* A step of the reader leaves the packets alone.
LEMMA Same == ASSUME sent' = sent, got' = got PROVE Current' = Current /\ All' = All
BY DEF Current, All

\* The first byte of a packet is read.
LEMMA ReadTypeInv ==
  ASSUME Inv, ReadType
  PROVE  Inv'
<1>1. /\ phase = "type" /\ stream # <<>> /\ header' = Head(stream)
      /\ stream' = Tail(stream) /\ digits' = <<>> /\ phase' = "length"
      /\ sent' = sent /\ lost' = lost /\ got' = got
  BY DEF ReadType
<1>2. ~AtEnd
  BY <1>1 DEF AtEnd
<1>3. Current' = Current /\ All' = All
  BY <1>1, Same, Zenon
<1>4. /\ All \in Seq(Byte) /\ Taken \in Nat /\ Taken <= Len(All)
      /\ stream = SubSeq(All, Taken + 1, Len(All))
  BY <1>1, <1>2, TakenIs
<1>5. Taken = Len(Bytes(sent, Len(got))) + 0
  BY <1>1 DEF Taken
<1>6. /\ Head(stream) = All[Taken + 1]
      /\ Tail(stream) = SubSeq(All, (Taken + 1) + 1, Len(All))
      /\ ~(Taken >= Len(All))
  BY <1>1, <1>4, Suffix
<1>7. Len(got) < Len(sent)
  <2>1. SUFFICES ASSUME ~(Len(got) < Len(sent)) PROVE FALSE
    OBVIOUS
  <2>2. Len(got) = Len(sent)
    BY <2>1, Types
  <2>3. Taken = Len(All) + 0 /\ Len(All) \in Nat
    BY <1>4, <1>5, <2>2 DEF All
  <2> QED BY <1>6, <2>3
<1> DEFINE at == Len(Bytes(sent, Len(got)))
           p == Current
<1>8. /\ p \in Packet /\ at \in Nat
      /\ \A i \in 1 .. Len(Write(p)) : All[at + i] = Write(p)[i]
  BY <1>7, InPacket, Zenon
<1>9. /\ Digits(p) \in Seq(Byte) /\ Digits(p) # <<>>
      /\ Body(p.head, p.body) \in Seq(Byte)
      /\ Len(Write(p)) = 1 + Len(Digits(p)) + Len(Body(p.head, p.body))
      /\ Write(p)[1] = typeAndFlags(p.head) /\ typeAndFlags(p.head) \in Byte
  BY <1>8, PacketIs, Zenon
<1> HIDE DEF at, p
<1>10. Head(stream) = typeAndFlags(p.head)
  <2>1. 1 \in 1 .. Len(Write(p))
    <3>1. Len(Digits(p)) \in Nat /\ Len(Body(p.head, p.body)) \in Nat
      BY <1>9
    <3> QED BY <1>9, <3>1
  <2>2. Taken = at + 0
    BY <1>5 DEF at
  <2>3. Taken + 1 = at + 1
    BY <1>8, <2>2
  <2> QED BY <1>6, <1>8, <1>9, <2>1, <2>3
<1>11. TypeOK'
  <2>1. TypeOK /\ Head(stream) \in Byte /\ Tail(stream) \in Seq(Byte)
    BY <1>1, <1>9, <1>10 DEF Inv, TypeOK
  <2> QED BY <1>1, <2>1 DEF TypeOK, Ended
<1>12. OddEnds'
  BY <1>1 DEF OddEnds, Long
<1>13. Flow'
  <2>1. Taken' = at + (1 + Len(<<>>))
    BY <1>1 DEF Taken, at
  <2>2. Taken' = Taken + 1
    <3>1. Len(<<>>) = 0
      OBVIOUS
    <3> QED BY <1>5, <1>8, <2>1, <3>1 DEF at
  <2> QED BY <1>1, <1>3, <1>6, <2>2 DEF Flow
<1>14. Within'
  <2>1. digits' = SubSeq(Digits(p), 1, Len(digits')) /\ Len(digits') < Len(Digits(p))
    BY <1>1, <1>9
  <2> QED BY <1>1, <1>3, <1>7, <1>10, <2>1 DEF Within, p
<1>15. Faithful'
  <2>1. \A i \in DOMAIN got : got[i] = sent[i]
    BY <1>2, GotIsSent
  <2> QED BY <1>1, <2>1, Types DEF Faithful
<1> QED BY <1>11, <1>12, <1>13, <1>14, <1>15 DEF Inv

\* There is no packet any more.
LEMMA NoTypeInv ==
  ASSUME Inv, NoType
  PROVE  Inv'
<1>1. /\ phase = "type" /\ lost /\ stream = <<>> /\ phase' = "over"
      /\ sent' = sent /\ stream' = stream /\ lost' = lost
      /\ header' = header /\ digits' = digits /\ got' = got
  BY DEF NoType, AtEnd
<1>2. TypeOK'
  BY <1>1 DEF Inv, TypeOK, Ended
<1>3. OddEnds' /\ Flow' /\ Within'
  BY <1>1 DEF OddEnds, Long, Flow, Within
<1>4. Faithful'
  BY <1>1 DEF Inv, Faithful, AtEnd
<1> QED BY <1>2, <1>3, <1>4 DEF Inv

\* A digit of the length is read.
LEMMA ReadDigitInv ==
  ASSUME Inv, ReadDigit
  PROVE  Inv'
<1>1. /\ phase = "length" /\ stream # <<>>
      /\ digits' = Append(digits, Head(stream)) /\ stream' = Tail(stream)
      /\ phase' = IF EndsLength(Head(stream)) THEN "body" ELSE "length"
      /\ sent' = sent /\ lost' = lost /\ header' = header /\ got' = got
  BY DEF ReadDigit
<1>2. ~AtEnd /\ phase' \in {"body", "length"}
  BY <1>1 DEF AtEnd
<1>3. Current' = Current /\ All' = All
  BY <1>1, Same, Zenon
<1>4. /\ All \in Seq(Byte) /\ Taken \in Nat
      /\ stream = SubSeq(All, Taken + 1, Len(All))
  BY <1>1, <1>2, TakenIs
<1> DEFINE at == Len(Bytes(sent, Len(got)))
           p == Current
           n == Len(digits)
<1>5. Taken = at + (1 + n)
  BY <1>1 DEF Taken
<1>6. /\ Head(stream) = All[Taken + 1]
      /\ Tail(stream) = SubSeq(All, (Taken + 1) + 1, Len(All))
  BY <1>1, <1>4, Suffix
<1>7. /\ Len(got) < Len(sent) /\ header = typeAndFlags(p.head)
      /\ digits = SubSeq(Digits(p), 1, n) /\ n < Len(Digits(p))
  BY <1>1 DEF Inv, Within
<1>8. /\ p \in Packet /\ at \in Nat
      /\ \A i \in 1 .. Len(Write(p)) : All[at + i] = Write(p)[i]
  BY <1>7, InPacket, Zenon
<1>9. /\ Digits(p) \in Seq(Byte) /\ Digits(p) # <<>>
      /\ Body(p.head, p.body) \in Seq(Byte)
      /\ Len(Write(p)) = 1 + Len(Digits(p)) + Len(Body(p.head, p.body))
      /\ \A i \in 1 .. Len(Digits(p)) : Write(p)[1 + i] = Digits(p)[i]
      /\ \A i \in 1 .. Len(Digits(p)) : Digits(p)[i] < 128 <=> i = Len(Digits(p))
  BY <1>8, PacketIs, Zenon
<1>10. n \in Nat /\ digits \in Seq(Byte)
  BY Types
<1> HIDE DEF at, p, n
<1>11. Head(stream) = Digits(p)[n + 1] /\ n + 1 \in 1 .. Len(Digits(p))
  <2>1. Len(Digits(p)) \in Nat /\ Len(Body(p.head, p.body)) \in Nat
    BY <1>9
  <2>2. n + 1 \in 1 .. Len(Digits(p)) /\ 1 + (n + 1) \in 1 .. Len(Write(p))
    BY <1>7, <1>9, <1>10, <2>1
  <2>3. Taken + 1 = at + (1 + (n + 1))
    BY <1>5, <1>8, <1>10
  <2>4. All[at + (1 + (n + 1))] = Write(p)[1 + (n + 1)]
    BY <1>8, <2>2, Zenon
  <2> QED BY <1>6, <1>9, <2>2, <2>3, <2>4, Zenon
<1>12. Head(stream) \in Byte /\ (Head(stream) < 128 <=> n + 1 = Len(Digits(p)))
  BY <1>9, <1>11
<1>13. digits' = SubSeq(Digits(p), 1, n + 1) /\ Len(digits') = n + 1
  <2>1. digits' = SubSeq(Digits(p), 1, n + 1)
    BY <1>1, <1>7, <1>9, <1>10, <1>11, OneDigit
  <2>2. Len(digits') = n + 1
    BY <1>1, <1>10 DEF n
  <2> QED BY <2>1, <2>2
<1>14. TypeOK'
  <2>1. TypeOK
    BY DEF Inv
  <2>2. stream' \in Seq(Byte) /\ digits' \in Seq(Byte)
    <3>1. Tail(stream) \in Seq(Byte)
      BY <1>1, Types
    <3>2. Append(digits, Head(stream)) \in Seq(Byte)
      BY <1>10, <1>12
    <3> QED BY <1>1, <3>1, <3>2
  <2>3. /\ DOMAIN digits' = 1 .. n + 1 /\ digits'[n + 1] = Head(stream)
        /\ \A i \in 1 .. n : digits'[i] = digits[i] /\ i \in DOMAIN digits
    BY <1>1, <1>10 DEF n
  <2>4. \A i \in 1 .. n : ~(digits[i] < 128)
    BY <1>1, <2>1, <2>3 DEF TypeOK
  <2>5. ASSUME NEW i \in DOMAIN digits', digits'[i] < 128
        PROVE  i = Len(digits') /\ phase' # "length"
    <3>1. i = n + 1
      <4>1. i \in 1 .. n \/ i = n + 1
        BY <1>10, <2>3
      <4>2. i \notin 1 .. n
        BY <2>3, <2>4, <2>5
      <4> QED BY <4>1, <4>2
    <3> QED BY <1>1, <1>13, <2>3, <2>5, <3>1 DEF EndsLength
  <2>6. phase' = "body" => digits' # <<>> /\ Last(digits') < 128
    <3>1. digits' # <<>> /\ Last(digits') = Head(stream)
      <4>1. Last(digits') = digits'[n + 1]
        BY <1>13, Zenon DEF Last
      <4>2. n + 1 \in DOMAIN digits' /\ DOMAIN <<>> = {}
        BY <1>10, <2>3
      <4> QED BY <2>3, <4>1, <4>2, Zenon
    <3> QED BY <1>1, <3>1 DEF EndsLength
  <2> QED BY <1>1, <1>2, <2>1, <2>2, <2>5, <2>6 DEF TypeOK, Ended
<1>15. OddEnds'
  BY <1>2 DEF OddEnds, Long
<1>16. Flow'
  <2>1. Taken' = at + (1 + Len(digits'))
    BY <1>1, <1>2 DEF Taken, at
  <2>2. Taken' = Taken + 1
    BY <1>5, <1>8, <1>10, <1>13, <2>1
  <2> QED BY <1>1, <1>3, <1>6, <2>2 DEF Flow
<1>17. Within'
  <2>1. /\ digits' = SubSeq(Digits(p), 1, Len(digits'))
        /\ IF phase' = "body" THEN Len(digits') = Len(Digits(p))
                              ELSE Len(digits') < Len(Digits(p))
    <3>1. phase' = "body" <=> n + 1 = Len(Digits(p))
      BY <1>1, <1>12 DEF EndsLength
    <3>2. n + 1 # Len(Digits(p)) => n + 1 < Len(Digits(p))
      <4>1. Len(Digits(p)) \in Nat
        BY <1>9
      <4> QED BY <1>7, <1>10, <4>1
    <3> QED BY <1>13, <3>1, <3>2
  <2> QED BY <1>1, <1>2, <1>3, <1>7, <2>1 DEF Within, p
<1>18. Faithful'
  <2>1. \A i \in DOMAIN got : got[i] = sent[i]
    BY <1>2, GotIsSent
  <2> QED BY <1>1, <2>1, Types DEF Faithful
<1> QED BY <1>14, <1>15, <1>16, <1>17, <1>18 DEF Inv

\* The digit it waits for does not come: an empty length, or no end.
LEMMA NoDigitInv ==
  ASSUME Inv, NoDigit
  PROVE  Inv'
<1>1. /\ phase = "length" /\ AtEnd /\ sent' = sent /\ stream' = stream
      /\ lost' = lost /\ header' = header /\ got' = got
      /\ \/ digits = <<>> /\ digits' = <<0>> /\ phase' = "body"
         \/ digits # <<>> /\ digits' = digits /\ phase' = "spin"
  BY DEF NoDigit
<1>2. AtEnd' /\ lost' /\ Current' = Current
  BY <1>1, Same DEF AtEnd
<1>3. /\ Len(got) < Len(sent) /\ header = typeAndFlags(Current.head)
      /\ digits = SubSeq(Digits(Current), 1, Len(digits))
      /\ Len(digits) < Len(Digits(Current))
  BY <1>1 DEF Inv, Within
<1>4. TypeOK'
  <2>1. TypeOK
    BY DEF Inv
  <2>2. CASE digits = <<>> /\ digits' = <<0>> /\ phase' = "body"
    <3>1. /\ <<0>> \in Seq(Byte) /\ Len(<<0>>) = 1 /\ DOMAIN <<0>> = {1}
          /\ <<0>> # <<>> /\ Last(<<0>>) < 128
      BY DEF Byte, Last
    <3> QED BY <1>1, <1>2, <2>1, <2>2, <3>1 DEF TypeOK, Ended
  <2>3. CASE digits # <<>> /\ digits' = digits /\ phase' = "spin"
    BY <1>1, <1>2, <2>1, <2>3 DEF TypeOK, Ended
  <2> QED BY <1>1, <2>2, <2>3
<1>5. OddEnds'
  <2>1. SUFFICES ASSUME phase' = "spin"
        PROVE  Len(got) < Len(sent) /\ Long(Current)
    BY <1>1, <1>2 DEF OddEnds, Long
  <2>2. Current \in Packet
    BY <1>3, InPacket, Zenon
  <2> DEFINE p == Current
  <2>3. /\ Digits(p) \in Seq(Byte) /\ Body(p.head, p.body) \in Seq(Byte)
        /\ Len(Digits(p)) > 1 => Len(Body(p.head, p.body)) >= 128
        /\ Len(Write(p)) = 1 + Len(Digits(p)) + Len(Body(p.head, p.body))
    BY <2>2, PacketIs, Zenon
  <2>4. Len(digits) \in Nat /\ Len(digits) > 0
    BY <1>1, <2>1, Types
  <2>5. Len(Digits(p)) \in Nat /\ Len(Body(p.head, p.body)) \in Nat
    BY <2>3
  <2>6. Len(digits) < Len(Digits(p))
    BY <1>3
  <2> HIDE DEF p
  <2>7. Len(Write(p)) > 128 + 2
    BY <2>3, <2>4, <2>5, <2>6
  <2> QED BY <1>3, <2>7 DEF p, Long
<1>6. Flow'
  BY <1>2 DEF Flow
<1>7. Within'
  BY <1>1, <1>2, <1>3 DEF Within
<1>8. Faithful'
  <2>1. \A i \in DOMAIN got : got[i] = sent[i]
    BY <1>1, GotIsSent
  <2> QED BY <1>1, <2>1, Types DEF Faithful
<1> QED BY <1>4, <1>5, <1>6, <1>7, <1>8 DEF Inv

\* The body does not come.
LEMMA NoBodyInv ==
  ASSUME Inv, NoBody
  PROVE  Inv'
<1>1. /\ phase = "body" /\ lost /\ phase' = "over"
      /\ sent' = sent /\ stream' = stream /\ lost' = lost
      /\ header' = header /\ digits' = digits /\ got' = got
  BY DEF NoBody
<1>2. TypeOK'
  BY <1>1 DEF Inv, TypeOK, Ended
<1>3. OddEnds' /\ Flow' /\ Within'
  BY <1>1 DEF OddEnds, Long, Flow, Within
<1>4. Faithful'
  <2>1. \A i \in DOMAIN got : got[i] = sent[i]
    BY <1>1, GotIsSent
  <2> QED BY <1>1, <2>1, Types DEF Faithful
<1> QED BY <1>2, <1>3, <1>4 DEF Inv

\* The packet as it was written is read.
ReadsWhole ==
  /\ got' = Append(got, Current) /\ phase' = "type"
  /\ stream' = SubSeq(All, Len(Bytes(sent, Len(got) + 1)) + 1, Len(All)) \/ AtEnd'

\* The loss gave it an empty length, so nothing of it is read.
ReadsNothing ==
  /\ AtEnd /\ AtEnd'
  /\ \/ got' = got /\ phase' = "panic" /\ Current.head.type = "PUBLISH"
     \/ /\ got' = Append(got, EmptyOf(Current))
        /\ phase' = IF ReceivePanics(EmptyOf(Current)) THEN "panic" ELSE "type"

\* Reading a body does the one or the other.
LEMMA WhatIsRead ==
  ASSUME Inv, ReadBody
  PROVE  /\ phase = "body" /\ Len(got) < Len(sent) /\ Current \in Packet
         /\ sent' = sent /\ lost' = lost /\ header' = header /\ digits' = digits
         /\ stream' \in Seq(Byte)
         /\ ReadsWhole \/ ReadsNothing
<1> DEFINE at == Len(Bytes(sent, Len(got)))
           p == Current
           R == RemainingLength
           h == unpack(header)
           read == SubSeq(stream, 1, R)
           b == Body(p.head, p.body)
<1>1. /\ phase = "body" /\ Len(stream) >= R
      /\ stream' = SubSeq(stream, R + 1, Len(stream))
      /\ sent' = sent /\ lost' = lost /\ header' = header /\ digits' = digits
      /\ IF UnpackPanics(h, read)
           THEN phase' = "panic" /\ got' = got
           ELSE /\ got' = Append(got, Unpack(h, read))
                /\ phase' = IF ReceivePanics(Unpack(h, read)) THEN "panic" ELSE "type"
  BY Zenon DEF ReadBody
<1>2. /\ Len(got) < Len(sent) /\ header = typeAndFlags(p.head)
      /\ \/ /\ digits = SubSeq(Digits(p), 1, Len(digits))
            /\ Len(digits) = Len(Digits(p))
         \/ digits = <<0>> /\ AtEnd
  BY <1>1 DEF Inv, Within
<1>3. /\ p \in Packet /\ All \in Seq(Byte) /\ at \in Nat
      /\ at + Len(Write(p)) <= Len(All)
      /\ Len(Bytes(sent, Len(got) + 1)) = at + Len(Write(p))
      /\ \A i \in 1 .. Len(Write(p)) : All[at + i] = Write(p)[i]
  BY <1>2, InPacket, Zenon
<1>4. /\ unpack(typeAndFlags(p.head)) = p.head
      /\ b \in Seq(Byte) /\ Unpack(p.head, b) = p /\ ~UnpackPanics(p.head, b)
      /\ Digits(p) \in Seq(Byte) /\ decodeLength(Digits(p)) = Len(b)
      /\ Len(Write(p)) = 1 + Len(Digits(p)) + Len(b)
      /\ \A i \in 1 .. Len(b) : Write(p)[1 + Len(Digits(p)) + i] = b[i]
  BY <1>3, PacketIs, Zenon
<1>5. h = p.head
  BY <1>2, <1>4, Zenon
<1>6. /\ stream \in Seq(Byte) /\ digits \in Seq(Byte) /\ Len(digits) \in Nat
      /\ Len(stream) \in Nat
  BY Types
<1>s. ASSUME R \in Nat PROVE stream' \in Seq(Byte)
  <2> HIDE DEF R
  <2> QED BY <1>1, <1>6, <1>s
<1> HIDE DEF at, p, R, h, b
<1>7. CASE /\ digits = SubSeq(Digits(p), 1, Len(digits))
           /\ Len(digits) = Len(Digits(p))
  <2>1. digits = Digits(p)
    <3>1. SubSeq(Digits(p), 1, Len(Digits(p))) = Digits(p)
      BY <1>4
    <3> QED BY <1>7, <3>1
  <2>2. R = Len(b) /\ R \in Nat
    <3>1. R = Len(b)
      BY <1>4, <2>1, Zenon DEF R, RemainingLength
    <3> QED BY <1>4, <3>1
  <2>3. read = b /\ (stream' = SubSeq(All, at + Len(Write(p)) + 1, Len(All)) \/ AtEnd')
    <3>1. CASE AtEnd
      <4>1. stream = <<>> /\ lost
        BY <3>1 DEF AtEnd
      <4>2. Len(stream) = 0
        BY <4>1
      <4>3. R = 0
        BY <1>1, <2>2, <4>2
      <4>4. read = <<>> /\ b = <<>>
        <5>1. b = <<>>
          <6>1. \A s \in Seq(Byte) : Len(s) = 0 => s = <<>>
            OBVIOUS
          <6> QED BY <1>4, <2>2, <4>3, <6>1, Zenon
        <5>2. read = <<>>
          BY <4>1, <4>3
        <5> QED BY <5>1, <5>2
      <4>5. stream' = <<>>
        BY <1>1, <4>1, <4>2, <4>3
      <4> QED BY <1>1, <4>1, <4>4, <4>5 DEF AtEnd
    <3>2. CASE ~AtEnd
      <4>1. Taken \in Nat /\ stream = SubSeq(All, Taken + 1, Len(All))
        BY <1>1, <3>2, TakenIs
      <4>2. Taken = at + (1 + Len(Digits(p)))
        BY <1>1, <1>7 DEF Taken, at
      <4>3. Len(Digits(p)) \in Nat /\ Len(All) \in Nat
        BY <1>3, <1>4
      <4>4. Taken + R = at + Len(Write(p)) /\ Taken + R <= Len(All)
        <5> DEFINE l == Len(b)  m == Len(Write(p))
        <5>1. m = 1 + Len(Digits(p)) + l /\ at + m <= Len(All) /\ R = l /\ l \in Nat
          BY <1>3, <1>4, <2>2
        <5> HIDE DEF l, m
        <5>2. Taken + R = at + m /\ Taken + R <= Len(All)
          BY <1>3, <4>2, <4>3, <5>1
        <5> QED BY <5>2 DEF m
      <4>5. /\ SubSeq(stream, R + 1, Len(stream)) = SubSeq(All, (Taken + R) + 1, Len(All))
            /\ read \in Seq(Byte) /\ Len(read) = R
            /\ \A i \in 1 .. R : read[i] = All[Taken + i]
        BY <1>3, <2>2, <4>1, <4>4, Suffix
      <4>6. ASSUME NEW i \in 1 .. R PROVE read[i] = b[i]
        <5>1. Taken + i = at + (1 + Len(Digits(p)) + i)
          BY <1>3, <4>2, <4>3
        <5>2. 1 + Len(Digits(p)) + i \in 1 .. Len(Write(p))
          <6> DEFINE m == Len(Write(p))
          <6>1. m = 1 + Len(Digits(p)) + R
            BY <1>4, <2>2
          <6> HIDE DEF m
          <6>2. 1 + Len(Digits(p)) + i \in 1 .. m
            BY <2>2, <4>3, <6>1
          <6> QED BY <6>2 DEF m
        <5>3. i \in 1 .. Len(b)
          BY <2>2
        <5> QED BY <1>3, <1>4, <4>5, <5>1, <5>2, <5>3
      <4>7. read = b
        <5> HIDE DEF read
        <5> QED BY <1>4, <2>2, <4>5, <4>6
      <4> QED BY <1>1, <4>4, <4>5, <4>7
    <3> QED BY <3>1, <3>2
  <2>4. Unpack(h, read) = p /\ ~UnpackPanics(h, read)
    BY <1>4, <1>5, <2>3 DEF b
  <2>5. ~ReceivePanics(p)
    BY <1>3, PacketServed
  <2>6. ReadsWhole
    BY <1>1, <1>3, <2>3, <2>4, <2>5 DEF ReadsWhole, p
  <2> QED BY <1>1, <1>2, <1>3, <1>s, <2>2, <2>6 DEF p
<1>8. CASE digits = <<0>> /\ AtEnd
  <2>1. R = 0
    <3>1. 0 \in Byte /\ <<>> \in Seq(Byte) /\ <<0>> \o <<>> = <<0>>
      BY DEF Byte
    <3>2. decodeLength(<<0>> \o <<>>) = (0 % 128) + 128 * decodeLength(<<>>)
      BY <3>1, ValueCons, Zenon
    <3>3. decodeLength(<<0>>) = 0
      BY <3>1, <3>2, ValueNone
    <3> QED BY <1>8, <3>3 DEF R, RemainingLength
  <2>2. stream = <<>> /\ lost
    BY <1>8 DEF AtEnd
  <2>3. read = <<>>
    BY <2>1, <2>2
  <2>4. AtEnd'
    <3>1. stream' = <<>>
      BY <1>1, <2>1, <2>2
    <3> QED BY <1>1, <2>2, <3>1 DEF AtEnd
  <2>5. UnpackPanics(h, read) => p.head.type = "PUBLISH"
    BY <1>5 DEF UnpackPanics
  <2>6. Unpack(h, read) = EmptyOf(p)
    BY <1>5, <2>3 DEF EmptyOf
  <2>7. ReadsNothing
    BY <1>1, <1>8, <2>4, <2>5, <2>6 DEF ReadsNothing, p
  <2> QED BY <1>1, <1>2, <1>3, <1>s, <2>1, <2>7 DEF p
<1> QED BY <1>2, <1>7, <1>8 DEF p

\* io.ReadFull has the body, or it has nothing after an empty length.
LEMMA ReadBodyInv ==
  ASSUME Inv, ReadBody
  PROVE  Inv'
<1> DEFINE p == Current
<1>1. /\ phase = "body" /\ Len(got) < Len(sent) /\ p \in Packet
      /\ sent' = sent /\ lost' = lost /\ header' = header /\ digits' = digits
      /\ stream' \in Seq(Byte)
      /\ ReadsWhole \/ ReadsNothing
  BY WhatIsRead, Zenon
<1>2. \A i \in DOMAIN got : got[i] = sent[i]
  BY <1>1, GotIsSent
<1>3. /\ sent \in Seq(Packet) /\ Len(got) \in Nat
      /\ got \in Seq(Packet \cup {EmptyOf(q) : q \in Packet})
  BY Types DEF Inv, TypeOK
<1>4. CASE ReadsWhole
  <2>1. /\ got' = Append(got, p) /\ phase' = "type"
        /\ stream' = SubSeq(All, Len(Bytes(sent, Len(got) + 1)) + 1, Len(All)) \/ AtEnd'
    BY <1>4 DEF ReadsWhole
  <2>2. /\ got' \in Seq(Packet \cup {EmptyOf(q) : q \in Packet})
        /\ Len(got') = Len(got) + 1 /\ DOMAIN got' = 1 .. Len(got) + 1
        /\ \A i \in 1 .. Len(got) : got'[i] = got[i] /\ i \in DOMAIN got
        /\ got'[Len(got) + 1] = p
    BY <1>1, <1>3, <2>1
  <2>3. TypeOK'
    BY <1>1, <2>1, <2>2 DEF Inv, TypeOK, Ended
  <2>4. OddEnds' /\ Within'
    BY <2>1 DEF OddEnds, Long, Within
  <2>5. Flow'
    <3>1. All' = All
      BY <1>1 DEF All
    <3>2. Taken' = Len(Bytes(sent, Len(got) + 1))
      <4> DEFINE x == Len(Bytes(sent, Len(got) + 1))
      <4>1. Taken' = x + 0
        BY <1>1, <2>1, <2>2 DEF Taken
      <4>2. x \in Nat
        <5>1. /\ x = Len(Bytes(sent, Len(got))) + Len(Write(p))
              /\ Len(Bytes(sent, Len(got))) \in Nat
          BY <1>1, InPacket, Zenon
        <5>2. Len(Write(p)) \in Nat
          <6>1. Write(p) \in Seq(Byte)
            BY <1>1, PacketIs, Zenon
          <6> QED BY <6>1
        <5> HIDE DEF p
        <5> QED BY <5>1, <5>2
      <4> HIDE DEF x
      <4>3. Taken' = x
        BY <4>1, <4>2
      <4> QED BY <4>3 DEF x
    <3> QED BY <2>1, <3>1, <3>2, Zenon DEF Flow
  <2>6. Faithful'
    <3>1. Len(got') <= Len(sent')
      BY <1>1, <1>3, <2>2, Types
    <3>2. p = sent[Len(got) + 1]
      BY DEF Current
    <3> HIDE DEF p
    <3>3. \A i \in 1 .. Len(got) + 1 : got'[i] = sent[i]
      <4>1. \A i \in 1 .. Len(got) + 1 : i \in 1 .. Len(got) \/ i = Len(got) + 1
        BY <1>3
      <4> QED BY <1>2, <2>2, <3>2, <4>1, Zenon
    <3> QED BY <1>1, <2>2, <3>1, <3>3 DEF Faithful
  <2> QED BY <2>3, <2>4, <2>5, <2>6 DEF Inv
<1>5. CASE ReadsNothing
  <2>1. AtEnd /\ AtEnd' /\ lost
    BY <1>5 DEF ReadsNothing, AtEnd
  <2>2. Flow'
    BY <2>1 DEF Flow
  <2>3. CASE got' = got /\ phase' = "panic" /\ p.head.type = "PUBLISH"
    <3>1. TypeOK'
      BY <1>1, <2>1, <2>3 DEF Inv, TypeOK, Ended
    <3>2. Within'
      BY <2>3 DEF Within
    <3>3. OddEnds'
      <4>1. /\ Len(got) + 1 \in {Len(got), Len(got) + 1} \cap DOMAIN sent
            /\ sent[Len(got) + 1].head.type = "PUBLISH"
        BY <1>1, <1>3, <2>3, Types DEF Current
      <4> QED BY <1>1, <2>3, <4>1 DEF OddEnds, Long
    <3>4. Faithful'
      BY <1>1, <1>2, <2>3, Types DEF Faithful
    <3> QED BY <2>2, <3>1, <3>2, <3>3, <3>4 DEF Inv
  <2>4. CASE /\ got' = Append(got, EmptyOf(p))
             /\ phase' = IF ReceivePanics(EmptyOf(p)) THEN "panic" ELSE "type"
    <3>0. EmptyOf(p) \in Packet \cup {EmptyOf(q) : q \in Packet}
      BY <1>1
    <3>1. /\ got' \in Seq(Packet \cup {EmptyOf(q) : q \in Packet})
          /\ Len(got') = Len(got) + 1 /\ DOMAIN got' = 1 .. Len(got) + 1
          /\ \A i \in 1 .. Len(got) : got'[i] = got[i] /\ i \in DOMAIN got
          /\ got'[Len(got) + 1] = EmptyOf(p)
      BY <1>3, <2>4, <3>0
    <3>2. TypeOK'
      BY <1>1, <2>1, <2>4, <3>1 DEF Inv, TypeOK, Ended
    <3>3. Within'
      BY <2>4 DEF Within
    <3>4. p = sent[Len(got) + 1] /\ Len(got) + 1 \in DOMAIN sent
      BY <1>1, <1>3, Types DEF Current
    <3>5. OddEnds'
      <4>1. SUFFICES ASSUME phase' = "panic"
            PROVE  p.head.type \in {"PUBLISH", "UNSUBSCRIBE"}
        <5>1. Len(got') \in {Len(got'), Len(got') + 1} \cap DOMAIN sent'
          BY <1>1, <3>1, <3>4
        <5> QED BY <1>1, <2>4, <3>1, <3>4, <5>1 DEF OddEnds, Long
      <4>2. EmptyOf(p).head = p.head
        BY DEF EmptyOf, Unpack
      <4> QED BY <2>4, <4>1, <4>2 DEF ReceivePanics
    <3>6. Faithful'
      <4>1. Len(got') <= Len(sent')
        BY <1>1, <1>3, <3>1, Types
      <4> HIDE DEF p
      <4>2. ASSUME NEW i \in DOMAIN got', got'[i] # sent[i]
            PROVE  i = Len(got') /\ got'[i] = EmptyOf(sent[i])
        <5>1. i \in 1 .. Len(got) \/ i = Len(got) + 1
          BY <1>3, <3>1
        <5> QED BY <1>2, <3>1, <3>4, <4>2, <5>1
      <4> QED BY <1>1, <2>1, <2>4, <4>1, <4>2 DEF Faithful
    <3> QED BY <2>2, <3>2, <3>3, <3>5, <3>6 DEF Inv
  <2> QED BY <1>5, <2>3, <2>4 DEF ReadsNothing
<1> QED BY <1>1, <1>4, <1>5

\* Nothing happens.
LEMMA StutterInv ==
  ASSUME Inv, UNCHANGED vars
  PROVE  Inv'
<1>1. /\ sent' = sent /\ stream' = stream /\ lost' = lost /\ phase' = phase
      /\ header' = header /\ digits' = digits /\ got' = got
  BY DEF vars
<1>2. Current' = Current /\ All' = All
  BY <1>1, Same, Zenon
<1>3. AtEnd' = AtEnd /\ Ended' = Ended /\ Taken' = Taken
  BY <1>1 DEF AtEnd, Ended, Taken
<1>4. TypeOK' /\ OddEnds'
  BY <1>1, <1>2, <1>3 DEF Inv, TypeOK, OddEnds, Long
<1>5. Flow' /\ Within'
  BY <1>1, <1>2, <1>3 DEF Inv, Flow, Within
<1>6. Faithful'
  BY <1>1, <1>3 DEF Inv, Faithful
<1> QED BY <1>4, <1>5, <1>6 DEF Inv

\* Every step of a writer, of the reader or of the network keeps the invariant.
LEMMA InvNext == Inv /\ [Next]_vars => Inv'
<1>1. SUFFICES ASSUME Inv, [Next]_vars PROVE Inv'
  OBVIOUS
<1>2. CASE \E p \in Packet : WritePacket(p)
  BY <1>1, <1>2, WriteInv
<1>3. CASE LoseConnection
  BY <1>1, <1>3, LoseInv
<1>4. CASE ReadType
  BY <1>1, <1>4, ReadTypeInv
<1>5. CASE NoType
  BY <1>1, <1>5, NoTypeInv
<1>6. CASE ReadDigit
  BY <1>1, <1>6, ReadDigitInv
<1>7. CASE NoDigit
  BY <1>1, <1>7, NoDigitInv
<1>8. CASE ReadBody
  BY <1>1, <1>8, ReadBodyInv
<1>9. CASE NoBody
  BY <1>1, <1>9, NoBodyInv
<1>10. CASE UNCHANGED vars
  BY <1>1, <1>10, StutterInv
<1> QED BY <1>1, <1>2, <1>3, <1>4, <1>5, <1>6, <1>7, <1>8, <1>9, <1>10 DEF Next, ReadPacket

-----------------------------------------------------------------------------
(* The theorems, for every set of packets and every number of them.        *)

\* In every execution the bytes on their way, the reader's place in them and
\* the packets ReadPacket has returned fit the packets that were written.
THEOREM Invariance == Spec => []Inv
<1>1. Init => Inv
  BY InitInv
<1>2. Inv /\ [Next]_vars => Inv'
  BY InvNext
<1> QED BY <1>1, <1>2, PTL DEF Spec

\* The stream is bytes, and ReadPacket returns packets that were written or
\* what an empty body of one unpacks to.
THEOREM TypeCorrect == Spec => []TypeOK
<1>1. Inv => TypeOK
  BY DEF Inv
<1> QED BY Invariance, <1>1, PTL

\* decodeLength reads for ever only in a packet of 128 bytes or more, and Receive
\* panics only at a PUBLISH or an UNSUBSCRIBE, wherever the connection is lost.
THEOREM EndsOddly == Spec => []OddEnds
<1>1. Inv => OddEnds
  BY DEF Inv
<1> QED BY Invariance, <1>1, PTL

\* A CONNECT that the loss garbled is never accepted: Validate refuses what
\* Unpack makes of a body of which nothing arrived.
THEOREM NoneAccepted == Spec => []GarbledRefused
<1>1. ASSUME Inv PROVE GarbledRefused
  <2>1. SUFFICES ASSUME NEW i \in DOMAIN got, got[i].head.type = "CONNECT",
                        i > Len(sent) \/ got[i] # sent[i]
                 PROVE  Validate(got[i].body) # "CONN_ACCEPTED"
    BY DEF GarbledRefused
  <2>2. got[i] = EmptyOf(sent[i])
    <3>1. got \in Seq(Packet \cup {EmptyOf(q) : q \in Packet})
      BY <1>1 DEF Inv, TypeOK
    <3>2. i \in 1 .. Len(got)
      BY <3>1
    <3>3. i <= Len(got) /\ i \in Nat
      BY <1>1, <3>2, Types
    <3>4. got[i] # sent[i]
      BY <1>1, <2>1, <3>3, Types
    <3> QED BY <1>1, <3>4 DEF Inv, Faithful
  <2>3. /\ got[i].head = sent[i].head
        /\ got[i].body = Fields(sent[i].head, <<>>)
    BY <2>2 DEF EmptyOf, Unpack
  <2>4. sent[i].head.type = "CONNECT"
    BY <2>1, <2>3
  <2> QED BY <2>3, <2>4, EmptyRefused
<1> QED BY Invariance, <1>1, PTL

-----------------------------------------------------------------------------
(* Wire implements PacketLink.                                             *)

\* A prefix, element by element.
LEMMA PrefixIs ==
  ASSUME NEW S, NEW T, NEW s \in Seq(S), NEW t \in Seq(T), Len(s) <= Len(t)
  PROVE  IsPrefix(s, t) <=> \A i \in DOMAIN s : s[i] = t[i]
<1>1. Len(s) \in Nat /\ Len(t) \in Nat /\ DOMAIN s = 1 .. Len(s)
  OBVIOUS
<1> DEFINE a == SubSeq(s, 1, Len(s))  b == SubSeq(t, 1, Len(s))
<1>2. a = s
  OBVIOUS
<1>3. /\ b \in Seq(T) /\ Len(b) = Len(s)
      /\ \A i \in 1 .. Len(s) : b[i] = t[i]
  BY <1>1
<1>4. s = b <=> \A i \in 1 .. Len(s) : s[i] = b[i]
  <2> HIDE DEF b
  <2>1. ASSUME \A i \in 1 .. Len(s) : s[i] = b[i] PROVE s = b
    BY <1>3, <2>1
  <2> QED BY <2>1
<1>5. IsPrefix(s, t) <=> a = b
  BY DEF IsPrefix
<1> HIDE DEF a, b
<1> QED BY <1>1, <1>2, <1>3, <1>4, <1>5

\* What may be read.
Readable == Packet \cup {EmptyOf(p) : p \in Packet}

\* Garbled, element by element.
LEMMA GarbledIs ==
  ASSUME Inv
  PROVE  Garbled <=> \E i \in DOMAIN got : got[i] # sent[i]
<1>1. got \in Seq(Readable) /\ sent \in Seq(Packet) /\ Len(got) <= Len(sent)
  BY DEF Inv, TypeOK, Faithful, Readable
<1>2. IsPrefix(got, sent) <=> \A i \in DOMAIN got : got[i] = sent[i]
  BY <1>1, PrefixIs
<1> QED BY <1>2 DEF Garbled

\* What an observer of the link sees.
Seen == IF ~lost THEN "up" ELSE IF Ended \/ Garbled THEN "over" ELSE "lost"

\* A step that the observer does not see.
LEMMA LinkStutters ==
  ASSUME sent' = sent, got' = got, lost' = lost, Ended' = Ended
  PROVE  UNCHANGED Link!vars
<1>1. Garbled' = Garbled
  BY DEF Garbled
<1>2. Seen' = Seen
  BY <1>1 DEF Seen
<1> QED BY <1>2 DEF Link!vars, Seen

\* The reader gives up.
LEMMA LinkEnds ==
  ASSUME lost, ~Ended, Ended', sent' = sent, got' = got, lost' = lost
  PROVE  Link!Next \/ UNCHANGED Link!vars
<1>1. Garbled' = Garbled /\ Seen' = "over"
  BY DEF Garbled, Seen
<1>2. CASE Garbled
  <2>1. Seen = "over"
    BY <1>2 DEF Seen
  <2> QED BY <1>1, <2>1 DEF Link!vars, Seen
<1>3. CASE ~Garbled
  <2>1. Seen = "lost"
    BY <1>3 DEF Seen
  <2>2. Link!End
    BY <1>1, <2>1 DEF Link!End, Seen
  <2> QED BY <2>2 DEF Link!Next
<1> QED BY <1>2, <1>3

\* A body is read: the packet that was written, or the empty one.
LEMMA LinkReads ==
  ASSUME Inv, Inv', ReadBody
  PROVE  Link!Next \/ UNCHANGED Link!vars
<1> DEFINE p == Current
<1>1. /\ phase = "body" /\ Len(got) < Len(sent) /\ p \in Packet
      /\ sent' = sent /\ lost' = lost
      /\ ReadsWhole \/ ReadsNothing
  BY WhatIsRead, Zenon
<1>2. \A i \in DOMAIN got : got[i] = sent[i]
  BY <1>1, GotIsSent
<1>3. ~Garbled /\ ~Ended
  <2>1. ~Garbled
    BY <1>2, GarbledIs
  <2> QED BY <1>1, <2>1 DEF Ended
<1>4. Seen = IF lost THEN "lost" ELSE "up"
  BY <1>3, Types DEF Seen
<1>5. got' \in Seq(Readable) /\ sent' \in Seq(Packet) /\ Len(got') <= Len(sent')
  BY DEF Inv, TypeOK, Faithful, Readable
<1>6. Garbled' <=> \E i \in DOMAIN got' : got'[i] # sent'[i]
  <2>1. IsPrefix(got', sent') <=> \A i \in DOMAIN got' : got'[i] = sent'[i]
    BY <1>5, PrefixIs
  <2> QED BY <2>1 DEF Garbled
<1>7. ASSUME NEW q, got' = Append(got, q)
      PROVE  Garbled' <=> q # p
  <2>1. /\ DOMAIN got' = 1 .. Len(got) + 1 /\ DOMAIN got = 1 .. Len(got)
        /\ Len(got) \in Nat /\ got'[Len(got) + 1] = q
        /\ \A i \in 1 .. Len(got) : got'[i] = got[i]
    BY <1>7 DEF Inv, TypeOK
  <2>2. p = sent[Len(got) + 1]
    BY DEF Current
  <2> HIDE DEF p
  <2>3. \A i \in 1 .. Len(got) + 1 : i \in 1 .. Len(got) \/ i = Len(got) + 1
    BY <2>1
  <2>4. Len(got) + 1 \in 1 .. Len(got) + 1
    BY <2>1
  <2> QED BY <1>1, <1>2, <1>6, <2>1, <2>2, <2>3, <2>4
<1>8. ASSUME got' = Append(got, p), phase' = "type"
      PROVE  Link!Next
  <2>1. ~Garbled' /\ ~Ended'
    BY <1>7, <1>8 DEF Ended
  <2>2. Seen' = Seen
    BY <1>1, <1>4, <2>1 DEF Seen
  <2>3. Link!Read
    BY <1>1, <1>4, <1>8, <2>2 DEF Link!Read, Seen, Current
  <2> QED BY <2>3 DEF Link!Next
<1>9. CASE ReadsWhole
  BY <1>8, <1>9 DEF ReadsWhole
<1>10. CASE ReadsNothing
  <2>1. lost
    BY <1>10 DEF ReadsNothing, AtEnd
  <2>2. CASE got' = got /\ phase' = "panic"
    BY <1>1, <1>3, <2>1, <2>2, LinkEnds DEF Ended
  <2>3. CASE /\ got' = Append(got, EmptyOf(p))
             /\ phase' = IF ReceivePanics(EmptyOf(p)) THEN "panic" ELSE "type"
    <3>1. CASE EmptyOf(p) = p
      <4>1. ~ReceivePanics(p)
        BY <1>1, PacketServed, Zenon
      <4>2. got' = Append(got, p) /\ phase' = "type"
        BY <2>3, <3>1, <4>1
      <4> QED BY <1>8, <4>2
    <3>2. CASE EmptyOf(p) # p
      <4>1. Garbled'
        BY <1>7, <2>3, <3>2
      <4>2. Seen = "lost" /\ Seen' = "over"
        BY <1>1, <1>4, <2>1, <4>1 DEF Seen
      <4>3. Link!Garble
        BY <1>1, <2>3, <4>2 DEF Link!Garble, Seen, Current
      <4> QED BY <4>3 DEF Link!Next
    <3> QED BY <3>1, <3>2
  <2> QED BY <1>10, <2>2, <2>3 DEF ReadsNothing
<1> QED BY <1>1, <1>9, <1>10

\* Every step of Wire is one of the link's, or none.
LEMMA LinkStep == Inv /\ Inv' /\ [Next]_vars => [Link!Next]_(Link!vars)
<1>1. SUFFICES ASSUME Inv, Inv', [Next]_vars
               PROVE  Link!Next \/ UNCHANGED Link!vars
  OBVIOUS
<1>2. ASSUME NEW p \in Packet, WritePacket(p) PROVE Link!Next
  <2>1. Seen = "up" /\ Seen' = "up" /\ sent' = Append(sent, p) /\ got' = got
    BY <1>2 DEF WritePacket, Seen
  <2>2. Link!Write(p)
    BY <2>1 DEF Link!Write, Seen
  <2> QED BY <2>2 DEF Link!Next
<1>3. CASE LoseConnection
  <2>1. ~lost /\ lost' = TRUE /\ sent' = sent /\ phase' = phase /\ got' = got
    BY <1>3 DEF LoseConnection
  <2>2. ~Ended'
    BY <1>1, <2>1, Types DEF Ended
  <2>3. ~Garbled'
    <3>1. \A i \in DOMAIN got : got[i] = sent[i]
      BY <1>1, <2>1, GotIsSent DEF AtEnd
    <3>2. ~Garbled
      BY <1>1, <3>1, GarbledIs
    <3> QED BY <2>1, <3>2 DEF Garbled
  <2>4. Seen = "up" /\ Seen' = "lost"
    BY <2>1, <2>2, <2>3 DEF Seen
  <2>5. Link!Lose
    BY <2>1, <2>4 DEF Link!Lose, Seen
  <2> QED BY <2>5 DEF Link!Next
<1>4. CASE ReadType
  BY <1>4, LinkStutters DEF ReadType, Ended
<1>5. CASE NoType
  BY <1>5, LinkEnds DEF NoType, AtEnd, Ended
<1>6. CASE ReadDigit
  BY <1>6, LinkStutters DEF ReadDigit, Ended
<1>7. CASE NoDigit
  <2>1. /\ phase = "length" /\ lost /\ phase' \in {"body", "spin"}
        /\ sent' = sent /\ lost' = lost /\ got' = got
    BY <1>7 DEF NoDigit, AtEnd
  <2>2. CASE phase' = "body"
    BY <2>1, <2>2, LinkStutters DEF Ended
  <2>3. CASE phase' = "spin"
    BY <2>1, <2>3, LinkEnds DEF Ended
  <2> QED BY <2>1, <2>2, <2>3
<1>8. CASE ReadBody
  BY <1>1, <1>8, LinkReads
<1>9. CASE NoBody
  BY <1>9, LinkEnds DEF NoBody, Ended
<1>10. CASE UNCHANGED vars
  BY <1>10, LinkStutters DEF vars, Ended
<1> QED BY <1>1, <1>2, <1>3, <1>4, <1>5, <1>6, <1>7, <1>8, <1>9, <1>10 DEF Next,
          ReadPacket

\* Wire implements PacketLink, whatever packets are written and however many.
THEOREM Implements == Spec => LinkSpec
<1>1. Init => Link!Init
  BY DEF Init, Link!Init
<1>2. Inv /\ Inv' /\ [Next]_vars => [Link!Next]_(Link!vars)
  BY LinkStep
<1> QED BY Invariance, <1>1, <1>2, PTL DEF Spec, LinkSpec, Link!Spec
=============================================================================
