------------------------------ MODULE WireInv ------------------------------
(***************************************************************************)
(* The inductive invariant of Wire: what its properties and the refinement *)
(* of PacketLink rest on.                                                  *)
(***************************************************************************)
EXTENDS Wire

\* The bytes of the first n of the packets s.
Bytes(s, n) == FlattenSeq([i \in 1 .. n |-> Write(s[i])])

\* The digits of a packet's length.
Digits(p) == encodeLength(Len(Body(p.head, p.body)))

\* The bytes of all packets, and how many of them the reader has taken.
All == Bytes(sent, Len(sent))
Taken ==
  Len(Bytes(sent, Len(got)))
    + IF phase \in {"length", "body"} THEN 1 + Len(digits) ELSE 0

\* Every byte is of a packet that was written, in order: what the reader has
\* not taken is on its way, or nothing is any more.
Flow ==
  phase \in {"type", "length", "body"} =>
    stream = SubSeq(All, Taken + 1, Len(All)) \/ AtEnd

\* The reader is where its header and digits say it is: within the first
\* packet that it has not returned, unless the loss gave it an empty length.
Within ==
  phase \in {"length", "body", "spin"} =>
    /\ Len(got) < Len(sent)
    /\ header = typeAndFlags(Current.head)
    /\ \/ /\ digits = SubSeq(Digits(Current), 1, Len(digits))
          /\ IF phase = "body" THEN Len(digits) = Len(Digits(Current))
                              ELSE Len(digits) < Len(Digits(Current))
          /\ phase = "spin" => digits # <<>>
       \/ phase = "body" /\ digits = <<0>> /\ AtEnd

\* The packets read are those written; the last one may be empty, and then
\* the reader gets no further.
Faithful ==
  /\ Len(got) <= Len(sent)
  /\ \A i \in DOMAIN got :
       got[i] # sent[i] =>
         /\ i = Len(got) /\ got[i] = EmptyOf(sent[i])
         /\ AtEnd /\ phase \in {"type", "over", "panic"}

Inv == TypeOK /\ OddEnds /\ Flow /\ Within /\ Faithful
=============================================================================
