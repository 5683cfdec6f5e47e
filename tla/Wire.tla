-------------------------------- MODULE Wire --------------------------------
(***************************************************************************)
(* One direction of a connection: one end writes packets, the other runs   *)
(* ReadPacket in a loop, as Receive does (client.go:252, packets.go:76-96, *)
(* 271-285), and the connection may be lost between any two bytes.  What is *)
(* written is well formed; no byte is changed, lost or added before that.  *)
(***************************************************************************)
EXTENDS PacketCodec

CONSTANTS
  Packet,   \* the packets the writing end sends
  MaxSent   \* bound: how many

ASSUME PacketAssumption == \A p \in Packet : WellFormed(p)
ASSUME SentAssumption == MaxSent \in Nat

VARIABLES
  sent,      \* the packets written
  stream,    \* the bytes that were written and not read
  lost,      \* no more bytes will come
  phase,     \* where the reader is
  header,    \* the first byte of the packet it is reading
  digits,    \* the bytes of its length
  got        \* the packets ReadPacket has returned

vars == <<sent, stream, lost, phase, header, digits, got>>

Init ==
  /\ sent = <<>> /\ stream = <<>> /\ lost = FALSE
  /\ phase = "type" /\ header = 0 /\ digits = <<>>
  /\ got = <<>>

-----------------------------------------------------------------------------
WritePacket(p) ==
  /\ ~lost /\ Len(sent) < MaxSent
  /\ sent' = Append(sent, p)
  /\ stream' = stream \o Write(p)
  /\ UNCHANGED <<lost, phase, header, digits, got>>

\* Of the bytes on their way all come through or none: those that would have
\* come through in between are those the reader has read by now.
LoseConnection ==
  /\ ~lost /\ lost' = TRUE
  /\ stream' \in {<<>>, stream}
  /\ UNCHANGED <<sent, phase, header, digits, got>>

-----------------------------------------------------------------------------
(* ReadPacket.                                                             *)

AtEnd == lost /\ stream = <<>>

ReadType ==
  /\ phase = "type" /\ stream # <<>>
  /\ header' = Head(stream) /\ stream' = Tail(stream)
  /\ digits' = <<>> /\ phase' = "length"
  /\ UNCHANGED <<sent, lost, got>>

\* The error is returned, and Receive ends.
NoType ==
  /\ phase = "type" /\ AtEnd
  /\ phase' = "over"
  /\ UNCHANGED <<sent, stream, lost, header, digits, got>>

\* Mutant of EndsLength: a digit of 128 ends a length.
MutEndsLength(digit) == digit <= 128
EndsLength(digit) == digit < 128

ReadDigit ==
  /\ phase = "length" /\ stream # <<>>
  /\ digits' = Append(digits, Head(stream)) /\ stream' = Tail(stream)
  /\ phase' = IF EndsLength(Head(stream)) THEN "body" ELSE "length"
  /\ UNCHANGED <<sent, lost, header, got>>

\* Mutant of NoDigit: the reader waits for the digit.
MutNoDigit ==
  /\ phase = "length" /\ AtEnd
  /\ phase' = "length"
  /\ UNCHANGED <<sent, stream, lost, header, digits, got>>

\* decodeLength does not look at the error of the read: it takes the byte it
\* had before, a zero at first, and with a digit that announces another one it
\* reads on for ever.
NoDigit ==
  /\ phase = "length" /\ AtEnd
  /\ IF digits = <<>>
       THEN digits' = <<0>> /\ phase' = "body"
       ELSE phase' = "spin" /\ UNCHANGED digits
  /\ UNCHANGED <<sent, stream, lost, header, got>>

RemainingLength == decodeLength(digits)

\* Mutant of ReceivePanics: so it does of a SUBSCRIBE.
MutReceivePanics(packet) ==
  packet.head.type \in {"SUBSCRIBE", "UNSUBSCRIBE"} /\ packet.body.topics = <<>>

\* Receive takes the first topic of an UNSUBSCRIBE.
ReceivePanics(packet) ==
  packet.head.type = "UNSUBSCRIBE" /\ packet.body.topics = <<>>

ReadBody ==
  /\ phase = "body" /\ Len(stream) >= RemainingLength
  /\ LET h == unpack(header)
         body == SubSeq(stream, 1, RemainingLength)
     IN IF UnpackPanics(h, body)
          THEN phase' = "panic" /\ UNCHANGED got
          ELSE /\ got' = Append(got, Unpack(h, body))
               /\ phase' = IF ReceivePanics(Unpack(h, body)) THEN "panic" ELSE "type"
  /\ stream' = SubSeq(stream, RemainingLength + 1, Len(stream))
  /\ UNCHANGED <<sent, lost, header, digits>>

\* The error is returned, and Receive ends.
NoBody ==
  /\ phase = "body" /\ lost /\ Len(stream) < RemainingLength
  /\ phase' = "over"
  /\ UNCHANGED <<sent, stream, lost, header, digits, got>>

ReadPacket == ReadType \/ NoType \/ ReadDigit \/ NoDigit \/ ReadBody \/ NoBody

Next == (\E p \in Packet : WritePacket(p)) \/ LoseConnection \/ ReadPacket

Spec == Init /\ [][Next]_vars

\* Receive is scheduled; nobody has to write, and the connection may hold.
FairSpec == Spec /\ WF_vars(ReadPacket)

-----------------------------------------------------------------------------
(* What the two ends may rely on.                                          *)

\* What reading a packet of the same type out of nothing gives.
EmptyOf(p) == Unpack(p.head, <<>>)

\* The packet being read, while there is one.
Current == sent[Len(got) + 1]

Ended == phase \in {"over", "spin", "panic"}
Garbled == ~IsPrefix(got, sent)

\* The bytes and the packets: the reader and the writer agree where packets
\* begin, so what is read is what was written (packets.go:76-96, 134-285 and
\* each packet's Write and Unpack).
Link == INSTANCE PacketLink WITH
  Empty <- EmptyOf,
  link <- IF ~lost THEN "up" ELSE IF Ended \/ Garbled THEN "over" ELSE "lost"
LinkSpec == Link!Spec

\* The shape of the state: the reader's digits are of one length, which is
\* complete when it reads the body, and it gives up only when nothing more
\* comes (packets.go:76-96, 271-285).
TypeOK ==
  /\ sent \in Seq(Packet) /\ Len(sent) <= MaxSent
  /\ got \in Seq(Packet \cup {EmptyOf(p) : p \in Packet})
  /\ stream \in Seq(Byte) /\ digits \in Seq(Byte) /\ header \in Byte
  /\ lost \in BOOLEAN
  /\ phase \in {"type", "length", "body", "over", "spin", "panic"}
  /\ \A i \in DOMAIN digits : digits[i] < 128 => i = Len(digits) /\ phase # "length"
  /\ phase = "body" => digits # <<>> /\ Last(digits) < 128
  /\ Ended => lost

\* Its length takes more than one digit: it has a body of 128 bytes or more.
Long(p) == Len(Write(p)) > 128 + 2

\* A reader that never ends was reading a packet of 128 bytes or more, and one
\* that brings the process down a PUBLISH or an UNSUBSCRIBE: other packets
\* survive the loss of the connection at any byte (packets.go:276,
\* publish.go:53, client.go:355).
OddEnds ==
  /\ phase = "spin" => Len(got) < Len(sent) /\ Long(Current)
  /\ phase = "panic" =>
       \E i \in {Len(got), Len(got) + 1} \cap DOMAIN sent :
         sent[i].head.type \in {"PUBLISH", "UNSUBSCRIBE"}

\* A CONNECT that was not sent is not accepted, so a connection that is lost
\* beside one makes no session (connect.go:91-111, server.go:170-191).
GarbledRefused ==
  \A i \in DOMAIN got :
    got[i].head.type = "CONNECT" /\ (i > Len(sent) \/ got[i] # sent[i]) =>
      Validate(got[i].body) # "CONN_ACCEPTED"

\* Each packet written is read, unless the connection is lost (packets.go:76-96,
\* client.go:252-258).
Arrives == \A n \in 1 .. MaxSent : Len(sent) >= n ~> Len(got) >= n \/ lost

\* A loss ends the reader, at whatever byte it comes, if no packet was long: it
\* returns the error to Receive or panics.  Among the digits of a long packet's
\* length it may notice nothing and read on for ever (packets.go:76-96, 276).
LossNoticed ==
  lost /\ (\A i \in DOMAIN sent : ~Long(sent[i])) ~> phase \in {"over", "panic"}
=============================================================================
