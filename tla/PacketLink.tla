----------------------------- MODULE PacketLink -----------------------------
(***************************************************************************)
(* What one direction of a connection promises to those who use Write and  *)
(* ReadPacket: the packets that are read are those that were written, in   *)
(* their order, each once, until the connection is lost.  After that some  *)
(* are missing, and the one whose reading the loss interrupts may come out *)
(* as a packet of its type with nothing in it.                             *)
(***************************************************************************)
EXTENDS Naturals, Sequences

CONSTANTS
  Packet,      \* what may be written
  Empty(_)     \* the packet with nothing in it of another one's type

VARIABLES sent, got, link

vars == <<sent, got, link>>

Init == sent = <<>> /\ got = <<>> /\ link = "up"

Write(p) ==
  /\ link = "up"
  /\ sent' = Append(sent, p)
  /\ UNCHANGED <<got, link>>

\* The first one that has not been read.
Read ==
  /\ link # "over" /\ Len(got) < Len(sent)
  /\ got' = Append(got, sent[Len(got) + 1])
  /\ UNCHANGED <<sent, link>>

Lose == link = "up" /\ link' = "lost" /\ UNCHANGED <<sent, got>>

\* Nothing more is read.
End == link = "lost" /\ link' = "over" /\ UNCHANGED <<sent, got>>

\* Nothing more is read but the empty packet.
Garble ==
  /\ link = "lost" /\ Len(got) < Len(sent)
  /\ got' = Append(got, Empty(sent[Len(got) + 1]))
  /\ link' = "over"
  /\ UNCHANGED sent

Next == (\E p \in Packet : Write(p)) \/ Read \/ Lose \/ End \/ Garble

Spec == Init /\ [][Next]_vars
=============================================================================
