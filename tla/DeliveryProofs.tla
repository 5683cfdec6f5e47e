--------------------------- MODULE DeliveryProofs ---------------------------
(***************************************************************************)
(* The invariant of Delivery holds in every execution, whatever the        *)
(* messages, capacities and bounds; with it its safety properties, and     *)
(* that it implements AtLeastOnce.                                         *)
(***************************************************************************)
EXTENDS DeliveryInv, TLAPS, SequenceTheorems, WellFoundedInduction

-----------------------------------------------------------------------------
(* The queues.                                                             *)

\* An empty queue is within its capacity.
LEMMA EmptyQueue ==
  ASSUME NEW S
  PROVE  <<>> \in Seq(S) /\ Len(<<>>) <= QDepth
BY SizeAssumption

\* A packet taken off a queue is one of its packets, and the rest is shorter.
LEMMA Taken ==
  ASSUME NEW S, NEW queue \in Seq(S), queue # <<>>, Len(queue) <= QDepth
  PROVE  /\ Head(queue) \in S
         /\ Tail(queue) \in Seq(S) /\ Len(Tail(queue)) <= QDepth
BY SizeAssumption, HeadTailProperties

\* A packet put where there is room keeps the queue within its capacity.
LEMMA Joined ==
  ASSUME NEW S, NEW queue \in Seq(S), HasRoom(queue), NEW packet \in S
  PROVE  /\ Append(queue, packet) \in Seq(S)
         /\ Len(Append(queue, packet)) <= QDepth
BY SizeAssumption, AppendProperties DEF HasRoom

\* So does one that is offered.
LEMMA Offered ==
  ASSUME NEW S, NEW queue \in Seq(S), Len(queue) <= QDepth, NEW packet \in S
  PROVE  /\ Offer(queue, packet) \in Seq(S)
         /\ Len(Offer(queue, packet)) <= QDepth
BY Joined DEF Offer

\* A packet other than a message, of an identifier there is.
LEMMA PacketType ==
  ASSUME NEW kind \in {"PUBLISH", "PUBACK", "PUBREC", "PUBREL", "PUBCOMP", "REPLY"},
         NEW id \in 0 .. MaxId - 1, NEW uuid \in Nat
  PROVE  Packet(kind, id, uuid) \in Control
BY DEF Packet, Control

\* Such a packet is what Receive panics on.
LEMMA ClosedPacket ==
  ASSUME TypeOK, RecvClosed
  PROVE  panic' \in Control
<1>1. /\ 0 \in 0 .. MaxId - 1 /\ 0 \in Nat
      /\ arrived \in Nat /\ released \in Nat
      /\ \A x \in due : x.id \in 0 .. MaxId - 1
  BY SizeAssumption DEF TypeOK, ExchangeType
<1>2. QED
  BY <1>1, PacketType DEF RecvClosed

\* A set of numbers has a least one.
LEMMA LeastNumber ==
  ASSUME NEW S, S \subseteq Nat, S # {}
  PROVE  \E i \in S : \A j \in S : i <= j
<1>1. PICK i \in S : \A j \in S : ~(<<j, i>> \in OpToRel(<, Nat))
  BY WFMin, NatLessThanWellFounded, Zenon
<1>2. \A j \in S : ~(j < i)
  BY <1>1 DEF OpToRel
<1>3. QED
  BY <1>2

\* An identifier given out is not in use, or it is 0 and all are.
LEMMA GivenId ==
  /\ getMsgID \in Free \/ (getMsgID = 0 /\ Free = {})
  /\ getMsgID \in 0 .. MaxId - 1
<1>1. ASSUME Free # {}
      PROVE  \E i \in Free : \A j \in Free : i <= j
  <2>1. Free \subseteq Nat
    BY DEF Free, Id
  <2>2. QED
    BY <1>1, <2>1, LeastNumber
<1>2. getMsgID \in Free \/ (getMsgID = 0 /\ Free = {})
  BY <1>1 DEF getMsgID
<1>3. Free \subseteq 0 .. MaxId - 1
  BY DEF Free, Id
<1>4. 0 \in 0 .. MaxId - 1
  BY SizeAssumption
<1>5. QED
  BY <1>2, <1>3, <1>4

-----------------------------------------------------------------------------
(* The shape of the state.                                                 *)

\* What was made in an earlier session was made by the next.
LEMMA Later ==
  ASSUME SessionType, UNCHANGED <<connected, starting>>, session' = session + 1
  PROVE  /\ connected' \subseteq 0 .. session'
         /\ \A start \in starting' :
              start \in [session : 0 .. session', object : 0 .. session']
<1>1. session \in Nat /\ 0 .. session \subseteq 0 .. session'
  BY DEF SessionType
<1>2. connected' \subseteq 0 .. session'
  BY <1>1 DEF SessionType
<1>3. \A start \in starting' :
        start \in [session : 0 .. session', object : 0 .. session']
  BY <1>1 DEF SessionType
<1>4. QED
  BY <1>2, <1>3

\* The session and its object keep their shape.
LEMMA SessionStep ==
  ASSUME SessionType, [Next]_vars
  PROVE  SessionType'
<1>1. CASE UNCHANGED vars
  BY <1>1 DEF SessionType, Stopping, vars, life, request, channels,
    persistence, exchange, delivery, observed
<1>2. ASSUME NEW c \in BOOLEAN, Connect(c) /\ ConnectNew(c)
      PROVE  SessionType'
  <2>1. /\ session \in Nat /\ MaxSession \in Nat /\ session < MaxSession
        /\ session' = session + 1 /\ object \in 0 .. session
        /\ object' \in {object, session'}
    BY <1>2, BoundAssumption DEF SessionType, Connect, ConnectNew
  <2>2. session' \in 0 .. MaxSession /\ object' \in 0 .. session'
    BY <2>1
  <2>3. /\ connected' \subseteq 0 .. session'
        /\ \A start \in starting' :
             start \in [session : 0 .. session', object : 0 .. session']
    BY <1>2, <2>1, Later DEF Connect
  <2>4. QED
    BY <1>2, <2>2, <2>3 DEF SessionType, Stopping, Connect, ConnectNew,
      request, channels
<1>3. ASSUME NEW c \in BOOLEAN, Connect(c) /\ ConnectResume(c)
      PROVE  SessionType'
  <2>1. /\ session \in Nat /\ MaxSession \in Nat /\ session < MaxSession
        /\ session' = session + 1 /\ object \in 0 .. session
        /\ object' \in {object, session'}
    BY <1>3, BoundAssumption DEF SessionType, Connect, ConnectResume
  <2>2. session' \in 0 .. MaxSession /\ object' \in 0 .. session'
    BY <2>1
  <2>3. /\ connected' \subseteq 0 .. session'
        /\ \A start \in starting' :
             start \in [session : 0 .. session', object : 0 .. session']
    BY <1>3, <2>1, Later DEF Connect
  <2>4. QED
    BY <1>3, <2>2, <2>3 DEF SessionType, Stopping, Connect, ConnectResume,
      request, channels
<1>4. ASSUME NEW c \in BOOLEAN, Connect(c) /\ ConnectTakeover(c)
      PROVE  SessionType'
  <2>1. /\ session \in Nat /\ MaxSession \in Nat /\ session < MaxSession
        /\ session' = session + 1 /\ object \in 0 .. session
        /\ object' \in {object, session'}
    BY <1>4, BoundAssumption DEF SessionType, Connect, ConnectTakeover
  <2>2. session' \in 0 .. MaxSession /\ object' \in 0 .. session'
    BY <2>1
  <2>3. /\ connected' \subseteq 0 .. session'
        /\ \A start \in starting' :
             start \in [session : 0 .. session', object : 0 .. session']
    BY <1>4, <2>1, Later DEF Connect
  <2>4. QED
    BY <1>4, <2>2, <2>3 DEF SessionType, Stopping, Connect, ConnectTakeover,
      request, channels
<1>5. CASE StartOpen
  BY <1>5 DEF SessionType, Stopping, StartOpen, StartStep, life, request,
    channels, persistence, exchange, delivery, observed
<1>6. CASE StartReplay
  BY <1>6 DEF SessionType, Stopping, StartReplay, StartStep, Rest, HasRoom,
    life, request, channels, persistence, exchange, delivery, observed
<1>7. CASE StartServe
  <2>1. session \in 0 .. session /\ object \in 0 .. session
    BY DEF SessionType
  <2>2. \A start \in starting' :
          start \in [session : 0 .. session, object : 0 .. session]
    BY <1>7, <2>1 DEF StartServe, SessionType
  <2>3. QED
    BY <1>7, <2>2 DEF SessionType, Stopping, StartServe, StartStep, request
<1>8. CASE StartConnected
  BY <1>8 DEF SessionType, Stopping, StartConnected, life, request,
    channels, persistence, exchange, delivery, observed
<1>9. CASE StopTaken
  BY <1>9 DEF SessionType, Stopping, StopTaken, StopStep, life, request,
    channels, persistence, exchange, delivery, observed
<1>10. CASE StopDrain
  BY <1>10 DEF SessionType, Stopping, StopDrain, StopStep, life, request,
    channels, persistence, exchange, delivery, observed
<1>11. CASE StopClose
  BY <1>11 DEF SessionType, Stopping, StopClose, Teardown, StopStep, life,
    request, channels, persistence, exchange, delivery, observed
<1>12. CASE StopUnmap
  BY <1>12 DEF SessionType, Stopping, StopUnmap, Teardown, StopStep, life,
    request, channels, persistence, exchange, delivery, observed
<1>13. CASE StopUnsubscribe
  BY <1>13 DEF SessionType, Stopping, StopUnsubscribe, Teardown, StopStep,
    life, request, channels, persistence, exchange, delivery, observed
<1>14. CASE StopRelease
  BY <1>14 DEF SessionType, Stopping, StopRelease, Teardown, StopStep, life,
    request, channels, persistence, exchange, delivery, observed
<1>15. CASE SendMessage
  BY <1>15 DEF SessionType, Stopping, SendMessage, SendStep, life, request,
    channels, persistence, exchange, delivery, observed
<1>16. CASE SendPriority
  BY <1>16 DEF SessionType, Stopping, SendPriority, SendStep, life, request,
    channels, persistence, exchange, delivery, observed
<1>17. ASSUME NEW x \in due, RecvPuback(x)
      PROVE  SessionType'
  BY <1>17 DEF SessionType, Stopping, RecvPuback, RecvStep, Delete, freeID,
    life, request, channels, persistence, exchange, delivery, observed
<1>18. ASSUME NEW x \in due, RecvPubrec(x)
      PROVE  SessionType'
  BY <1>18 DEF SessionType, Stopping, RecvPubrec, RecvStep, Replace, life,
    request, channels, persistence, exchange, delivery, observed
<1>19. ASSUME NEW x \in due, RecvPubcomp(x)
      PROVE  SessionType'
  BY <1>19 DEF SessionType, Stopping, RecvPubcomp, RecvStep, freeID, life,
    request, channels, persistence, exchange, delivery, observed
<1>20. ASSUME NEW kind \in {"PUBLISH", "PUBREL"},
                NEW answer \in {"PUBACK", "PUBREC", "PUBCOMP"}, RecvInbound(kind, answer)
      PROVE  SessionType'
  BY <1>20 DEF SessionType, Stopping, RecvInbound, RecvStep, Delete, life,
    request, channels, persistence, exchange, delivery, observed
<1>21. ASSUME NEW s \in BOOLEAN, RecvRequest(s)
      PROVE  SessionType'
  BY <1>21 DEF SessionType, Stopping, RecvRequest, RecvStep, life, request,
    channels, persistence, exchange, delivery, observed
<1>22. CASE RecvReply
  BY <1>22 DEF SessionType, Stopping, RecvReply, life, request, channels,
    persistence, exchange, delivery, observed
<1>23. CASE RecvClosed
  BY <1>23 DEF SessionType, Stopping, RecvClosed, life, request, channels,
    persistence, exchange, delivery, observed
<1>24. ASSUME NEW m \in Message, List(m)
      PROVE  SessionType'
  BY <1>24 DEF SessionType, Stopping, List, DeliverStep, Goes, life, request,
    channels, persistence, exchange, delivery, observed
<1>25. ASSUME NEW m \in Message, Lookup(m)
      PROVE  SessionType'
  BY <1>25 DEF SessionType, Stopping, Lookup, DeliverStep, Goes, life,
    request, channels, persistence, exchange, delivery, observed
<1>26. ASSUME NEW m \in Message, Check(m)
      PROVE  SessionType'
  BY <1>26 DEF SessionType, Stopping, Check, DeliverStep, Goes, Crash, life,
    request, channels, persistence, exchange, delivery, observed
<1>27. ASSUME NEW m \in Message, AddOutbound(m)
      PROVE  SessionType'
  BY <1>27 DEF SessionType, Stopping, AddOutbound, DeliverStep, Goes, Crash,
    Persist, life, request, channels, persistence, exchange, delivery,
    observed
<1>28. ASSUME NEW m \in Message, Enqueue(m)
      PROVE  SessionType'
  BY <1>28 DEF SessionType, Stopping, Enqueue, DeliverStep, Goes, Crash, life,
    request, channels, persistence, exchange, delivery, observed
<1>29. QED
  BY <1>1, <1>2, <1>3, <1>4, <1>5, <1>6, <1>7, <1>8, <1>9, <1>10, <1>11,
    <1>12, <1>13, <1>14, <1>15, <1>16, <1>17, <1>18, <1>19, <1>20, <1>21,
    <1>22, <1>23, <1>24, <1>25, <1>26, <1>27, <1>28 DEF Next, Connect, Start, Stop, Send, Receive, Deliver

\* The queues keep within their capacity.
LEMMA QueueStep ==
  ASSUME TypeOK, [Next]_vars
  PROVE  QueueType'
<1>1. CASE UNCHANGED vars
  BY <1>1 DEF QueueType, TypeOK, vars, life, request, channels, persistence,
    exchange, delivery, observed
<1>2. ASSUME NEW c \in BOOLEAN, Connect(c) /\ ConnectNew(c)
      PROVE  QueueType'
  BY <1>2, EmptyQueue DEF QueueType, TypeOK, Connect, ConnectNew, life,
    request, channels, persistence, exchange, delivery, observed
<1>3. ASSUME NEW c \in BOOLEAN, Connect(c) /\ ConnectResume(c)
      PROVE  QueueType'
  BY <1>3, EmptyQueue DEF QueueType, TypeOK, Connect, ConnectResume, life,
    request, channels, persistence, exchange, delivery, observed
<1>4. ASSUME NEW c \in BOOLEAN, Connect(c) /\ ConnectTakeover(c)
      PROVE  QueueType'
  BY <1>4 DEF QueueType, TypeOK, Connect, ConnectTakeover, life, request,
    channels, persistence, exchange, delivery, observed
<1>5. CASE StartOpen
  BY <1>5 DEF QueueType, TypeOK, StartOpen, StartStep, life, request,
    channels, persistence, exchange, delivery, observed
<1>6. CASE StartReplay
  <2>1. PICK packet \in replay :
          \/ packet \in Message /\ HasRoom(messages)
             /\ messages' = Append(messages, packet) /\ UNCHANGED priority
          \/ packet \notin Message /\ HasRoom(priority)
             /\ priority' = Append(priority, packet) /\ UNCHANGED messages
    BY <1>6 DEF StartReplay
  <2>2. packet \in Message \cup Control
    BY <2>1 DEF TypeOK, StoreType
  <2>3. UNCHANGED closed
    BY <1>6 DEF StartReplay, StartStep
  <2>4. QED
    BY <2>1, <2>2, <2>3, Joined DEF TypeOK, QueueType
<1>7. CASE StartServe
  BY <1>7 DEF QueueType, TypeOK, StartServe, StartStep, life, request,
    channels, persistence, exchange, delivery, observed
<1>8. CASE StartConnected
  BY <1>8 DEF QueueType, TypeOK, StartConnected, life, request,
    channels, persistence, exchange, delivery, observed
<1>9. CASE StopTaken
  BY <1>9 DEF QueueType, TypeOK, StopTaken, StopStep, life, request, channels,
    persistence, exchange, delivery, observed
<1>10. CASE StopDrain
  BY <1>10 DEF QueueType, TypeOK, StopDrain, StopStep, life, request, channels,
    persistence, exchange, delivery, observed
<1>11. CASE StopClose
  BY <1>11 DEF QueueType, TypeOK, StopClose, Teardown, StopStep, life,
    request, channels, persistence, exchange, delivery, observed
<1>12. CASE StopUnmap
  BY <1>12 DEF QueueType, TypeOK, StopUnmap, Teardown, StopStep, life,
    request, channels, persistence, exchange, delivery, observed
<1>13. CASE StopUnsubscribe
  BY <1>13 DEF QueueType, TypeOK, StopUnsubscribe, Teardown, StopStep, life,
    request, channels, persistence, exchange, delivery, observed
<1>14. CASE StopRelease
  BY <1>14 DEF QueueType, TypeOK, StopRelease, Teardown, StopStep, life,
    request, channels, persistence, exchange, delivery, observed
<1>15. CASE SendMessage
  BY <1>15, Taken DEF QueueType, TypeOK, SendMessage, SendStep, life, request,
    channels, persistence, exchange, delivery, observed
<1>16. CASE SendPriority
  BY <1>16, Taken DEF QueueType, TypeOK, SendPriority, SendStep, life,
    request, channels, persistence, exchange, delivery, observed
<1>17. ASSUME NEW x \in due, RecvPuback(x)
      PROVE  QueueType'
  BY <1>17 DEF QueueType, TypeOK, RecvPuback, RecvStep, Delete, freeID, life,
    request, channels, persistence, exchange, delivery, observed
<1>18. ASSUME NEW x \in due, RecvPubrec(x)
      PROVE  QueueType'
  <2>1. Packet("PUBREL", x.id, released) \in Control
    BY PacketType DEF TypeOK, ExchangeType
  <2>2. /\ UNCHANGED <<messages, closed>>
        /\ \/ UNCHANGED priority
           \/ priority' = Offer(priority, Packet("PUBREL", x.id, released))
    BY <1>18 DEF RecvPubrec, RecvStep
  <2>3. QED
    BY <2>1, <2>2, Offered DEF TypeOK, QueueType
<1>19. ASSUME NEW x \in due, RecvPubcomp(x)
      PROVE  QueueType'
  BY <1>19 DEF QueueType, TypeOK, RecvPubcomp, RecvStep, freeID, life,
    request, channels, persistence, exchange, delivery, observed
<1>20. ASSUME NEW kind \in {"PUBLISH", "PUBREL"},
                NEW answer \in {"PUBACK", "PUBREC", "PUBCOMP"}, RecvInbound(kind, answer)
      PROVE  QueueType'
  <2>1. Packet(answer, 0, arrived) \in Control
    BY PacketType, SizeAssumption DEF TypeOK, ExchangeType
  <2>2. /\ UNCHANGED <<messages, closed>>
        /\ priority' = Offer(priority, Packet(answer, 0, arrived))
    BY <1>20 DEF RecvInbound, RecvStep
  <2>3. QED
    BY <2>1, <2>2, Offered DEF TypeOK, QueueType
<1>21. ASSUME NEW s \in BOOLEAN, RecvRequest(s)
      PROVE  QueueType'
  BY <1>21, Joined, PacketType, SizeAssumption DEF QueueType, TypeOK,
    RecvRequest, RecvStep, life, request, channels, persistence, exchange,
    delivery, observed
<1>22. CASE RecvReply
  BY <1>22, Joined, PacketType, SizeAssumption DEF QueueType, TypeOK,
    RecvReply, life, request, channels, persistence, exchange, delivery,
    observed
<1>23. CASE RecvClosed
  BY <1>23, Joined, PacketType, SizeAssumption DEF QueueType, TypeOK,
    RecvClosed, life, request, channels, persistence, exchange, delivery,
    observed
<1>24. ASSUME NEW m \in Message, List(m)
      PROVE  QueueType'
  BY <1>24 DEF QueueType, TypeOK, List, DeliverStep, Goes, life, request,
    channels, persistence, exchange, delivery, observed
<1>25. ASSUME NEW m \in Message, Lookup(m)
      PROVE  QueueType'
  BY <1>25 DEF QueueType, TypeOK, Lookup, DeliverStep, Goes, life, request,
    channels, persistence, exchange, delivery, observed
<1>26. ASSUME NEW m \in Message, Check(m)
      PROVE  QueueType'
  BY <1>26 DEF QueueType, TypeOK, Check, DeliverStep, Goes, Crash, life,
    request, channels, persistence, exchange, delivery, observed
<1>27. ASSUME NEW m \in Message, AddOutbound(m)
      PROVE  QueueType'
  BY <1>27 DEF QueueType, TypeOK, AddOutbound, DeliverStep, Goes, Crash,
    Persist, life, request, channels, persistence, exchange, delivery,
    observed
<1>28. ASSUME NEW m \in Message, Enqueue(m)
      PROVE  QueueType'
  BY <1>28, Offered DEF QueueType, TypeOK, Enqueue, DeliverStep, Goes, Crash,
    life, request, channels, persistence, exchange, delivery, observed
<1>29. QED
  BY <1>1, <1>2, <1>3, <1>4, <1>5, <1>6, <1>7, <1>8, <1>9, <1>10, <1>11,
    <1>12, <1>13, <1>14, <1>15, <1>16, <1>17, <1>18, <1>19, <1>20, <1>21,
    <1>22, <1>23, <1>24, <1>25, <1>26, <1>27, <1>28 DEF Next, Connect, Start, Stop, Send, Receive, Deliver

\* What is stored is messages and packets, and what is replayed is stored.
LEMMA StoreStep ==
  ASSUME TypeOK, [Next]_vars
  PROVE  StoreType'
<1>1. CASE UNCHANGED vars
  BY <1>1 DEF StoreType, TypeOK, SessionType, Stopping, vars, life, request,
    channels, persistence, exchange, delivery, observed
<1>2. ASSUME NEW c \in BOOLEAN, Connect(c) /\ ConnectNew(c)
      PROVE  StoreType'
  BY <1>2 DEF StoreType, TypeOK, SessionType, Stopping, Connect, ConnectNew,
    life, request, channels, persistence, exchange, delivery, observed
<1>3. ASSUME NEW c \in BOOLEAN, Connect(c) /\ ConnectResume(c)
      PROVE  StoreType'
  BY <1>3 DEF StoreType, TypeOK, SessionType, Stopping, Connect,
    ConnectResume, life, request, channels, persistence, exchange, delivery,
    observed
<1>4. ASSUME NEW c \in BOOLEAN, Connect(c) /\ ConnectTakeover(c)
      PROVE  StoreType'
  BY <1>4 DEF StoreType, TypeOK, SessionType, Stopping, Connect,
    ConnectTakeover, life, request, channels, persistence, exchange, delivery,
    observed
<1>5. CASE StartOpen
  BY <1>5 DEF StoreType, TypeOK, SessionType, Stopping, StartOpen, StartStep,
    life, request, channels, persistence, exchange, delivery, observed
<1>6. CASE StartReplay
  BY <1>6 DEF StoreType, TypeOK, SessionType, Stopping, StartReplay,
    StartStep, Rest, HasRoom, life, request, channels, persistence, exchange,
    delivery, observed
<1>7. CASE StartServe
  BY <1>7 DEF StoreType, TypeOK, SessionType, Stopping, StartServe, StartStep,
    life, request, channels, persistence, exchange, delivery, observed
<1>8. CASE StartConnected
  BY <1>8 DEF StoreType, TypeOK, SessionType, Stopping, StartConnected,
    life, request, channels, persistence, exchange, delivery, observed
<1>9. CASE StopTaken
  BY <1>9 DEF StoreType, TypeOK, SessionType, Stopping, StopTaken, StopStep,
    life, request, channels, persistence, exchange, delivery, observed
<1>10. CASE StopDrain
  BY <1>10 DEF StoreType, TypeOK, SessionType, Stopping, StopDrain, StopStep,
    life, request, channels, persistence, exchange, delivery, observed
<1>11. CASE StopClose
  BY <1>11 DEF StoreType, TypeOK, SessionType, Stopping, StopClose, Teardown,
    StopStep, life, request, channels, persistence, exchange, delivery,
    observed
<1>12. CASE StopUnmap
  BY <1>12 DEF StoreType, TypeOK, SessionType, Stopping, StopUnmap, Teardown,
    StopStep, life, request, channels, persistence, exchange, delivery,
    observed
<1>13. CASE StopUnsubscribe
  BY <1>13 DEF StoreType, TypeOK, SessionType, Stopping, StopUnsubscribe,
    Teardown, StopStep, life, request, channels, persistence, exchange,
    delivery, observed
<1>14. CASE StopRelease
  BY <1>14 DEF StoreType, TypeOK, SessionType, Stopping, StopRelease,
    Teardown, StopStep, life, request, channels, persistence, exchange,
    delivery, observed
<1>15. CASE SendMessage
  BY <1>15 DEF StoreType, TypeOK, SessionType, Stopping, SendMessage,
    SendStep, life, request, channels, persistence, exchange, delivery,
    observed
<1>16. CASE SendPriority
  BY <1>16 DEF StoreType, TypeOK, SessionType, Stopping, SendPriority,
    SendStep, life, request, channels, persistence, exchange, delivery,
    observed
<1>17. ASSUME NEW x \in due, RecvPuback(x)
      PROVE  StoreType'
  BY <1>17 DEF StoreType, TypeOK, SessionType, Stopping, RecvPuback, RecvStep,
    Delete, freeID, life, request, channels, persistence, exchange, delivery,
    observed
<1>18. ASSUME NEW x \in due, RecvPubrec(x)
      PROVE  StoreType'
  <2>1. Packet("PUBREL", x.id, released) \in Control
    BY PacketType DEF TypeOK, ExchangeType
  <2>2. QED
    BY <1>18, <2>1 DEF TypeOK, StoreType, SessionType, RecvPubrec, RecvStep,
      Replace, life, request
<1>19. ASSUME NEW x \in due, RecvPubcomp(x)
      PROVE  StoreType'
  BY <1>19 DEF StoreType, TypeOK, SessionType, Stopping, RecvPubcomp,
    RecvStep, freeID, life, request, channels, persistence, exchange,
    delivery, observed
<1>20. ASSUME NEW kind \in {"PUBLISH", "PUBREL"},
                NEW answer \in {"PUBACK", "PUBREC", "PUBCOMP"}, RecvInbound(kind, answer)
      PROVE  StoreType'
  <2>1. Packet(kind, 0, arrived) \in Control
    BY PacketType, SizeAssumption DEF TypeOK, ExchangeType
  <2>2. inbound' \subseteq inbound \cup {Packet(kind, 0, arrived)}
    BY <1>20 DEF RecvInbound, Delete
  <2>3. QED
    BY <1>20, <2>1, <2>2 DEF TypeOK, StoreType, RecvInbound, RecvStep, life,
      request
<1>21. ASSUME NEW s \in BOOLEAN, RecvRequest(s)
      PROVE  StoreType'
  BY <1>21 DEF StoreType, TypeOK, SessionType, Stopping, RecvRequest,
    RecvStep, life, request, channels, persistence, exchange, delivery,
    observed
<1>22. CASE RecvReply
  BY <1>22 DEF StoreType, TypeOK, SessionType, Stopping, RecvReply, life,
    request, channels, persistence, exchange, delivery, observed
<1>23. CASE RecvClosed
  BY <1>23 DEF StoreType, TypeOK, SessionType, Stopping, RecvClosed, life,
    request, channels, persistence, exchange, delivery, observed
<1>24. ASSUME NEW m \in Message, List(m)
      PROVE  StoreType'
  BY <1>24 DEF StoreType, TypeOK, SessionType, Stopping, List, DeliverStep,
    Goes, life, request, channels, persistence, exchange, delivery, observed
<1>25. ASSUME NEW m \in Message, Lookup(m)
      PROVE  StoreType'
  BY <1>25 DEF StoreType, TypeOK, SessionType, Stopping, Lookup, DeliverStep,
    Goes, life, request, channels, persistence, exchange, delivery, observed
<1>26. ASSUME NEW m \in Message, Check(m)
      PROVE  StoreType'
  BY <1>26 DEF StoreType, TypeOK, SessionType, Stopping, Check, DeliverStep,
    Goes, Crash, life, request, channels, persistence, exchange, delivery,
    observed
<1>27. ASSUME NEW m \in Message, AddOutbound(m)
      PROVE  StoreType'
  BY <1>27 DEF StoreType, TypeOK, SessionType, Stopping, AddOutbound,
    DeliverStep, Goes, Crash, Persist, life, request, channels, persistence,
    exchange, delivery, observed
<1>28. ASSUME NEW m \in Message, Enqueue(m)
      PROVE  StoreType'
  BY <1>28 DEF StoreType, TypeOK, SessionType, Stopping, Enqueue, DeliverStep,
    Goes, Crash, life, request, channels, persistence, exchange, delivery,
    observed
<1>29. QED
  BY <1>1, <1>2, <1>3, <1>4, <1>5, <1>6, <1>7, <1>8, <1>9, <1>10, <1>11,
    <1>12, <1>13, <1>14, <1>15, <1>16, <1>17, <1>18, <1>19, <1>20, <1>21,
    <1>22, <1>23, <1>24, <1>25, <1>26, <1>27, <1>28 DEF Next, Connect, Start, Stop, Send, Receive, Deliver

\* Identifiers are given to messages, and exchanges have identifiers.
LEMMA ExchangeStep ==
  ASSUME TypeOK, [Next]_vars
  PROVE  ExchangeType'
<1>1. CASE UNCHANGED vars
  BY <1>1 DEF ExchangeType, TypeOK, vars, life, request, channels,
    persistence, exchange, delivery, observed
<1>2. ASSUME NEW c \in BOOLEAN, Connect(c) /\ ConnectNew(c)
      PROVE  ExchangeType'
  BY <1>2, SizeAssumption DEF ExchangeType, TypeOK, Connect, ConnectNew, Id,
    life, request, channels, persistence, exchange, delivery, observed
<1>3. ASSUME NEW c \in BOOLEAN, Connect(c) /\ ConnectResume(c)
      PROVE  ExchangeType'
  BY <1>3, SizeAssumption DEF ExchangeType, TypeOK, Connect, ConnectResume,
    life, request, channels, persistence, exchange, delivery, observed
<1>4. ASSUME NEW c \in BOOLEAN, Connect(c) /\ ConnectTakeover(c)
      PROVE  ExchangeType'
  BY <1>4, SizeAssumption DEF ExchangeType, TypeOK, Connect, ConnectTakeover,
    life, request, channels, persistence, exchange, delivery, observed
<1>5. CASE StartOpen
  BY <1>5, SizeAssumption DEF ExchangeType, TypeOK, StartOpen, StartStep,
    life, request, channels, persistence, exchange, delivery, observed
<1>6. CASE StartReplay
  BY <1>6, SizeAssumption DEF ExchangeType, TypeOK, StartReplay, StartStep,
    Rest, HasRoom, life, request, channels, persistence, exchange, delivery,
    observed
<1>7. CASE StartServe
  BY <1>7, SizeAssumption DEF ExchangeType, TypeOK, StartServe, StartStep,
    life, request, channels, persistence, exchange, delivery, observed
<1>8. CASE StartConnected
  BY <1>8, SizeAssumption DEF ExchangeType, TypeOK, StartConnected,
    life, request, channels, persistence, exchange, delivery, observed
<1>9. CASE StopTaken
  BY <1>9, SizeAssumption DEF ExchangeType, TypeOK, StopTaken, StopStep, life,
    request, channels, persistence, exchange, delivery, observed
<1>10. CASE StopDrain
  BY <1>10, SizeAssumption DEF ExchangeType, TypeOK, StopDrain, StopStep, life,
    request, channels, persistence, exchange, delivery, observed
<1>11. CASE StopClose
  BY <1>11, SizeAssumption DEF ExchangeType, TypeOK, StopClose, Teardown,
    StopStep, life, request, channels, persistence, exchange, delivery,
    observed
<1>12. CASE StopUnmap
  BY <1>12, SizeAssumption DEF ExchangeType, TypeOK, StopUnmap, Teardown,
    StopStep, life, request, channels, persistence, exchange, delivery,
    observed
<1>13. CASE StopUnsubscribe
  BY <1>13, SizeAssumption DEF ExchangeType, TypeOK, StopUnsubscribe,
    Teardown, StopStep, life, request, channels, persistence, exchange,
    delivery, observed
<1>14. CASE StopRelease
  BY <1>14, SizeAssumption DEF ExchangeType, TypeOK, StopRelease, Teardown,
    StopStep, life, request, channels, persistence, exchange, delivery,
    observed
<1>15. CASE SendMessage
  <2>1. Head(messages) \in Message /\ getMsgID \in 0 .. MaxId - 1
    BY <1>15, Taken, GivenId DEF SendMessage, TypeOK, QueueType
  <2>2. index' \in [Id -> Message \cup {Nil}]
    BY <1>15, <2>1 DEF SendMessage, TypeOK, ExchangeType
  <2>3. due' \subseteq due \cup Owed(Head(messages), getMsgID)
        /\ wrote' = wrote \cup {Head(messages)}
    BY <1>15 DEF SendMessage
  <2>4. QED
    BY <1>15, <2>1, <2>2, <2>3, NilAssumption DEF SendMessage, SendStep,
      TypeOK, ExchangeType, Owed, Exchange
<1>16. CASE SendPriority
  <2>1. Head(priority) \in Control
    BY <1>16, Taken DEF SendPriority, TypeOK, QueueType
  <2>2. Head(priority).id \in 0 .. MaxId - 1
    BY <2>1 DEF Control
  <2>3. ASSUME NEW x \in due'
        PROVE  \/ x \in due
               \/ x = Exchange(Nil, Head(priority).id, "PUBCOMP")
               \/ \E y \in due : x = Exchange(y.of, Head(priority).id, "PUBCOMP")
    BY <1>16 DEF SendPriority, Answers
  <2>4. QED
    BY <1>16, <2>2, <2>3 DEF SendPriority, SendStep, TypeOK, ExchangeType,
      Exchange
<1>17. ASSUME NEW x \in due, RecvPuback(x)
      PROVE  ExchangeType'
  BY <1>17, SizeAssumption DEF ExchangeType, TypeOK, RecvPuback, RecvStep,
    Delete, freeID, inUse, life, request, channels, persistence, exchange,
    delivery, observed
<1>18. ASSUME NEW x \in due, RecvPubrec(x)
      PROVE  ExchangeType'
  BY <1>18, SizeAssumption DEF ExchangeType, TypeOK, RecvPubrec, RecvStep,
    Replace, Exchange, life, request, channels, persistence, exchange,
    delivery, observed
<1>19. ASSUME NEW x \in due, RecvPubcomp(x)
      PROVE  ExchangeType'
  BY <1>19, SizeAssumption DEF ExchangeType, TypeOK, RecvPubcomp, RecvStep,
    freeID, inUse, life, request, channels, persistence, exchange, delivery,
    observed
<1>20. ASSUME NEW kind \in {"PUBLISH", "PUBREL"},
                NEW answer \in {"PUBACK", "PUBREC", "PUBCOMP"}, RecvInbound(kind, answer)
      PROVE  ExchangeType'
  BY <1>20, SizeAssumption DEF ExchangeType, TypeOK, RecvInbound, RecvStep,
    Delete, life, request, channels, persistence, exchange, delivery, observed
<1>21. ASSUME NEW s \in BOOLEAN, RecvRequest(s)
      PROVE  ExchangeType'
  BY <1>21, SizeAssumption DEF ExchangeType, TypeOK, RecvRequest, RecvStep,
    life, request, channels, persistence, exchange, delivery, observed
<1>22. CASE RecvReply
  BY <1>22, SizeAssumption DEF ExchangeType, TypeOK, RecvReply, life, request,
    channels, persistence, exchange, delivery, observed
<1>23. CASE RecvClosed
  BY <1>23, SizeAssumption DEF ExchangeType, TypeOK, RecvClosed, life, request,
    channels, persistence, exchange, delivery, observed
<1>24. ASSUME NEW m \in Message, List(m)
      PROVE  ExchangeType'
  BY <1>24, SizeAssumption DEF ExchangeType, TypeOK, List, DeliverStep, Goes,
    life, request, channels, persistence, exchange, delivery, observed
<1>25. ASSUME NEW m \in Message, Lookup(m)
      PROVE  ExchangeType'
  BY <1>25, SizeAssumption DEF ExchangeType, TypeOK, Lookup, DeliverStep,
    Goes, life, request, channels, persistence, exchange, delivery, observed
<1>26. ASSUME NEW m \in Message, Check(m)
      PROVE  ExchangeType'
  BY <1>26, SizeAssumption DEF ExchangeType, TypeOK, Check, DeliverStep, Goes,
    Crash, life, request, channels, persistence, exchange, delivery, observed
<1>27. ASSUME NEW m \in Message, AddOutbound(m)
      PROVE  ExchangeType'
  BY <1>27, SizeAssumption DEF ExchangeType, TypeOK, AddOutbound, DeliverStep,
    Goes, Crash, Persist, life, request, channels, persistence, exchange,
    delivery, observed
<1>28. ASSUME NEW m \in Message, Enqueue(m)
      PROVE  ExchangeType'
  BY <1>28, SizeAssumption DEF ExchangeType, TypeOK, Enqueue, DeliverStep,
    Goes, Crash, life, request, channels, persistence, exchange, delivery,
    observed
<1>29. QED
  BY <1>1, <1>2, <1>3, <1>4, <1>5, <1>6, <1>7, <1>8, <1>9, <1>10, <1>11,
    <1>12, <1>13, <1>14, <1>15, <1>16, <1>17, <1>18, <1>19, <1>20, <1>21,
    <1>22, <1>23, <1>24, <1>25, <1>26, <1>27, <1>28 DEF Next, Connect, Start, Stop, Send, Receive, Deliver

\* A delivery points at an object that was made.
LEMMA DeliveryStep ==
  ASSUME TypeOK, [Next]_vars
  PROVE  DeliveryType'
<1>1. CASE UNCHANGED vars
  BY <1>1 DEF DeliveryType, TypeOK, SessionType, vars, life, request,
    channels, persistence, exchange, delivery, observed
<1>2. ASSUME NEW c \in BOOLEAN, Connect(c) /\ ConnectNew(c)
      PROVE  DeliveryType'
  BY <1>2, BoundAssumption DEF DeliveryType, TypeOK, SessionType, Connect,
    ConnectNew, life, request, channels, persistence, exchange, delivery,
    observed
<1>3. ASSUME NEW c \in BOOLEAN, Connect(c) /\ ConnectResume(c)
      PROVE  DeliveryType'
  BY <1>3, BoundAssumption DEF DeliveryType, TypeOK, SessionType, Connect,
    ConnectResume, life, request, channels, persistence, exchange, delivery,
    observed
<1>4. ASSUME NEW c \in BOOLEAN, Connect(c) /\ ConnectTakeover(c)
      PROVE  DeliveryType'
  BY <1>4, BoundAssumption DEF DeliveryType, TypeOK, SessionType, Connect,
    ConnectTakeover, life, request, channels, persistence, exchange, delivery,
    observed
<1>5. CASE StartOpen
  BY <1>5 DEF DeliveryType, TypeOK, SessionType, StartOpen, StartStep, life,
    request, channels, persistence, exchange, delivery, observed
<1>6. CASE StartReplay
  BY <1>6 DEF DeliveryType, TypeOK, SessionType, StartReplay, StartStep, Rest,
    HasRoom, life, request, channels, persistence, exchange, delivery,
    observed
<1>7. CASE StartServe
  BY <1>7 DEF DeliveryType, TypeOK, SessionType, StartServe, StartStep, life,
    request, channels, persistence, exchange, delivery, observed
<1>8. CASE StartConnected
  BY <1>8 DEF DeliveryType, TypeOK, SessionType, StartConnected, life,
    request, channels, persistence, exchange, delivery, observed
<1>9. CASE StopTaken
  BY <1>9 DEF DeliveryType, TypeOK, SessionType, StopTaken, StopStep, life,
    request, channels, persistence, exchange, delivery, observed
<1>10. CASE StopDrain
  BY <1>10 DEF DeliveryType, TypeOK, SessionType, StopDrain, StopStep, life,
    request, channels, persistence, exchange, delivery, observed
<1>11. CASE StopClose
  BY <1>11 DEF DeliveryType, TypeOK, SessionType, StopClose, Teardown,
    StopStep, life, request, channels, persistence, exchange, delivery,
    observed
<1>12. CASE StopUnmap
  BY <1>12 DEF DeliveryType, TypeOK, SessionType, StopUnmap, Teardown,
    StopStep, life, request, channels, persistence, exchange, delivery,
    observed
<1>13. CASE StopUnsubscribe
  BY <1>13 DEF DeliveryType, TypeOK, SessionType, StopUnsubscribe, Teardown,
    StopStep, life, request, channels, persistence, exchange, delivery,
    observed
<1>14. CASE StopRelease
  BY <1>14 DEF DeliveryType, TypeOK, SessionType, StopRelease, Teardown,
    StopStep, life, request, channels, persistence, exchange, delivery,
    observed
<1>15. CASE SendMessage
  BY <1>15 DEF DeliveryType, TypeOK, SessionType, SendMessage, SendStep, life,
    request, channels, persistence, exchange, delivery, observed
<1>16. CASE SendPriority
  BY <1>16 DEF DeliveryType, TypeOK, SessionType, SendPriority, SendStep,
    life, request, channels, persistence, exchange, delivery, observed
<1>17. ASSUME NEW x \in due, RecvPuback(x)
      PROVE  DeliveryType'
  BY <1>17 DEF DeliveryType, TypeOK, SessionType, RecvPuback, RecvStep,
    Delete, freeID, life, request, channels, persistence, exchange, delivery,
    observed
<1>18. ASSUME NEW x \in due, RecvPubrec(x)
      PROVE  DeliveryType'
  BY <1>18 DEF DeliveryType, TypeOK, SessionType, RecvPubrec, RecvStep,
    Replace, life, request, channels, persistence, exchange, delivery,
    observed
<1>19. ASSUME NEW x \in due, RecvPubcomp(x)
      PROVE  DeliveryType'
  BY <1>19 DEF DeliveryType, TypeOK, SessionType, RecvPubcomp, RecvStep,
    freeID, life, request, channels, persistence, exchange, delivery, observed
<1>20. ASSUME NEW kind \in {"PUBLISH", "PUBREL"},
                NEW answer \in {"PUBACK", "PUBREC", "PUBCOMP"}, RecvInbound(kind, answer)
      PROVE  DeliveryType'
  BY <1>20 DEF DeliveryType, TypeOK, SessionType, RecvInbound, RecvStep,
    Delete, life, request, channels, persistence, exchange, delivery, observed
<1>21. ASSUME NEW s \in BOOLEAN, RecvRequest(s)
      PROVE  DeliveryType'
  BY <1>21 DEF DeliveryType, TypeOK, SessionType, RecvRequest, RecvStep, life,
    request, channels, persistence, exchange, delivery, observed
<1>22. CASE RecvReply
  BY <1>22 DEF DeliveryType, TypeOK, SessionType, RecvReply, life, request,
    channels, persistence, exchange, delivery, observed
<1>23. CASE RecvClosed
  BY <1>23, ClosedPacket DEF DeliveryType, TypeOK, RecvClosed, life, delivery,
      observed
<1>24. ASSUME NEW m \in Message, List(m)
      PROVE  DeliveryType'
  BY <1>24 DEF DeliveryType, TypeOK, SessionType, List, DeliverStep, Goes, Up,
    life, request, channels, persistence, exchange, delivery, observed
<1>25. ASSUME NEW m \in Message, Lookup(m)
      PROVE  DeliveryType'
  BY <1>25 DEF DeliveryType, TypeOK, SessionType, Lookup, DeliverStep, Goes,
    life, request, channels, persistence, exchange, delivery, observed
<1>26. ASSUME NEW m \in Message, Check(m)
      PROVE  DeliveryType'
  <2>1. Connected(m) \in BOOLEAN
    BY DEF Connected
  <2>2. /\ UNCHANGED live \/ live' = [live EXCEPT ![m] = Connected(m)]
        /\ \/ UNCHANGED at
           \/ \E s \in {"add", "queue", "done"} : at' = [at EXCEPT ![m] = s]
        /\ panic' \in {panic, m} /\ UNCHANGED <<session, to, observed>>
    BY <1>26 DEF Check, DeliverStep, Goes, Crash, life, delivery
  <2>3. live' \in [Message -> BOOLEAN]
    BY <2>1, <2>2, Zenon DEF DeliveryType, TypeOK
  <2>4. QED
    BY <2>2, <2>3 DEF DeliveryType, TypeOK, observed
<1>27. ASSUME NEW m \in Message, AddOutbound(m)
      PROVE  DeliveryType'
  BY <1>27 DEF DeliveryType, TypeOK, SessionType, AddOutbound, DeliverStep,
    Goes, Crash, Persist, life, request, channels, persistence, exchange,
    delivery, observed
<1>28. ASSUME NEW m \in Message, Enqueue(m)
      PROVE  DeliveryType'
  BY <1>28 DEF DeliveryType, TypeOK, SessionType, Enqueue, DeliverStep, Goes,
    Crash, life, request, channels, persistence, exchange, delivery, observed
<1>29. QED
  BY <1>1, <1>2, <1>3, <1>4, <1>5, <1>6, <1>7, <1>8, <1>9, <1>10, <1>11,
    <1>12, <1>13, <1>14, <1>15, <1>16, <1>17, <1>18, <1>19, <1>20, <1>21,
    <1>22, <1>23, <1>24, <1>25, <1>26, <1>27, <1>28 DEF Next, Connect, Start, Stop, Send, Receive, Deliver

-----------------------------------------------------------------------------
(* Where a message waits, and what is stored.                              *)

\* Nothing waits in a new queue.
LEMMA NoneWaits ==
  ASSUME messages' = <<>>
  PROVE  Distinct' /\ \A m \in Message : ~Waits(m)'
BY DEF Distinct, Waits

\* A message that joins the queue waits there.
LEMMA OneMoreWaits ==
  ASSUME TypeOK, NEW packet \in Message, messages' = Append(messages, packet)
  PROVE  /\ \A m \in Message : Waits(m)' => Waits(m) \/ m = packet
         /\ Distinct /\ ~Waits(packet) => Distinct'
<1>1. /\ Len(messages) \in Nat
      /\ Len(messages') = Len(messages) + 1
      /\ \A i \in 1 .. Len(messages) : messages'[i] = messages[i]
      /\ messages'[Len(messages) + 1] = packet
  BY AppendProperties, LenProperties DEF TypeOK, QueueType
<1>2. QED
  BY <1>1 DEF Waits, Distinct

\* A message that is offered joins the queue or does not.
LEMMA OfferedWaits ==
  ASSUME TypeOK, NEW packet \in Message, messages' = Offer(messages, packet)
  PROVE  /\ \A m \in Message : Waits(m)' => Waits(m) \/ m = packet
         /\ Distinct /\ ~Waits(packet) => Distinct'
<1>1. CASE HasRoom(messages)
  BY <1>1, OneMoreWaits DEF Offer
<1>2. CASE ~HasRoom(messages)
  BY <1>2 DEF Offer, Waits, Distinct
<1>3. QED
  BY <1>1, <1>2

\* The message that leaves the queue was waiting and does not any more.
LEMMA OneLessWaits ==
  ASSUME TypeOK, messages # <<>>, messages' = Tail(messages)
  PROVE  /\ Head(messages) \in Message /\ Waits(Head(messages))
         /\ \A m \in Message : Waits(m)' => Waits(m)
         /\ Distinct => Distinct'
         /\ Distinct => \A m \in Message : m = Head(messages) => ~Waits(m)'
<1>1. messages \in Seq(Message)
  BY DEF TypeOK, QueueType
<1>2. /\ Len(messages) \in Nat \ {0} /\ Head(messages) = messages[1]
      /\ Head(messages) \in Message
  BY <1>1, LenProperties, HeadTailProperties, EmptySeq
<1>3. /\ Len(messages') = Len(messages) - 1
      /\ \A i \in 1 .. Len(messages') : messages'[i] = messages[i + 1]
  BY <1>1, HeadTailProperties
<1>4. Waits(Head(messages))
  BY <1>2 DEF Waits
<1>5. \A i \in 1 .. Len(messages') :
        i + 1 \in 1 .. Len(messages) /\ i + 1 # 1
  BY <1>2, <1>3
<1>6. \A m \in Message : Waits(m)' => Waits(m)
  BY <1>3, <1>5 DEF Waits
<1>7. ASSUME Distinct, NEW m \in Message, m = Head(messages), Waits(m)'
      PROVE  FALSE
  <2>1. PICK i \in 1 .. Len(messages') : messages'[i] = m
    BY <1>7 DEF Waits
  <2>2. messages[i + 1] = messages[1] /\ 1 \in 1 .. Len(messages)
    BY <1>2, <1>3, <1>7, <2>1
  <2>3. QED
    BY <1>5, <1>7, <2>2 DEF Distinct
<1>8. ASSUME Distinct
      PROVE  Distinct'
  <2>1. SUFFICES ASSUME NEW i \in 1 .. Len(messages'), NEW j \in 1 .. Len(messages'),
                        messages'[i] = messages'[j]
                 PROVE  i = j
    BY DEF Distinct
  <2>2. messages[i + 1] = messages[j + 1]
    BY <1>3, <2>1
  <2>3. i + 1 = j + 1
    BY <1>5, <1>8, <2>2 DEF Distinct
  <2>4. QED
    BY <2>3, <1>2, <1>3
<1>9. QED
  BY <1>2, <1>4, <1>6, <1>7, <1>8

\* A packet that the broker makes is not one of the messages.
LEMMA NotMessage ==
  ASSUME NEW kind \in {"PUBLISH", "PUBACK", "PUBREC", "PUBREL", "PUBCOMP", "REPLY"},
         NEW id \in 0 .. MaxId - 1, NEW uuid \in Nat
  PROVE  Packet(kind, id, uuid) \notin Message
BY PacketType, MessageAssumption

\* What Receive does to the store leaves the messages in it alone: the packet

\* it deletes or adds has a UUID of its own.
LEMMA ReceiveKeeps ==
  ASSUME TypeOK, NEW x \in due, RecvPuback(x) \/ RecvPubrec(x)
  PROVE  \A m \in Message : m \in outbound' <=> m \in outbound
<1>1. /\ Packet("PUBACK", x.id, arrived) \notin Message
      /\ Packet("PUBREL", x.id, released) \notin Message
  BY NotMessage DEF TypeOK, ExchangeType
<1>2. CASE RecvPuback(x)
  BY <1>1, <1>2 DEF RecvPuback, Delete
<1>3. CASE RecvPubrec(x)
  BY <1>1, <1>3 DEF RecvPubrec, Replace
<1>4. QED
  BY <1>2, <1>3

-----------------------------------------------------------------------------
(* The parts of the invariant.                                             *)

\* What is known of the session follows Start and Stop.
LEMMA PhasesStep ==
  ASSUME TypeOK, Phases, Connecting, NotYet, [Next]_vars
  PROVE  Phases'
<1>1. CASE UNCHANGED vars
  BY <1>1 DEF Phases, TypeOK, SessionType, StoreType, Stopping, vars, life,
    request, channels, persistence, exchange, delivery, observed
<1>2. ASSUME NEW c \in BOOLEAN, Connect(c) /\ ConnectNew(c)
      PROVE  Phases'
  <2>1. object' \notin stale'
    BY <1>2 DEF Connect, ConnectNew, observed, TypeOK, SessionType, DeliveryType
  <2>2. QED
    BY <1>2, <2>1 DEF Phases, TypeOK, SessionType, StoreType, Stopping, Connect,
      ConnectNew, request, persistence
<1>3. ASSUME NEW c \in BOOLEAN, Connect(c) /\ ConnectResume(c)
      PROVE  Phases'
  BY <1>3 DEF Phases, TypeOK, SessionType, StoreType, Stopping, Connect,
    ConnectResume, life, request, channels, persistence, exchange, delivery,
    observed
<1>4. ASSUME NEW c \in BOOLEAN, Connect(c) /\ ConnectTakeover(c)
      PROVE  Phases'
  <2>1. closed => object \in stale
    BY <1>4 DEF ConnectTakeover, Phases, Connecting, TypeOK, SessionType
  <2>2. QED
    BY <1>4, <2>1 DEF Phases, TypeOK, StoreType, Stopping, Connect,
      ConnectTakeover, request, channels, persistence, observed
<1>5. CASE StartOpen
  BY <1>5 DEF Phases, TypeOK, SessionType, StoreType, Stopping, StartOpen,
    StartStep, life, request, channels, persistence, exchange, delivery,
    observed
<1>6. CASE StartReplay
  BY <1>6 DEF Phases, TypeOK, SessionType, StoreType, Stopping, StartReplay,
    StartStep, Rest, HasRoom, life, request, channels, persistence, exchange,
    delivery, observed
<1>7. CASE StartServe
  BY <1>7 DEF Phases, TypeOK, SessionType, StoreType, Stopping, StartServe,
    StartStep, life, request, channels, persistence, exchange, delivery,
    observed
<1>8. CASE StartConnected
  BY <1>8 DEF Phases, TypeOK, SessionType, StoreType, Stopping, StartConnected,
    StartStep, life, request, channels, persistence, exchange, delivery,
    observed
<1>9. CASE StopTaken
  BY <1>9 DEF Phases, TypeOK, SessionType, StoreType, Stopping, StopTaken,
    StopStep, life, request, channels, persistence, exchange, delivery,
    observed
<1>10. CASE StopDrain
  BY <1>10 DEF Phases, TypeOK, SessionType, StoreType, Stopping, StopDrain,
    StopStep, life, request, channels, persistence, exchange, delivery,
    observed
<1>11. CASE StopClose
  BY <1>11 DEF Phases, TypeOK, SessionType, StoreType, Stopping, StopClose,
    Teardown, StopStep, life, request, channels, persistence, exchange,
    delivery, observed
<1>12. CASE StopUnmap
  BY <1>12 DEF Phases, TypeOK, SessionType, StoreType, Stopping, StopUnmap,
    Teardown, StopStep, life, request, channels, persistence, exchange,
    delivery, observed
<1>13. CASE StopUnsubscribe
  BY <1>13 DEF Phases, TypeOK, SessionType, StoreType, Stopping,
    StopUnsubscribe, Teardown, StopStep, life, request, channels, persistence,
    exchange, delivery, observed
<1>14. CASE StopRelease
  BY <1>14 DEF Phases, TypeOK, SessionType, StoreType, Stopping, StopRelease,
    Teardown, StopStep, life, request, channels, persistence, exchange,
    delivery, observed
<1>15. CASE SendMessage
  BY <1>15 DEF Phases, TypeOK, SessionType, StoreType, Stopping, SendMessage,
    SendStep, life, request, channels, persistence, exchange, delivery,
    observed
<1>16. CASE SendPriority
  BY <1>16 DEF Phases, TypeOK, SessionType, StoreType, Stopping, SendPriority,
    SendStep, life, request, channels, persistence, exchange, delivery,
    observed
<1>17. ASSUME NEW x \in due, RecvPuback(x)
      PROVE  Phases'
  BY <1>17 DEF Phases, TypeOK, SessionType, StoreType, Stopping, RecvPuback,
    RecvStep, Delete, freeID, life, request, channels, persistence, exchange,
    delivery, observed
<1>18. ASSUME NEW x \in due, RecvPubrec(x)
      PROVE  Phases'
  BY <1>18 DEF Phases, TypeOK, SessionType, StoreType, Stopping, RecvPubrec,
    RecvStep, Replace, life, request, channels, persistence, exchange,
    delivery, observed
<1>19. ASSUME NEW x \in due, RecvPubcomp(x)
      PROVE  Phases'
  BY <1>19 DEF Phases, TypeOK, SessionType, StoreType, Stopping, RecvPubcomp,
    RecvStep, freeID, life, request, channels, persistence, exchange,
    delivery, observed
<1>20. ASSUME NEW kind \in {"PUBLISH", "PUBREL"},
                NEW answer \in {"PUBACK", "PUBREC", "PUBCOMP"}, RecvInbound(kind, answer)
      PROVE  Phases'
  BY <1>20 DEF Phases, TypeOK, SessionType, StoreType, Stopping, RecvInbound,
    RecvStep, Delete, life, request, channels, persistence, exchange,
    delivery, observed
<1>21. ASSUME NEW s \in BOOLEAN, RecvRequest(s)
      PROVE  Phases'
  BY <1>21 DEF Phases, TypeOK, SessionType, StoreType, Stopping, RecvRequest,
    RecvStep, life, request, channels, persistence, exchange, delivery,
    observed
<1>22. CASE RecvReply
  BY <1>22 DEF Phases, TypeOK, SessionType, StoreType, Stopping, RecvReply,
    life, request, channels, persistence, exchange, delivery, observed
<1>23. CASE RecvClosed
  BY <1>23 DEF Phases, TypeOK, SessionType, StoreType, Stopping, RecvClosed,
    life, request, channels, persistence, exchange, delivery, observed
<1>24. ASSUME NEW m \in Message, List(m)
      PROVE  Phases'
  BY <1>24 DEF Phases, TypeOK, SessionType, StoreType, Stopping, List,
    DeliverStep, Goes, life, request, channels, persistence, exchange,
    delivery, observed
<1>25. ASSUME NEW m \in Message, Lookup(m)
      PROVE  Phases'
  BY <1>25 DEF Phases, TypeOK, SessionType, StoreType, Stopping, Lookup,
    DeliverStep, Goes, life, request, channels, persistence, exchange,
    delivery, observed
<1>26. ASSUME NEW m \in Message, Check(m)
      PROVE  Phases'
  BY <1>26 DEF Phases, TypeOK, SessionType, StoreType, Stopping, Check,
    DeliverStep, Goes, Crash, life, request, channels, persistence, exchange,
    delivery, observed
<1>27. ASSUME NEW m \in Message, AddOutbound(m)
      PROVE  Phases'
  BY <1>27 DEF Phases, TypeOK, SessionType, StoreType, Stopping, AddOutbound,
    DeliverStep, Goes, Crash, Persist, life, request, channels, persistence,
    exchange, delivery, observed
<1>28. ASSUME NEW m \in Message, Enqueue(m)
      PROVE  Phases'
  BY <1>28 DEF Phases, TypeOK, SessionType, StoreType, Stopping, Enqueue,
    DeliverStep, Goes, Crash, NotYet, Current, life, request, channels,
    persistence, exchange, delivery, observed
<1>29. QED
  BY <1>1, <1>2, <1>3, <1>4, <1>5, <1>6, <1>7, <1>8, <1>9, <1>10, <1>11,
    <1>12, <1>13, <1>14, <1>15, <1>16, <1>17, <1>18, <1>19, <1>20, <1>21,
    <1>22, <1>23, <1>24, <1>25, <1>26, <1>27, <1>28 DEF Next, Connect, Start, Stop, Send, Receive, Deliver

\* The life of the session is changed by connections, Start and Stop only.
LEMMA LifeChanges ==
  ASSUME [Next]_vars
  PROVE  \/ UNCHANGED <<life, stale>>
         \/ \E c \in BOOLEAN : Connect(c)
         \/ Start \/ Stop
<1>1. CASE UNCHANGED vars
  BY <1>1 DEF vars, observed
<1>2. CASE Send
  BY <1>2 DEF Send, SendMessage, SendPriority, SendStep, observed
<1>3. ASSUME NEW x \in due, RecvPuback(x) \/ RecvPubrec(x) \/ RecvPubcomp(x)
      PROVE  UNCHANGED <<life, stale>>
  BY <1>3 DEF RecvPuback, RecvPubrec, RecvPubcomp, RecvStep, observed
<1>4. ASSUME NEW kind, NEW answer, RecvInbound(kind, answer)
      PROVE  UNCHANGED <<life, stale>>
  BY <1>4 DEF RecvInbound, RecvStep, observed
<1>5. ASSUME NEW s \in BOOLEAN, RecvRequest(s)
      PROVE  UNCHANGED <<life, stale>>
  BY <1>5 DEF RecvRequest, RecvStep, observed
<1>6. CASE RecvReply \/ RecvClosed
  BY <1>6 DEF RecvReply, RecvClosed, observed
<1>7. ASSUME NEW m \in Message, Deliver(m)
      PROVE  UNCHANGED <<life, stale>>
  BY <1>7 DEF Deliver, List, Lookup, Check, AddOutbound, Enqueue, DeliverStep,
    Crash, observed
<1>8. QED
  BY <1>1, <1>2, <1>3, <1>4, <1>5, <1>6, <1>7 DEF Next, Receive

\* An object is CONNECTED out of its time only when it was stopped before its
\* Start was over.
LEMMA ConnectingStep ==
  ASSUME TypeOK, Phases, Connecting, [Next]_vars
  PROVE  Connecting'
<1> DEFINE Spoken(o) == o \in connected \/ \E start \in starting : start.object = o
           Serving(o) == o = object /\ (phase = "up" \/ takeOver)
<1>1. \A o : Spoken(o) => o \in stale \/ Serving(o)
  BY DEF Connecting
<1>2. SUFFICES ASSUME NEW o, Spoken(o)'
               PROVE  o \in stale' \/ Serving(o)'
  BY DEF Connecting
<1>3. CASE UNCHANGED <<life, stale>>
  BY <1>1, <1>2, <1>3 DEF life
<1>4. ASSUME NEW c \in BOOLEAN, Connect(c)
      PROVE  o \in stale' \/ Serving(o)'
  <2>1. UNCHANGED <<connected, starting, stale>>
    BY <1>4 DEF Connect, observed
  <2>2. o \in stale \/ Serving(o)
    BY <1>1, <1>2, <2>1
  <2>3. QED
    BY <1>4, <2>1, <2>2 DEF Connect, ConnectNew, ConnectResume,
      ConnectTakeover, TypeOK, SessionType
<1>5. CASE StartOpen \/ StartReplay
  <2>1. /\ UNCHANGED <<connected, starting, stale, object, takeOver>>
        /\ phase # "up"
    BY <1>5 DEF StartOpen, StartReplay, StartStep
  <2>2. QED
    BY <1>1, <1>2, <2>1
<1>6. CASE StartServe
  <2>1. /\ UNCHANGED <<connected, stale, object, takeOver>> /\ phase' = "up"
        /\ starting' = starting \cup {[session |-> session, object |-> object]}
        /\ phase # "up"
    BY <1>6 DEF StartServe, StartStep
  <2>2. Spoken(o) \/ o = object
    BY <1>2, <2>1
  <2>3. QED
    BY <1>1, <2>1, <2>2
<1>7. CASE StartConnected
  <2>1. /\ UNCHANGED <<stale, object, takeOver, phase>>
        /\ \E start \in starting : /\ connected' = connected \cup {start.object}
                                  /\ starting' = starting \ {start}
    BY <1>7 DEF StartConnected, observed
  <2>2. Spoken(o)
    BY <1>2, <2>1
  <2>3. QED
    BY <1>1, <2>1, <2>2
<1>8. CASE StopDrain
  <2>1. /\ UNCHANGED <<starting, object, takeOver>> /\ ~takeOver
        /\ connected' = connected \ {object}
        /\ stale' = IF Starting(object) THEN stale \cup {object} ELSE stale
    BY <1>8 DEF StopDrain, StopStep
  <2>2. Spoken(o) /\ (o = object => Starting(object))
    BY <1>2, <2>1 DEF Starting
  <2>3. QED
    BY <1>1, <2>1, <2>2
<1>9. CASE StopTaken \/ StopClose \/ StopUnmap \/ StopUnsubscribe \/ StopRelease
  <2>1. /\ UNCHANGED <<connected, starting, stale, object, takeOver>>
        /\ phase = "up" => phase' = "up"
    BY <1>9 DEF StopTaken, StopClose, StopUnmap, StopUnsubscribe, StopRelease,
      Teardown, StopStep, observed
  <2>2. QED
    BY <1>1, <1>2, <2>1
<1>10. QED
  BY <1>3, <1>4, <1>5, <1>6, <1>7, <1>8, <1>9, LifeChanges DEF Start, Stop

\* A delivery that no Stop runs beside still finds what it found.
LEMMA BesideStep ==
  ASSUME TypeOK, Phases, Connecting, Beside, [Next]_vars
  PROVE  Beside'
<1>1. CASE UNCHANGED vars
  BY <1>1 DEF Beside, InFlight, TypeOK, SessionType, DeliveryType, Phases,
    Stopping, Current, vars, life, request, channels, persistence, exchange,
    delivery, observed
<1>2. ASSUME NEW c \in BOOLEAN, Connect(c) /\ ConnectNew(c)
      PROVE  Beside'
  <2>1. /\ UNCHANGED <<at, to, live, stored, overlap, stale, connected>>
        /\ known' = TRUE /\ phase' = "open" /\ phase = "down" /\ ~takeOver
    BY <1>2 DEF Connect, ConnectNew, delivery, persistence, observed, TypeOK,
      SessionType
  <2>2. object \in connected => object \in stale
    BY <2>1 DEF Connecting
  <2>3. QED
    BY <2>1, <2>2 DEF Beside, InFlight, Current, Stopping
<1>3. ASSUME NEW c \in BOOLEAN, Connect(c) /\ ConnectResume(c)
      PROVE  Beside'
  BY <1>3, NilAssumption DEF Beside, InFlight, TypeOK, SessionType,
    DeliveryType, Phases, Stopping, Current, Connect, ConnectResume, life,
    request, channels, persistence, exchange, delivery, observed
<1>4. ASSUME NEW c \in BOOLEAN, Connect(c) /\ ConnectTakeover(c)
      PROVE  Beside'
  BY <1>4, NilAssumption DEF Beside, InFlight, TypeOK, SessionType,
    DeliveryType, Phases, Stopping, Current, Connect, ConnectTakeover, life,
    request, channels, persistence, exchange, delivery, observed
<1>5. CASE StartOpen
  BY <1>5, NilAssumption DEF Beside, InFlight, TypeOK, SessionType,
    DeliveryType, Phases, Stopping, Current, StartOpen, StartStep, life,
    request, channels, persistence, exchange, delivery, observed
<1>6. CASE StartReplay
  BY <1>6, NilAssumption DEF Beside, InFlight, TypeOK, SessionType,
    DeliveryType, Phases, Stopping, Current, StartReplay, StartStep, Rest,
    HasRoom, life, request, channels, persistence, exchange, delivery,
    observed
<1>7. CASE StartServe
  BY <1>7, NilAssumption DEF Beside, InFlight, TypeOK, SessionType,
    DeliveryType, Phases, Stopping, Current, StartServe, StartStep, life,
    request, channels, persistence, exchange, delivery, observed
<1>8. CASE StartConnected
  BY <1>8, NilAssumption DEF Beside, InFlight, TypeOK, SessionType,
    DeliveryType, Phases, Stopping, Current, StartConnected, life,
    request, channels, persistence, exchange, delivery, observed
<1>9. CASE StopTaken
  BY <1>9, NilAssumption DEF Beside, InFlight, TypeOK, SessionType,
    DeliveryType, Phases, Stopping, Current, StopTaken, StopStep, life,
    request, channels, persistence, exchange, delivery, observed
<1>10. CASE StopDrain
  BY <1>10, NilAssumption DEF Beside, InFlight, TypeOK, SessionType,
    DeliveryType, Phases, Stopping, Current, StopDrain, StopStep, life,
    request, channels, persistence, exchange, delivery, observed
<1>11. CASE StopClose
  BY <1>11, NilAssumption DEF Beside, InFlight, TypeOK, SessionType,
    DeliveryType, Phases, Stopping, Current, StopClose, Teardown, StopStep,
    life, request, channels, persistence, exchange, delivery, observed
<1>12. CASE StopUnmap
  BY <1>12, NilAssumption DEF Beside, InFlight, TypeOK, SessionType,
    DeliveryType, Phases, Stopping, Current, StopUnmap, Teardown, StopStep,
    life, request, channels, persistence, exchange, delivery, observed
<1>13. CASE StopUnsubscribe
  BY <1>13, NilAssumption DEF Beside, InFlight, TypeOK, SessionType,
    DeliveryType, Phases, Stopping, Current, StopUnsubscribe, Teardown,
    StopStep, life, request, channels, persistence, exchange, delivery,
    observed
<1>14. CASE StopRelease
  BY <1>14, NilAssumption DEF Beside, InFlight, TypeOK, SessionType,
    DeliveryType, Phases, Stopping, Current, StopRelease, Teardown, StopStep,
    life, request, channels, persistence, exchange, delivery, observed
<1>15. CASE SendMessage
  BY <1>15, NilAssumption DEF Beside, InFlight, TypeOK, SessionType,
    DeliveryType, Phases, Stopping, Current, SendMessage, SendStep, life,
    request, channels, persistence, exchange, delivery, observed
<1>16. CASE SendPriority
  BY <1>16, NilAssumption DEF Beside, InFlight, TypeOK, SessionType,
    DeliveryType, Phases, Stopping, Current, SendPriority, SendStep, life,
    request, channels, persistence, exchange, delivery, observed
<1>17. ASSUME NEW x \in due, RecvPuback(x)
      PROVE  Beside'
  BY <1>17, NilAssumption DEF Beside, InFlight, TypeOK, SessionType,
    DeliveryType, Phases, Stopping, Current, RecvPuback, RecvStep, Delete,
    freeID, life, request, channels, persistence, exchange, delivery, observed
<1>18. ASSUME NEW x \in due, RecvPubrec(x)
      PROVE  Beside'
  BY <1>18, NilAssumption DEF Beside, InFlight, TypeOK, SessionType,
    DeliveryType, Phases, Stopping, Current, RecvPubrec, RecvStep, Replace,
    life, request, channels, persistence, exchange, delivery, observed
<1>19. ASSUME NEW x \in due, RecvPubcomp(x)
      PROVE  Beside'
  BY <1>19, NilAssumption DEF Beside, InFlight, TypeOK, SessionType,
    DeliveryType, Phases, Stopping, Current, RecvPubcomp, RecvStep, freeID,
    life, request, channels, persistence, exchange, delivery, observed
<1>20. ASSUME NEW kind \in {"PUBLISH", "PUBREL"},
                NEW answer \in {"PUBACK", "PUBREC", "PUBCOMP"}, RecvInbound(kind, answer)
      PROVE  Beside'
  BY <1>20, NilAssumption DEF Beside, InFlight, TypeOK, SessionType,
    DeliveryType, Phases, Stopping, Current, RecvInbound, RecvStep, Delete,
    life, request, channels, persistence, exchange, delivery, observed
<1>21. ASSUME NEW s \in BOOLEAN, RecvRequest(s)
      PROVE  Beside'
  BY <1>21, NilAssumption DEF Beside, InFlight, TypeOK, SessionType,
    DeliveryType, Phases, Stopping, Current, RecvRequest, RecvStep, life,
    request, channels, persistence, exchange, delivery, observed
<1>22. CASE RecvReply
  BY <1>22, NilAssumption DEF Beside, InFlight, TypeOK, SessionType,
    DeliveryType, Phases, Stopping, Current, RecvReply, life, request,
    channels, persistence, exchange, delivery, observed
<1>23. CASE RecvClosed
  BY <1>23, NilAssumption DEF Beside, InFlight, TypeOK, SessionType,
    DeliveryType, Phases, Stopping, Current, RecvClosed, life, request,
    channels, persistence, exchange, delivery, observed
<1>24. ASSUME NEW m \in Message, List(m)
      PROVE  Beside'
  BY <1>24, NilAssumption DEF Beside, InFlight, TypeOK, SessionType,
    DeliveryType, Phases, Stopping, Current, List, DeliverStep, Goes, life,
    request, channels, persistence, exchange, delivery, observed
<1>25. ASSUME NEW m \in Message, Lookup(m)
      PROVE  Beside'
  BY <1>25, NilAssumption DEF Beside, InFlight, TypeOK, SessionType,
    DeliveryType, Phases, Stopping, Current, Lookup, DeliverStep, Goes, life,
    request, channels, persistence, exchange, delivery, observed
<1>26. ASSUME NEW m \in Message, Check(m)
      PROVE  Beside'
  <2>1. UNCHANGED <<life, overlap, stale, to, stored>>
    BY <1>26 DEF Check, DeliverStep, Crash, delivery, observed
  <2>2. /\ m \in Message /\ at[m] = "found"
        /\ \/ UNCHANGED <<at, live>>
           \/ /\ at' \in {[at EXCEPT ![m] = s] : s \in {"add", "queue", "done"}}
              /\ live' = [live EXCEPT ![m] = Connected(m)]
    BY <1>26 DEF Check, DeliverStep, Goes, Crash, delivery
  <2>3. Connected(m) => to[m] \in stale \/ (Current(m) /\ object \in connected)
    BY DEF Connected, Connecting, Current
  <2>4. ASSUME NEW n \in Message, n \notin overlap
        PROVE  /\ InFlight(n)' => InFlight(n)
               /\ at'[n] = "found" => at[n] = "found"
               /\ at'[n] \in {"add", "queue"} /\ live'[n] =>
                    \/ at[n] \in {"add", "queue"} /\ live[n]
                    \/ n = m /\ Connected(m)
    BY <2>2 DEF InFlight, TypeOK, DeliveryType
  <2>5. QED
    BY <2>1, <2>3, <2>4 DEF Beside, Current, Stopping, life
<1>27. ASSUME NEW m \in Message, AddOutbound(m)
      PROVE  Beside'
  BY <1>27, NilAssumption DEF Beside, InFlight, TypeOK, SessionType,
    DeliveryType, Phases, Stopping, Current, AddOutbound, DeliverStep, Goes,
    Crash, Persist, life, request, channels, persistence, exchange, delivery,
    observed
<1>28. ASSUME NEW m \in Message, Enqueue(m)
      PROVE  Beside'
  BY <1>28, NilAssumption DEF Beside, InFlight, TypeOK, SessionType,
    DeliveryType, Phases, Stopping, Current, Enqueue, DeliverStep, Goes,
    Crash, life, request, channels, persistence, exchange, delivery, observed
<1>29. QED
  BY <1>1, <1>2, <1>3, <1>4, <1>5, <1>6, <1>7, <1>8, <1>9, <1>10, <1>11,
    <1>12, <1>13, <1>14, <1>15, <1>16, <1>17, <1>18, <1>19, <1>20, <1>21,
    <1>22, <1>23, <1>24, <1>25, <1>26, <1>27, <1>28 DEF Next, Connect, Start, Stop, Send, Receive, Deliver

\* Only a delivery beside a Stop panics, or a send on an object that is stale.
LEMMA PanicStep ==
  ASSUME TypeOK, Phases, Connecting, Beside, NotYet, PanicNeedsStop, [Next]_vars
  PROVE  PanicNeedsStop'
<1>1. CASE UNCHANGED vars
  BY <1>1 DEF PanicNeedsStop, Up, vars, life, request, channels, persistence,
    exchange, delivery, observed
<1>2. ASSUME NEW c \in BOOLEAN, Connect(c) /\ ConnectNew(c)
      PROVE  PanicNeedsStop'
  BY <1>2, NilAssumption DEF PanicNeedsStop, Up, Connect, ConnectNew, life, request,
    channels, persistence, exchange, delivery, observed
<1>3. ASSUME NEW c \in BOOLEAN, Connect(c) /\ ConnectResume(c)
      PROVE  PanicNeedsStop'
  BY <1>3 DEF PanicNeedsStop, Up, Connect, ConnectResume, life, request,
    channels, persistence, exchange, delivery, observed
<1>4. ASSUME NEW c \in BOOLEAN, Connect(c) /\ ConnectTakeover(c)
      PROVE  PanicNeedsStop'
  BY <1>4 DEF PanicNeedsStop, Up, Connect, ConnectTakeover, life, request,
    channels, persistence, exchange, delivery, observed
<1>5. CASE StartOpen
  BY <1>5 DEF PanicNeedsStop, Up, StartOpen, StartStep, life, request,
    channels, persistence, exchange, delivery, observed
<1>6. CASE StartReplay
  BY <1>6 DEF PanicNeedsStop, Up, StartReplay, StartStep, Rest, HasRoom, life,
    request, channels, persistence, exchange, delivery, observed
<1>7. CASE StartServe
  BY <1>7 DEF PanicNeedsStop, Up, StartServe, StartStep, life, request,
    channels, persistence, exchange, delivery, observed
<1>8. CASE StartConnected
  BY <1>8 DEF PanicNeedsStop, Up, StartConnected, life, request,
    channels, persistence, exchange, delivery, observed
<1>9. CASE StopTaken
  BY <1>9 DEF PanicNeedsStop, Up, StopTaken, StopStep, life, request,
    channels, persistence, exchange, delivery, observed
<1>10. CASE StopDrain
  BY <1>10 DEF PanicNeedsStop, Up, StopDrain, StopStep, life, request,
    channels, persistence, exchange, delivery, observed
<1>11. CASE StopClose
  BY <1>11 DEF PanicNeedsStop, Up, StopClose, Teardown, StopStep, life,
    request, channels, persistence, exchange, delivery, observed
<1>12. CASE StopUnmap
  BY <1>12 DEF PanicNeedsStop, Up, StopUnmap, Teardown, StopStep, life,
    request, channels, persistence, exchange, delivery, observed
<1>13. CASE StopUnsubscribe
  BY <1>13 DEF PanicNeedsStop, Up, StopUnsubscribe, Teardown, StopStep, life,
    request, channels, persistence, exchange, delivery, observed
<1>14. CASE StopRelease
  BY <1>14 DEF PanicNeedsStop, Up, StopRelease, Teardown, StopStep, life,
    request, channels, persistence, exchange, delivery, observed
<1>15. CASE SendMessage
  BY <1>15 DEF PanicNeedsStop, Up, SendMessage, SendStep, life, request,
    channels, persistence, exchange, delivery, observed
<1>16. CASE SendPriority
  BY <1>16 DEF PanicNeedsStop, Up, SendPriority, SendStep, life, request,
    channels, persistence, exchange, delivery, observed
<1>17. ASSUME NEW x \in due, RecvPuback(x)
      PROVE  PanicNeedsStop'
  BY <1>17 DEF PanicNeedsStop, Up, RecvPuback, RecvStep, Delete, freeID, life,
    request, channels, persistence, exchange, delivery, observed
<1>18. ASSUME NEW x \in due, RecvPubrec(x)
      PROVE  PanicNeedsStop'
  BY <1>18 DEF PanicNeedsStop, Up, RecvPubrec, RecvStep, Replace, life,
    request, channels, persistence, exchange, delivery, observed
<1>19. ASSUME NEW x \in due, RecvPubcomp(x)
      PROVE  PanicNeedsStop'
  BY <1>19 DEF PanicNeedsStop, Up, RecvPubcomp, RecvStep, freeID, life,
    request, channels, persistence, exchange, delivery, observed
<1>20. ASSUME NEW kind \in {"PUBLISH", "PUBREL"},
                NEW answer \in {"PUBACK", "PUBREC", "PUBCOMP"}, RecvInbound(kind, answer)
      PROVE  PanicNeedsStop'
  BY <1>20 DEF PanicNeedsStop, Up, RecvInbound, RecvStep, Delete, life,
    request, channels, persistence, exchange, delivery, observed
<1>21. ASSUME NEW s \in BOOLEAN, RecvRequest(s)
      PROVE  PanicNeedsStop'
  BY <1>21 DEF PanicNeedsStop, Up, RecvRequest, RecvStep, life, request,
    channels, persistence, exchange, delivery, observed
<1>22. CASE RecvReply
  BY <1>22 DEF PanicNeedsStop, Up, RecvReply, life, request, channels,
    persistence, exchange, delivery, observed
<1>23. CASE RecvClosed
  <2>1. object \in stale
    BY <1>23 DEF RecvClosed, Phases, TypeOK, SessionType
  <2>2. panic' \notin Message
    BY <1>23, ClosedPacket, MessageAssumption
  <2>3. QED
    BY <1>23, <2>1, <2>2 DEF PanicNeedsStop, RecvClosed, life, observed
<1>24. ASSUME NEW m \in Message, List(m)
      PROVE  PanicNeedsStop'
  BY <1>24 DEF PanicNeedsStop, Up, List, DeliverStep, Goes, life, request,
    channels, persistence, exchange, delivery, observed
<1>25. ASSUME NEW m \in Message, Lookup(m)
      PROVE  PanicNeedsStop'
  BY <1>25, NilAssumption DEF PanicNeedsStop, Up, Lookup, DeliverStep, Goes, life, request,
    channels, persistence, exchange, delivery, observed
<1>26. ASSUME NEW m \in Message, Check(m)
      PROVE  PanicNeedsStop'
  <2>1. UNCHANGED <<to, overlap, stale>> /\ panic = Nil
    BY <1>26 DEF Check, DeliverStep, Crash, delivery, observed, Up
  <2>2. \/ panic' = panic
        \/ panic' = m /\ at[m] = "found" /\ to[m] = Nil
    BY <1>26 DEF Check, DeliverStep, Crash
  <2>3. QED
    BY <2>1, <2>2, NilAssumption, MessageAssumption DEF PanicNeedsStop, Beside
<1>27. ASSUME NEW m \in Message, AddOutbound(m)
      PROVE  PanicNeedsStop'
  <2>1. UNCHANGED <<to, overlap, stale>> /\ panic = Nil
    BY <1>27 DEF AddOutbound, DeliverStep, Crash, delivery, observed, Up
  <2>2. panic' = panic \/ (panic' = m /\ at[m] = "add" /\ ~stored)
    BY <1>27 DEF AddOutbound, DeliverStep, Crash
  <2>3. QED
    BY <2>1, <2>2, NilAssumption, MessageAssumption DEF PanicNeedsStop, Beside,
      InFlight
<1>28. ASSUME NEW m \in Message, Enqueue(m)
      PROVE  PanicNeedsStop'
  <2>1. UNCHANGED <<to, overlap, stale>> /\ panic = Nil
    BY <1>28 DEF Enqueue, DeliverStep, Crash, delivery, observed, Up
  <2>2. \/ panic' = panic
        \/ panic' = m /\ at[m] = "queue" /\ (~Current(m) \/ closed)
    BY <1>28 DEF Enqueue, DeliverStep, Crash
  <2>3. CASE panic' = m /\ at[m] = "queue" /\ (~Current(m) \/ closed)
    <3>1. m \in overlap \/ to[m] \in stale \/ (Current(m) /\ object \in connected)
      BY <2>3 DEF Beside, NotYet
    <3>2. Current(m) /\ object \in connected /\ closed => to[m] \in stale
      BY DEF Current, Connecting, Phases, TypeOK, SessionType
    <3>3. m \in overlap \/ to[m] \in stale
      BY <2>3, <3>1, <3>2
    <3>4. QED
      BY <2>1, <2>3, <3>3, MessageAssumption DEF PanicNeedsStop
  <2>4. QED
    BY <2>1, <2>2, <2>3, NilAssumption DEF PanicNeedsStop
<1>29. QED
  BY <1>1, <1>2, <1>3, <1>4, <1>5, <1>6, <1>7, <1>8, <1>9, <1>10, <1>11,
    <1>12, <1>13, <1>14, <1>15, <1>16, <1>17, <1>18, <1>19, <1>20, <1>21,
    <1>22, <1>23, <1>24, <1>25, <1>26, <1>27, <1>28 DEF Next, Connect, Start, Stop, Send, Receive, Deliver

\* A message is nowhere before its delivery stores or queues it.
LEMMA NotYetStep ==
  ASSUME TypeOK, Phases, Connecting, NotYet, [Next]_vars
  PROVE  NotYet'
<1>1. CASE UNCHANGED vars
  BY <1>1 DEF NotYet, Current, Waits, TypeOK, DeliveryType, StoreType,
    Stopping, SessionType, vars, life, request, channels, persistence,
    exchange, delivery, observed
<1>2. ASSUME NEW c \in BOOLEAN, Connect(c) /\ ConnectNew(c)
      PROVE  NotYet'
  <2>1. /\ UNCHANGED <<at, to, live, outbound, replay>> /\ phase = "down"
        /\ messages' = <<>> /\ wrote' = {} /\ clean' = c
    BY <1>2 DEF Connect, ConnectNew, delivery, persistence
  <2>2. replay = {}
    BY <2>1 DEF TypeOK, StoreType
  <2>3. \A n \in Message : ~Waits(n)'
    BY <2>1, NoneWaits
  <2>4. \A n \in Message : to[n] # object'
    BY <1>2, NilAssumption DEF Connect, ConnectNew, TypeOK, SessionType,
      DeliveryType
  <2>5. QED
    BY <2>1, <2>2, <2>3, <2>4 DEF NotYet, Current
<1>3. ASSUME NEW c \in BOOLEAN, Connect(c) /\ ConnectResume(c)
      PROVE  NotYet'
  <2>1. /\ UNCHANGED <<at, to, live, outbound, replay>> /\ phase = "down"
        /\ messages' = <<>> /\ wrote' = {} /\ clean' = c
    BY <1>3 DEF Connect, ConnectResume, delivery, persistence
  <2>2. replay = {}
    BY <2>1 DEF TypeOK, StoreType
  <2>3. \A n \in Message : ~Waits(n)'
    BY <2>1, NoneWaits
  <2>4. c = TRUE /\ UNCHANGED object
    BY <1>3 DEF ConnectResume
  <2>5. QED
    BY <2>1, <2>2, <2>3, <2>4 DEF NotYet, Current
<1>4. ASSUME NEW c \in BOOLEAN, Connect(c) /\ ConnectTakeover(c)
      PROVE  NotYet'
  <2>1. /\ UNCHANGED <<at, to, live, outbound, replay, messages, object>>
        /\ phase \in {"up", "down"} /\ wrote' = {} /\ clean' = TRUE
    BY <1>4 DEF Connect, ConnectTakeover, delivery, persistence, channels
  <2>2. replay = {}
    BY <2>1 DEF TypeOK, StoreType
  <2>3. QED
    BY <2>1, <2>2 DEF NotYet, Current, Waits
<1>5. CASE StartOpen
  BY <1>5 DEF NotYet, Current, Waits, TypeOK, DeliveryType, StoreType,
    Stopping, SessionType, StartOpen, StartStep, life, request, channels,
    persistence, exchange, delivery, observed
<1>6. CASE StartReplay
  <2>1. /\ UNCHANGED <<life, at, to, live, outbound, wrote>>
        /\ replay' \subseteq replay
    BY <1>6 DEF StartReplay, StartStep, Rest, delivery, persistence, exchange,
      life, request
  <2>2. PICK packet \in replay :
          \/ packet \in Message /\ messages' = Append(messages, packet)
          \/ UNCHANGED messages
    BY <1>6 DEF StartReplay
  <2>3. packet \in outbound
    BY <1>6, <2>2 DEF TypeOK, StoreType
  <2>4. \A n \in Message : Waits(n)' => Waits(n) \/ n = packet
    BY <2>2, OneMoreWaits DEF Waits
  <2>5. QED
    BY <2>1, <2>2, <2>3, <2>4 DEF NotYet, Current, life, request
<1>7. CASE StartServe
  BY <1>7 DEF NotYet, Current, Waits, TypeOK, DeliveryType, StoreType,
    Stopping, SessionType, StartServe, StartStep, life, request, channels,
    persistence, exchange, delivery, observed
<1>8. CASE StartConnected
  BY <1>8 DEF NotYet, Current, Waits, TypeOK, DeliveryType, StoreType,
    Stopping, SessionType, StartConnected, life, request, channels,
    persistence, exchange, delivery, observed
<1>9. CASE StopTaken
  BY <1>9 DEF NotYet, Current, Waits, TypeOK, DeliveryType, StoreType,
    Stopping, SessionType, StopTaken, StopStep, life, request, channels,
    persistence, exchange, delivery, observed
<1>10. CASE StopDrain
  BY <1>10 DEF NotYet, Current, Waits, TypeOK, DeliveryType, StoreType,
    Stopping, SessionType, StopDrain, StopStep, life, request, channels,
    persistence, exchange, delivery, observed
<1>11. CASE StopClose
  BY <1>11 DEF NotYet, Current, Waits, TypeOK, DeliveryType, StoreType,
    Stopping, SessionType, StopClose, Teardown, StopStep, life, request,
    channels, persistence, exchange, delivery, observed
<1>12. CASE StopUnmap
  BY <1>12 DEF NotYet, Current, Waits, TypeOK, DeliveryType, StoreType,
    Stopping, SessionType, StopUnmap, Teardown, StopStep, life, request,
    channels, persistence, exchange, delivery, observed
<1>13. CASE StopUnsubscribe
  BY <1>13 DEF NotYet, Current, Waits, TypeOK, DeliveryType, StoreType,
    Stopping, SessionType, StopUnsubscribe, Teardown, StopStep, life, request,
    channels, persistence, exchange, delivery, observed
<1>14. CASE StopRelease
  BY <1>14 DEF NotYet, Current, Waits, TypeOK, DeliveryType, StoreType,
    Stopping, SessionType, StopRelease, Teardown, StopStep, life, request,
    channels, persistence, exchange, delivery, observed
<1>15. CASE SendMessage
  <2>1. /\ UNCHANGED <<life, at, to, live, replay, outbound>>
        /\ messages # <<>> /\ messages' = Tail(messages)
        /\ wrote' = wrote \cup {Head(messages)}
    BY <1>15 DEF SendMessage, SendStep, delivery, persistence
  <2>2. QED
    BY <2>1, OneLessWaits DEF NotYet, Current, life, request
<1>16. CASE SendPriority
  <2>1. UNCHANGED <<life, at, to, live, replay, outbound, wrote, messages>>
    BY <1>16 DEF SendPriority, SendStep, delivery, persistence
  <2>2. QED
    BY <2>1 DEF NotYet, Current, life, request, Waits
<1>17. ASSUME NEW x \in due, RecvPuback(x)
      PROVE  NotYet'
  <2>1. UNCHANGED <<life, at, to, live, replay, wrote, messages>>
    BY <1>17 DEF RecvPuback, RecvStep, delivery
  <2>2. \A n \in Message : n \in outbound' <=> n \in outbound
    BY <1>17, ReceiveKeeps
  <2>3. QED
    BY <2>1, <2>2 DEF NotYet, Current, life, request, Waits
<1>18. ASSUME NEW x \in due, RecvPubrec(x)
      PROVE  NotYet'
  <2>1. UNCHANGED <<life, at, to, live, replay, wrote, messages>>
    BY <1>18 DEF RecvPubrec, RecvStep, delivery
  <2>2. \A n \in Message : n \in outbound' <=> n \in outbound
    BY <1>18, ReceiveKeeps
  <2>3. QED
    BY <2>1, <2>2 DEF NotYet, Current, life, request, Waits
<1>19. ASSUME NEW x \in due, RecvPubcomp(x)
      PROVE  NotYet'
  <2>1. UNCHANGED <<life, at, to, live, replay, wrote, messages, outbound>>
    BY <1>19 DEF RecvPubcomp, RecvStep, delivery
  <2>2. QED
    BY <2>1 DEF NotYet, Current, life, request, Waits
<1>20. ASSUME NEW kind \in {"PUBLISH", "PUBREL"},
                NEW answer \in {"PUBACK", "PUBREC", "PUBCOMP"}, RecvInbound(kind, answer)
      PROVE  NotYet'
  <2>1. UNCHANGED <<life, at, to, live, replay, wrote, messages, outbound>>
    BY <1>20 DEF RecvInbound, RecvStep, delivery
  <2>2. QED
    BY <2>1 DEF NotYet, Current, life, request, Waits
<1>21. ASSUME NEW s \in BOOLEAN, RecvRequest(s)
      PROVE  NotYet'
  <2>1. UNCHANGED <<life, at, to, live, replay, wrote, messages, outbound>>
    BY <1>21 DEF RecvRequest, RecvStep, delivery
  <2>2. QED
    BY <2>1 DEF NotYet, Current, life, request, Waits
<1>22. CASE RecvReply
  <2>1. UNCHANGED <<life, at, to, live, replay, wrote, messages, outbound>>
    BY <1>22 DEF RecvReply, delivery, exchange, persistence
  <2>2. QED
    BY <2>1 DEF NotYet, Current, life, request, Waits
<1>23. CASE RecvClosed
  <2>1. UNCHANGED <<life, at, to, live, replay, wrote, messages, outbound>>
    BY <1>23 DEF RecvClosed, delivery, exchange, persistence, channels
  <2>2. QED
    BY <2>1 DEF NotYet, Current, life, request, Waits
<1>24. ASSUME NEW m \in Message, List(m)
      PROVE  NotYet'
  BY <1>24 DEF NotYet, Current, Waits, TypeOK, DeliveryType, StoreType,
    Stopping, SessionType, List, DeliverStep, Goes, life, request, channels,
    persistence, exchange, delivery, observed
<1>25. ASSUME NEW m \in Message, Lookup(m)
      PROVE  NotYet'
  BY <1>25 DEF NotYet, Current, Waits, TypeOK, DeliveryType, StoreType,
    Stopping, SessionType, Lookup, DeliverStep, Goes, life, request, channels,
    persistence, exchange, delivery, observed
<1>26. ASSUME NEW m \in Message, Check(m)
      PROVE  NotYet'
  <2>1. UNCHANGED <<life, channels, outbound, replay, wrote, to>>
    BY <1>26 DEF Check, DeliverStep, Crash, delivery, channels, exchange
  <2>2. /\ at[m] = "found"
        /\ \/ UNCHANGED <<at, live>>
           \/ /\ at' = [at EXCEPT ![m] = IF Qos[m] > 0 THEN "add"
                                          ELSE IF Connected(m) THEN "queue" ELSE "done"]
              /\ live' = [live EXCEPT ![m] = Connected(m)]
    BY <1>26 DEF Check, DeliverStep, Goes, Crash, delivery
  <2>3. Connected(m) /\ Current(m) /\ ~clean => phase \notin {"open", "replay"}
    BY DEF Connected, Current, Phases, Connecting
  <2>4. m \notin outbound /\ m \notin wrote /\ ~Waits(m) /\ m \notin replay
    BY <2>2 DEF NotYet, TypeOK, StoreType
  <2>5. \A n \in Message : Waits(n)' <=> Waits(n)
    BY <2>1 DEF channels, Waits
  <2>6. QED
    BY <2>1, <2>2, <2>3, <2>4, <2>5 DEF NotYet, Current, life, request,
      TypeOK, DeliveryType
<1>27. ASSUME NEW m \in Message, AddOutbound(m)
      PROVE  NotYet'
  <2>1. UNCHANGED <<life, channels, replay, wrote, to, live>>
    BY <1>27 DEF AddOutbound, DeliverStep, Crash, delivery, channels, exchange
  <2>2. /\ at[m] = "add" /\ outbound' \subseteq outbound \cup {m}
        /\ \/ UNCHANGED <<at, outbound>>
           \/ at' = [at EXCEPT ![m] = IF live[m] THEN "queue" ELSE "done"]
    BY <1>27 DEF AddOutbound, DeliverStep, Goes, Crash, Persist, delivery
  <2>3. m \notin wrote /\ ~Waits(m) /\ m \notin replay
    BY <2>2 DEF NotYet, TypeOK, StoreType
  <2>4. \A n \in Message : Waits(n)' <=> Waits(n)
    BY <2>1 DEF channels, Waits
  <2>5. QED
    BY <2>1, <2>2, <2>3, <2>4 DEF NotYet, Current, life, request, TypeOK,
      DeliveryType
<1>28. ASSUME NEW m \in Message, Enqueue(m)
      PROVE  NotYet'
  <2>1. UNCHANGED <<life, outbound, replay, wrote, to, live>>
    BY <1>28 DEF Enqueue, DeliverStep, Crash, delivery, exchange
  <2>2. /\ at[m] = "queue"
        /\ \/ UNCHANGED <<at, messages>>
           \/ /\ at' = [at EXCEPT ![m] = "done"]
              /\ messages' = Offer(messages, m)
    BY <1>28 DEF Enqueue, DeliverStep, Goes, Crash, delivery
  <2>3. \A n \in Message \ {m} : Waits(n)' => Waits(n)
    BY <2>2, OfferedWaits DEF Waits
  <2>4. QED
    BY <2>1, <2>2, <2>3 DEF NotYet, Current, life, request, TypeOK,
      DeliveryType, Waits
<1>29. QED
  BY <1>1, <1>2, <1>3, <1>4, <1>5, <1>6, <1>7, <1>8, <1>9, <1>10, <1>11,
    <1>12, <1>13, <1>14, <1>15, <1>16, <1>17, <1>18, <1>19, <1>20, <1>21,
    <1>22, <1>23, <1>24, <1>25, <1>26, <1>27, <1>28 DEF Next, Connect, Start, Stop, Send, Receive, Deliver

\* Only messages of QoS 1 and 2 are stored and answered.
LEMMA StoredStep ==
  ASSUME TypeOK, NotYet, Stored, [Next]_vars
  PROVE  Stored'
<1> USE QosAssumption
<1>1. ASSUME UNCHANGED at, outbound' = {} \/ UNCHANGED outbound,
             due' = {} \/ UNCHANGED due
      PROVE  Stored'
  BY <1>1 DEF Stored
<1>3. CASE UNCHANGED vars
  BY <1>3, <1>1 DEF vars, persistence, exchange, delivery
<1>4. ASSUME NEW c \in BOOLEAN, Connect(c)
      PROVE  Stored'
  BY <1>4, <1>1 DEF Connect, persistence, delivery
<1>5. CASE Start
  BY <1>5, <1>1 DEF Start, StartOpen, StartReplay, StartServe, StartConnected,
    StartStep, persistence, exchange, delivery
<1>6. CASE Stop
  BY <1>6, <1>1 DEF Stop, StopTaken, StopDrain, StopClose, StopUnmap,
    StopUnsubscribe, StopRelease, Teardown, StopStep, persistence, delivery
<1>7. CASE SendMessage
  <2>1. /\ UNCHANGED <<at, outbound>>
        /\ \E id : due' = due \cup Owed(Head(messages), id)
        /\ Head(messages) \in Message
    BY <1>7, Taken DEF SendMessage, SendStep, persistence, delivery, TypeOK,
      QueueType
  <2>2. \A id : \A x \in Owed(Head(messages), id) : Qos[x.of] > 0
    BY <2>1 DEF Owed, Exchange
  <2>3. QED
    BY <2>1, <2>2 DEF Stored
<1>8. CASE SendPriority
  <2>1. /\ UNCHANGED <<at, outbound>>
        /\ UNCHANGED due \/ \E id : due' = Answers(id)
    BY <1>8 DEF SendPriority, SendStep, persistence, delivery
  <2>2. \A id : \A x \in Answers(id) : x.of = Nil \/ \E y \in due : x.of = y.of
    BY DEF Answers, Exchange
  <2>3. QED
    BY <2>1, <2>2 DEF Stored
<1>9. ASSUME NEW x \in due, RecvPuback(x) \/ RecvPubrec(x) \/ RecvPubcomp(x)
      PROVE  Stored'
  <2>1. UNCHANGED at /\ \A m \in Message : m \in outbound' <=> m \in outbound
    BY <1>9, ReceiveKeeps DEF RecvPuback, RecvPubrec, RecvPubcomp, RecvStep,
      delivery
  <2>2. due' \subseteq due \cup {Exchange(x.of, x.id, "PUBREL")}
    BY <1>9 DEF RecvPuback, RecvPubrec, RecvPubcomp
  <2>3. QED
    BY <2>1, <2>2 DEF Stored, Exchange
<1>10. ASSUME NEW kind, NEW answer, RecvInbound(kind, answer)
       PROVE  Stored'
  BY <1>10, <1>1 DEF RecvInbound, RecvStep, delivery
<1>11. ASSUME NEW s \in BOOLEAN, RecvRequest(s)
       PROVE  Stored'
  BY <1>11, <1>1 DEF RecvRequest, RecvStep, delivery
<1>12. CASE RecvReply \/ RecvClosed
  BY <1>12, <1>1 DEF RecvReply, RecvClosed, persistence, exchange, delivery
<1>13. ASSUME NEW m \in Message, Deliver(m)
       PROVE  Stored'
  <2>1. /\ UNCHANGED due
        /\ \/ UNCHANGED outbound
           \/ at[m] = "add" /\ outbound' = outbound \cup {m}
        /\ \/ UNCHANGED at
           \/ \E s : at' = [at EXCEPT ![m] = s] /\ (s = "add" => Qos[m] > 0)
    BY <1>13 DEF Deliver, List, Lookup, Check, AddOutbound, Persist, Enqueue,
      DeliverStep, Goes, Crash, delivery, exchange
  <2>2. QED
    BY <2>1 DEF Stored, TypeOK, DeliveryType
<1>14. QED
  BY <1>3, <1>4, <1>5, <1>6, <1>7, <1>8, <1>9, <1>10, <1>11, <1>12, <1>13
    DEF Next, Send, Receive

\* A message waits once, and not after it was written or before it is

\* replayed.
LEMMA OnePlaceStep ==
  ASSUME TypeOK, Phases, NotYet, OnePlace, [Next]_vars
  PROVE  OnePlace'
<1>1. CASE UNCHANGED vars
  BY <1>1 DEF OnePlace, Distinct, Waits, vars, life, request, channels,
    persistence, exchange, delivery, observed
<1>2. ASSUME NEW c \in BOOLEAN, Connect(c) /\ ConnectNew(c)
      PROVE  OnePlace'
  BY <1>2, NoneWaits DEF Connect, ConnectNew, OnePlace
<1>3. ASSUME NEW c \in BOOLEAN, Connect(c) /\ ConnectResume(c)
      PROVE  OnePlace'
  BY <1>3, NoneWaits DEF Connect, ConnectResume, OnePlace
<1>4. ASSUME NEW c \in BOOLEAN, Connect(c) /\ ConnectTakeover(c)
      PROVE  OnePlace'
  <2>1. /\ UNCHANGED <<messages, replay>> /\ phase \in {"up", "down"}
        /\ wrote' = {}
    BY <1>4 DEF Connect, ConnectTakeover, channels
  <2>2. QED
    BY <2>1 DEF OnePlace, Distinct, Waits, TypeOK, StoreType
<1>5. CASE StartOpen
  <2>1. UNCHANGED <<messages, wrote>> /\ phase = "open"
        /\ (replay' # {} => ~clean)
    BY <1>5 DEF StartOpen, StartStep, exchange
  <2>2. wrote = {} /\ (~clean => messages = <<>>)
    BY <2>1 DEF Phases
  <2>3. QED
    BY <2>1, <2>2 DEF OnePlace, Distinct, Waits
<1>6. CASE StartReplay
  <2>1. PICK packet \in replay :
          /\ replay' = replay \ {packet}
          /\ \/ packet \in Message /\ messages' = Append(messages, packet)
             \/ UNCHANGED messages
    BY <1>6 DEF StartReplay, Rest
  <2>2. UNCHANGED wrote /\ wrote = {}
    BY <1>6 DEF StartReplay, StartStep, exchange, Phases
  <2>3. CASE packet \in Message /\ messages' = Append(messages, packet)
    <3>1. ~Waits(packet)
      BY <2>1, <2>3 DEF OnePlace
    <3>2. Distinct' /\ \A m \in Message : Waits(m)' => Waits(m) \/ m = packet
      BY <2>3, <3>1, OneMoreWaits DEF OnePlace
    <3>3. QED
      BY <2>1, <2>2, <3>2 DEF OnePlace
  <2>4. CASE UNCHANGED messages
    BY <2>1, <2>2, <2>4 DEF OnePlace, Distinct, Waits
  <2>5. QED
    BY <2>1, <2>3, <2>4
<1>7. CASE StartServe
  BY <1>7 DEF OnePlace, Distinct, Waits, StartServe, StartStep, life, request,
    channels, persistence, exchange, delivery, observed
<1>8. CASE StartConnected
  BY <1>8 DEF OnePlace, Distinct, Waits, StartConnected, life, request,
    channels, persistence, exchange, delivery, observed
<1>9. CASE StopTaken
  BY <1>9 DEF OnePlace, Distinct, Waits, StopTaken, StopStep, life, request,
    channels, persistence, exchange, delivery, observed
<1>10. CASE StopDrain
  BY <1>10 DEF OnePlace, Distinct, Waits, StopDrain, StopStep, life, request,
    channels, persistence, exchange, delivery, observed
<1>11. CASE StopClose
  BY <1>11 DEF OnePlace, Distinct, Waits, StopClose, Teardown, StopStep, life,
    request, channels, persistence, exchange, delivery, observed
<1>12. CASE StopUnmap
  BY <1>12 DEF OnePlace, Distinct, Waits, StopUnmap, Teardown, StopStep, life,
    request, channels, persistence, exchange, delivery, observed
<1>13. CASE StopUnsubscribe
  BY <1>13 DEF OnePlace, Distinct, Waits, StopUnsubscribe, Teardown, StopStep,
    life, request, channels, persistence, exchange, delivery, observed
<1>14. CASE StopRelease
  BY <1>14 DEF OnePlace, Distinct, Waits, StopRelease, Teardown, StopStep,
    life, request, channels, persistence, exchange, delivery, observed
<1>15. CASE SendMessage
  <2>1. /\ messages # <<>> /\ messages' = Tail(messages)
        /\ wrote' = wrote \cup {Head(messages)} /\ UNCHANGED replay
        /\ phase = "up"
    BY <1>15 DEF SendMessage, SendStep
  <2>2. replay = {}
    BY <2>1 DEF TypeOK, StoreType
  <2>3. QED
    BY <2>1, <2>2, OneLessWaits DEF OnePlace
<1>16. CASE SendPriority
  BY <1>16 DEF OnePlace, Distinct, Waits, SendPriority, SendStep, life,
    request, channels, persistence, exchange, delivery, observed
<1>17. ASSUME NEW x \in due, RecvPuback(x)
      PROVE  OnePlace'
  BY <1>17 DEF OnePlace, Distinct, Waits, RecvPuback, RecvStep, Delete,
    freeID, life, request, channels, persistence, exchange, delivery, observed
<1>18. ASSUME NEW x \in due, RecvPubrec(x)
      PROVE  OnePlace'
  BY <1>18 DEF OnePlace, Distinct, Waits, RecvPubrec, RecvStep, Replace, life,
    request, channels, persistence, exchange, delivery, observed
<1>19. ASSUME NEW x \in due, RecvPubcomp(x)
      PROVE  OnePlace'
  BY <1>19 DEF OnePlace, Distinct, Waits, RecvPubcomp, RecvStep, freeID, life,
    request, channels, persistence, exchange, delivery, observed
<1>20. ASSUME NEW kind \in {"PUBLISH", "PUBREL"},
                NEW answer \in {"PUBACK", "PUBREC", "PUBCOMP"}, RecvInbound(kind, answer)
      PROVE  OnePlace'
  BY <1>20 DEF OnePlace, Distinct, Waits, RecvInbound, RecvStep, Delete, life,
    request, channels, persistence, exchange, delivery, observed
<1>21. ASSUME NEW s \in BOOLEAN, RecvRequest(s)
      PROVE  OnePlace'
  BY <1>21 DEF OnePlace, Distinct, Waits, RecvRequest, RecvStep, life,
    request, channels, persistence, exchange, delivery, observed
<1>22. CASE RecvReply
  BY <1>22 DEF OnePlace, Distinct, Waits, RecvReply, life, request, channels,
    persistence, exchange, delivery, observed
<1>23. CASE RecvClosed
  BY <1>23 DEF OnePlace, Distinct, Waits, RecvClosed, life, request, channels,
    persistence, exchange, delivery, observed
<1>24. ASSUME NEW m \in Message, List(m)
      PROVE  OnePlace'
  BY <1>24 DEF OnePlace, Distinct, Waits, List, DeliverStep, Goes, life,
    request, channels, persistence, exchange, delivery, observed
<1>25. ASSUME NEW m \in Message, Lookup(m)
      PROVE  OnePlace'
  BY <1>25 DEF OnePlace, Distinct, Waits, Lookup, DeliverStep, Goes, life,
    request, channels, persistence, exchange, delivery, observed
<1>26. ASSUME NEW m \in Message, Check(m)
      PROVE  OnePlace'
  BY <1>26 DEF OnePlace, Distinct, Waits, Check, DeliverStep, Goes, Crash,
    life, request, channels, persistence, exchange, delivery, observed
<1>27. ASSUME NEW m \in Message, AddOutbound(m)
      PROVE  OnePlace'
  BY <1>27 DEF OnePlace, Distinct, Waits, AddOutbound, DeliverStep, Goes,
    Crash, Persist, life, request, channels, persistence, exchange, delivery,
    observed
<1>28. ASSUME NEW m \in Message, Enqueue(m)
      PROVE  OnePlace'
  <2>1. UNCHANGED <<replay, wrote>>
        /\ \/ UNCHANGED messages
           \/ at[m] = "queue" /\ Current(m) /\ messages' = Offer(messages, m)
    BY <1>28 DEF Enqueue, DeliverStep, Crash, exchange
  <2>2. CASE UNCHANGED messages
    BY <2>1, <2>2 DEF OnePlace, Distinct, Waits
  <2>3. CASE at[m] = "queue" /\ Current(m) /\ messages' = Offer(messages, m)
    <3>1. ~Waits(m) /\ m \notin wrote \cup replay
      BY <2>3 DEF NotYet
    <3>2. Distinct' /\ \A n \in Message : Waits(n)' => Waits(n) \/ n = m
      BY <2>3, <3>1, OfferedWaits DEF OnePlace
    <3>3. QED
      BY <2>1, <3>1, <3>2 DEF OnePlace
  <2>4. QED
    BY <2>1, <2>2, <2>3
<1>29. QED
  BY <1>1, <1>2, <1>3, <1>4, <1>5, <1>6, <1>7, <1>8, <1>9, <1>10, <1>11,
    <1>12, <1>13, <1>14, <1>15, <1>16, <1>17, <1>18, <1>19, <1>20, <1>21,
    <1>22, <1>23, <1>24, <1>25, <1>26, <1>27, <1>28 DEF Next, Connect, Start, Stop, Send, Receive, Deliver

\* What a delivery stored stays stored.
LEMMA KeptStep ==
  ASSUME TypeOK, Kept, [Next]_vars
  PROVE  Kept'
<1>1. CASE UNCHANGED vars
  BY <1>1 DEF Kept, vars, life, request, channels, persistence, exchange,
    delivery, observed
<1>2. ASSUME NEW c \in BOOLEAN, Connect(c) /\ ConnectNew(c)
      PROVE  Kept'
  BY <1>2 DEF Kept, Connect, ConnectNew, life, request, channels, persistence,
    exchange, delivery, observed
<1>3. ASSUME NEW c \in BOOLEAN, Connect(c) /\ ConnectResume(c)
      PROVE  Kept'
  BY <1>3 DEF Kept, Connect, ConnectResume, life, request, channels,
    persistence, exchange, delivery, observed
<1>4. ASSUME NEW c \in BOOLEAN, Connect(c) /\ ConnectTakeover(c)
      PROVE  Kept'
  BY <1>4 DEF Kept, Connect, ConnectTakeover, life, request, channels,
    persistence, exchange, delivery, observed
<1>5. CASE StartOpen
  BY <1>5 DEF Kept, StartOpen, StartStep, life, request, channels,
    persistence, exchange, delivery, observed
<1>6. CASE StartReplay
  BY <1>6 DEF Kept, StartReplay, StartStep, Rest, HasRoom, life, request,
    channels, persistence, exchange, delivery, observed
<1>7. CASE StartServe
  BY <1>7 DEF Kept, StartServe, StartStep, life, request, channels,
    persistence, exchange, delivery, observed
<1>8. CASE StartConnected
  BY <1>8 DEF Kept, StartConnected, life, request, channels,
    persistence, exchange, delivery, observed
<1>9. CASE StopTaken
  BY <1>9 DEF Kept, StopTaken, StopStep, life, request, channels, persistence,
    exchange, delivery, observed
<1>10. CASE StopDrain
  BY <1>10 DEF Kept, StopDrain, StopStep, life, request, channels, persistence,
    exchange, delivery, observed
<1>11. CASE StopClose
  BY <1>11 DEF Kept, StopClose, Teardown, StopStep, life, request, channels,
    persistence, exchange, delivery, observed
<1>12. CASE StopUnmap
  BY <1>12 DEF Kept, StopUnmap, Teardown, StopStep, life, request, channels,
    persistence, exchange, delivery, observed
<1>13. CASE StopUnsubscribe
  BY <1>13 DEF Kept, StopUnsubscribe, Teardown, StopStep, life, request,
    channels, persistence, exchange, delivery, observed
<1>14. CASE StopRelease
  BY <1>14 DEF Kept, StopRelease, Teardown, StopStep, life, request, channels,
    persistence, exchange, delivery, observed
<1>15. CASE SendMessage
  BY <1>15 DEF Kept, SendMessage, SendStep, life, request, channels,
    persistence, exchange, delivery, observed
<1>16. CASE SendPriority
  BY <1>16 DEF Kept, SendPriority, SendStep, life, request, channels,
    persistence, exchange, delivery, observed
<1>17. ASSUME NEW x \in due, RecvPuback(x)
      PROVE  Kept'
  <2>1. UNCHANGED <<at, promised>>
    BY <1>17 DEF RecvPuback, RecvStep, delivery, observed
  <2>2. QED
    BY <1>17, <2>1, ReceiveKeeps DEF Kept, TypeOK, DeliveryType
<1>18. ASSUME NEW x \in due, RecvPubrec(x)
      PROVE  Kept'
  <2>1. UNCHANGED <<at, promised>>
    BY <1>18 DEF RecvPubrec, RecvStep, delivery, observed
  <2>2. QED
    BY <1>18, <2>1, ReceiveKeeps DEF Kept, TypeOK, DeliveryType
<1>19. ASSUME NEW x \in due, RecvPubcomp(x)
      PROVE  Kept'
  BY <1>19 DEF Kept, RecvPubcomp, RecvStep, freeID, life, request, channels,
    persistence, exchange, delivery, observed
<1>20. ASSUME NEW kind \in {"PUBLISH", "PUBREL"},
                NEW answer \in {"PUBACK", "PUBREC", "PUBCOMP"}, RecvInbound(kind, answer)
      PROVE  Kept'
  BY <1>20 DEF Kept, RecvInbound, RecvStep, Delete, life, request, channels,
    persistence, exchange, delivery, observed
<1>21. ASSUME NEW s \in BOOLEAN, RecvRequest(s)
      PROVE  Kept'
  BY <1>21 DEF Kept, RecvRequest, RecvStep, life, request, channels,
    persistence, exchange, delivery, observed
<1>22. CASE RecvReply
  BY <1>22 DEF Kept, RecvReply, life, request, channels, persistence,
    exchange, delivery, observed
<1>23. CASE RecvClosed
  BY <1>23 DEF Kept, RecvClosed, life, request, channels, persistence,
    exchange, delivery, observed
<1>24. ASSUME NEW m \in Message, List(m)
      PROVE  Kept'
  BY <1>24 DEF Kept, List, DeliverStep, Goes, TypeOK, DeliveryType, life,
    request, channels, persistence, exchange, delivery, observed
<1>25. ASSUME NEW m \in Message, Lookup(m)
      PROVE  Kept'
  BY <1>25 DEF Kept, Lookup, DeliverStep, Goes, TypeOK, DeliveryType, life,
    request, channels, persistence, exchange, delivery, observed
<1>26. ASSUME NEW m \in Message, Check(m)
      PROVE  Kept'
  BY <1>26 DEF Kept, Check, DeliverStep, Goes, Crash, TypeOK, DeliveryType,
    life, request, channels, persistence, exchange, delivery, observed
<1>27. ASSUME NEW m \in Message, AddOutbound(m)
      PROVE  Kept'
  BY <1>27 DEF Kept, AddOutbound, DeliverStep, Goes, Crash, Persist, TypeOK,
    DeliveryType, life, request, channels, persistence, exchange, delivery,
    observed
<1>28. ASSUME NEW m \in Message, Enqueue(m)
      PROVE  Kept'
  BY <1>28 DEF Kept, Enqueue, DeliverStep, Goes, Crash, TypeOK, DeliveryType,
    life, request, channels, persistence, exchange, delivery, observed
<1>29. QED
  BY <1>1, <1>2, <1>3, <1>4, <1>5, <1>6, <1>7, <1>8, <1>9, <1>10, <1>11,
    <1>12, <1>13, <1>14, <1>15, <1>16, <1>17, <1>18, <1>19, <1>20, <1>21,
    <1>22, <1>23, <1>24, <1>25, <1>26, <1>27, <1>28 DEF Next, Connect, Start, Stop, Send, Receive, Deliver

\* Sending a PUBREL moves the exchanges it belongs to on and makes at most one

\* that belongs to no message.
LEMMA SameExchanges ==
  ASSUME TypeOK, SendPriority
  PROVE  /\ \A x \in due' : x.of = Nil \/ \E y \in due : y.of = x.of /\ y.id = x.id
         /\ OneExchange =>
              \A x, y \in due' : x.of = y.of /\ x.of # Nil => x = y
<1>1. DEFINE id == Head(priority).id
             waiting == {x \in due : x.id = id /\ x.wants = "PUBREL"}
             moved == {Exchange(x.of, id, "PUBCOMP") : x \in waiting}
<1>2. \/ due' = due
      \/ due' = (due \ waiting) \cup {Exchange(Nil, id, "PUBCOMP")}
      \/ due' = (due \ waiting) \cup moved
  BY DEF SendPriority, Answers
<1>3. \A x \in moved : /\ x = Exchange(x.of, id, "PUBCOMP")
                       /\ \E y \in waiting : y.of = x.of /\ y.id = x.id
  BY DEF Exchange
<1>4. \A x \in {Exchange(Nil, id, "PUBCOMP")} : x.of = Nil
  BY DEF Exchange
<1>5. \A x \in due' : x.of = Nil \/ \E y \in due : y.of = x.of /\ y.id = x.id
  BY <1>2, <1>3, <1>4
<1>6. ASSUME OneExchange, NEW x \in due', NEW y \in due', x.of = y.of, x.of # Nil
      PROVE  x = y
  BY <1>2, <1>3, <1>4, <1>6 DEF OneExchange
<1>7. QED
  BY <1>5, <1>6

\* Each message written has one exchange at most.
LEMMA OneExchangeStep ==
  ASSUME TypeOK, OnePlace, OneExchange, [Next]_vars
  PROVE  OneExchange'
<1>1. CASE UNCHANGED vars
  BY <1>1 DEF OneExchange, vars, life, request, channels, persistence,
    exchange, delivery, observed
<1>2. ASSUME NEW c \in BOOLEAN, Connect(c) /\ ConnectNew(c)
      PROVE  OneExchange'
  BY <1>2 DEF OneExchange, Connect, ConnectNew, life, request, channels,
    persistence, exchange, delivery, observed
<1>3. ASSUME NEW c \in BOOLEAN, Connect(c) /\ ConnectResume(c)
      PROVE  OneExchange'
  BY <1>3 DEF OneExchange, Connect, ConnectResume, life, request, channels,
    persistence, exchange, delivery, observed
<1>4. ASSUME NEW c \in BOOLEAN, Connect(c) /\ ConnectTakeover(c)
      PROVE  OneExchange'
  BY <1>4 DEF OneExchange, Connect, ConnectTakeover, life, request, channels,
    persistence, exchange, delivery, observed
<1>5. CASE StartOpen
  BY <1>5 DEF OneExchange, StartOpen, StartStep, life, request, channels,
    persistence, exchange, delivery, observed
<1>6. CASE StartReplay
  BY <1>6 DEF OneExchange, StartReplay, StartStep, Rest, HasRoom, life,
    request, channels, persistence, exchange, delivery, observed
<1>7. CASE StartServe
  BY <1>7 DEF OneExchange, StartServe, StartStep, life, request, channels,
    persistence, exchange, delivery, observed
<1>8. CASE StartConnected
  BY <1>8 DEF OneExchange, StartConnected, life, request, channels,
    persistence, exchange, delivery, observed
<1>9. CASE StopTaken
  BY <1>9 DEF OneExchange, StopTaken, StopStep, life, request, channels,
    persistence, exchange, delivery, observed
<1>10. CASE StopDrain
  BY <1>10 DEF OneExchange, StopDrain, StopStep, life, request, channels,
    persistence, exchange, delivery, observed
<1>11. CASE StopClose
  BY <1>11 DEF OneExchange, StopClose, Teardown, StopStep, life, request,
    channels, persistence, exchange, delivery, observed
<1>12. CASE StopUnmap
  BY <1>12 DEF OneExchange, StopUnmap, Teardown, StopStep, life, request,
    channels, persistence, exchange, delivery, observed
<1>13. CASE StopUnsubscribe
  BY <1>13 DEF OneExchange, StopUnsubscribe, Teardown, StopStep, life,
    request, channels, persistence, exchange, delivery, observed
<1>14. CASE StopRelease
  BY <1>14 DEF OneExchange, StopRelease, Teardown, StopStep, life, request,
    channels, persistence, exchange, delivery, observed
<1>15. CASE SendMessage
  <2>1. /\ messages # <<>> /\ messages' = Tail(messages)
        /\ wrote' = wrote \cup {Head(messages)}
        /\ due' = due \cup Owed(Head(messages), getMsgID)
    BY <1>15 DEF SendMessage
  <2>2. Head(messages) \notin wrote
    BY <2>1, OneLessWaits DEF OnePlace
  <2>3. \A x, y \in Owed(Head(messages), getMsgID) : x = y /\ x.of = Head(messages)
    BY DEF Owed, Exchange
  <2>4. QED
    BY <2>1, <2>2, <2>3 DEF OneExchange
<1>16. CASE SendPriority
  <2>1. UNCHANGED wrote
    BY <1>16 DEF SendPriority
  <2>2. QED
    BY <1>16, <2>1, SameExchanges DEF OneExchange
<1>17. ASSUME NEW x \in due, RecvPuback(x)
      PROVE  OneExchange'
  BY <1>17 DEF OneExchange, RecvPuback, RecvStep, Delete, freeID, life,
    request, channels, persistence, exchange, delivery, observed
<1>18. ASSUME NEW x \in due, RecvPubrec(x)
      PROVE  OneExchange'
  <2>1. UNCHANGED wrote
        /\ \/ due' = (due \ {x}) \cup {Exchange(x.of, x.id, "PUBREL")}
           \/ due' = due \ {x}
    BY <1>18 DEF RecvPubrec, RecvStep
  <2>2. \A y \in {Exchange(x.of, x.id, "PUBREL")} : y.of = x.of
    BY DEF Exchange
  <2>3. QED
    BY <2>1, <2>2 DEF OneExchange
<1>19. ASSUME NEW x \in due, RecvPubcomp(x)
      PROVE  OneExchange'
  BY <1>19 DEF OneExchange, RecvPubcomp, RecvStep, freeID, life, request,
    channels, persistence, exchange, delivery, observed
<1>20. ASSUME NEW kind \in {"PUBLISH", "PUBREL"},
                NEW answer \in {"PUBACK", "PUBREC", "PUBCOMP"}, RecvInbound(kind, answer)
      PROVE  OneExchange'
  BY <1>20 DEF OneExchange, RecvInbound, RecvStep, Delete, life, request,
    channels, persistence, exchange, delivery, observed
<1>21. ASSUME NEW s \in BOOLEAN, RecvRequest(s)
      PROVE  OneExchange'
  BY <1>21 DEF OneExchange, RecvRequest, RecvStep, life, request, channels,
    persistence, exchange, delivery, observed
<1>22. CASE RecvReply
  BY <1>22 DEF OneExchange, RecvReply, life, request, channels, persistence,
    exchange, delivery, observed
<1>23. CASE RecvClosed
  BY <1>23 DEF OneExchange, RecvClosed, life, request, channels, persistence,
    exchange, delivery, observed
<1>24. ASSUME NEW m \in Message, List(m)
      PROVE  OneExchange'
  BY <1>24 DEF OneExchange, List, DeliverStep, Goes, life, request, channels,
    persistence, exchange, delivery, observed
<1>25. ASSUME NEW m \in Message, Lookup(m)
      PROVE  OneExchange'
  BY <1>25 DEF OneExchange, Lookup, DeliverStep, Goes, life, request,
    channels, persistence, exchange, delivery, observed
<1>26. ASSUME NEW m \in Message, Check(m)
      PROVE  OneExchange'
  BY <1>26 DEF OneExchange, Check, DeliverStep, Goes, Crash, life, request,
    channels, persistence, exchange, delivery, observed
<1>27. ASSUME NEW m \in Message, AddOutbound(m)
      PROVE  OneExchange'
  BY <1>27 DEF OneExchange, AddOutbound, DeliverStep, Goes, Crash, Persist,
    life, request, channels, persistence, exchange, delivery, observed
<1>28. ASSUME NEW m \in Message, Enqueue(m)
      PROVE  OneExchange'
  BY <1>28 DEF OneExchange, Enqueue, DeliverStep, Goes, Crash, life, request,
    channels, persistence, exchange, delivery, observed
<1>29. QED
  BY <1>1, <1>2, <1>3, <1>4, <1>5, <1>6, <1>7, <1>8, <1>9, <1>10, <1>11,
    <1>12, <1>13, <1>14, <1>15, <1>16, <1>17, <1>18, <1>19, <1>20, <1>21,
    <1>22, <1>23, <1>24, <1>25, <1>26, <1>27, <1>28 DEF Next, Connect, Start, Stop, Send, Receive, Deliver

\* An identifier belongs to its message until that is answered.
LEMMA IdHeldStep ==
  ASSUME TypeOK, OnePlace, OneExchange, IdHeld, [Next]_vars
  PROVE  IdHeld'
<1>1. CASE UNCHANGED vars
  BY <1>1 DEF IdHeld, vars, life, request, channels, persistence, exchange,
    delivery, observed
<1>2. ASSUME NEW c \in BOOLEAN, Connect(c) /\ ConnectNew(c)
      PROVE  IdHeld'
  BY <1>2 DEF IdHeld, Connect, ConnectNew, life, request, channels,
    persistence, exchange, delivery, observed
<1>3. ASSUME NEW c \in BOOLEAN, Connect(c) /\ ConnectResume(c)
      PROVE  IdHeld'
  BY <1>3 DEF IdHeld, Connect, ConnectResume, life, request, channels,
    persistence, exchange, delivery, observed
<1>4. ASSUME NEW c \in BOOLEAN, Connect(c) /\ ConnectTakeover(c)
      PROVE  IdHeld'
  BY <1>4 DEF IdHeld, Connect, ConnectTakeover, life, request, channels,
    persistence, exchange, delivery, observed
<1>5. CASE StartOpen
  BY <1>5 DEF IdHeld, StartOpen, StartStep, life, request, channels,
    persistence, exchange, delivery, observed
<1>6. CASE StartReplay
  BY <1>6 DEF IdHeld, StartReplay, StartStep, Rest, HasRoom, life, request,
    channels, persistence, exchange, delivery, observed
<1>7. CASE StartServe
  BY <1>7 DEF IdHeld, StartServe, StartStep, life, request, channels,
    persistence, exchange, delivery, observed
<1>8. CASE StartConnected
  BY <1>8 DEF IdHeld, StartConnected, life, request, channels,
    persistence, exchange, delivery, observed
<1>9. CASE StopTaken
  BY <1>9 DEF IdHeld, StopTaken, StopStep, life, request, channels,
    persistence, exchange, delivery, observed
<1>10. CASE StopDrain
  BY <1>10 DEF IdHeld, StopDrain, StopStep, life, request, channels,
    persistence, exchange, delivery, observed
<1>11. CASE StopClose
  BY <1>11 DEF IdHeld, StopClose, Teardown, StopStep, life, request, channels,
    persistence, exchange, delivery, observed
<1>12. CASE StopUnmap
  BY <1>12 DEF IdHeld, StopUnmap, Teardown, StopStep, life, request, channels,
    persistence, exchange, delivery, observed
<1>13. CASE StopUnsubscribe
  BY <1>13 DEF IdHeld, StopUnsubscribe, Teardown, StopStep, life, request,
    channels, persistence, exchange, delivery, observed
<1>14. CASE StopRelease
  BY <1>14 DEF IdHeld, StopRelease, Teardown, StopStep, life, request,
    channels, persistence, exchange, delivery, observed
<1>15. CASE SendMessage
  <2>1. /\ UNCHANGED stray
        /\ index' = IF Qos[Head(messages)] > 0 /\ getMsgID # 0
                    THEN [index EXCEPT ![getMsgID] = Head(messages)] ELSE index
        /\ due' = due \cup Owed(Head(messages), getMsgID)
    BY <1>15 DEF SendMessage, SendStep
  <2>2. getMsgID \in Free \/ getMsgID = 0
    BY GivenId
  <2>3. \A x \in due : x.of # Nil /\ x.id # 0 /\ ~stray => x.id # getMsgID
    BY <2>2 DEF IdHeld, Free
  <2>4. \A x \in Owed(Head(messages), getMsgID) :
          /\ x.id = getMsgID /\ x.of = Head(messages)
          /\ Qos[Head(messages)] # 0
    BY DEF Owed, Exchange
  <2>5. Head(messages) \in Message
    BY <1>15, OneLessWaits DEF SendMessage
  <2>6. Qos[Head(messages)] # 0 => Qos[Head(messages)] > 0
    BY <2>5, QosAssumption
  <2>7. index \in [Id -> Message \cup {Nil}] /\ (getMsgID # 0 => getMsgID \in Id)
    BY <2>2 DEF TypeOK, ExchangeType, Free
  <2>8. QED
    BY <2>1, <2>3, <2>4, <2>6, <2>7 DEF IdHeld
<1>16. CASE SendPriority
  <2>1. UNCHANGED <<index, stray>>
    BY <1>16 DEF SendPriority, SendStep
  <2>2. QED
    BY <1>16, <2>1, SameExchanges DEF IdHeld
<1>17. ASSUME NEW x \in due, RecvPuback(x)
      PROVE  IdHeld'
  <2>1. /\ due' = due \ {x} /\ (stray => stray') /\ x.of # Nil
        /\ \/ UNCHANGED index
           \/ inUse(x.id) /\ index' = [index EXCEPT ![x.id] = Nil]
    BY <1>17 DEF RecvPuback, TypeOK, ExchangeType, freeID
  <2>2. CASE UNCHANGED index
    BY <2>1, <2>2 DEF IdHeld
  <2>3. CASE x.of # Nil /\ inUse(x.id) /\ index' = [index EXCEPT ![x.id] = Nil]
    <3>1. SUFFICES ASSUME ~stray, NEW y \in due, y # x, y.id # 0, y.of # Nil
                   PROVE  index'[y.id] = y.of
      BY <2>1 DEF IdHeld
    <3>2. index[y.id] = y.of /\ x.id # 0 /\ index[x.id] = x.of
      BY <2>3, <3>1 DEF IdHeld, inUse, Id
    <3>3. y.id # x.id
      BY <2>3, <3>1, <3>2 DEF OneExchange
    <3>4. index \in [Id -> Message \cup {Nil}]
      BY DEF TypeOK, ExchangeType
    <3>5. QED
      BY <2>3, <3>2, <3>3, <3>4 DEF inUse
  <2>4. QED
    BY <2>1, <2>2, <2>3
<1>18. ASSUME NEW x \in due, RecvPubrec(x)
      PROVE  IdHeld'
  <2>1. UNCHANGED <<index, stray>>
        /\ \/ due' = (due \ {x}) \cup {Exchange(x.of, x.id, "PUBREL")}
           \/ due' = due \ {x}
    BY <1>18 DEF RecvPubrec
  <2>2. \A y \in {Exchange(x.of, x.id, "PUBREL")} : y.of = x.of /\ y.id = x.id
    BY DEF Exchange
  <2>3. QED
    BY <2>1, <2>2 DEF IdHeld
<1>19. ASSUME NEW x \in due, RecvPubcomp(x)
      PROVE  IdHeld'
  <2>1. /\ due' = due \ {x} /\ (stray => stray') /\ (x.of = Nil => stray')
        /\ \/ UNCHANGED index
           \/ inUse(x.id) /\ index' = [index EXCEPT ![x.id] = Nil]
    BY <1>19 DEF RecvPubcomp, freeID
  <2>2. CASE UNCHANGED index
    BY <2>1, <2>2 DEF IdHeld
  <2>3. CASE x.of # Nil /\ inUse(x.id) /\ index' = [index EXCEPT ![x.id] = Nil]
    <3>1. SUFFICES ASSUME ~stray, NEW y \in due, y # x, y.id # 0, y.of # Nil
                   PROVE  index'[y.id] = y.of
      BY <2>1 DEF IdHeld
    <3>2. index[y.id] = y.of /\ x.id # 0 /\ index[x.id] = x.of
      BY <2>3, <3>1 DEF IdHeld, inUse, Id
    <3>3. y.id # x.id
      BY <2>3, <3>1, <3>2 DEF OneExchange
    <3>4. index \in [Id -> Message \cup {Nil}]
      BY DEF TypeOK, ExchangeType
    <3>5. QED
      BY <2>3, <3>2, <3>3, <3>4 DEF inUse
  <2>4. QED
    BY <2>1, <2>2, <2>3 DEF IdHeld
<1>20. ASSUME NEW kind \in {"PUBLISH", "PUBREL"},
                NEW answer \in {"PUBACK", "PUBREC", "PUBCOMP"}, RecvInbound(kind, answer)
      PROVE  IdHeld'
  BY <1>20 DEF IdHeld, RecvInbound, RecvStep, Delete, life, request, channels,
    persistence, exchange, delivery, observed
<1>21. ASSUME NEW s \in BOOLEAN, RecvRequest(s)
      PROVE  IdHeld'
  BY <1>21 DEF IdHeld, RecvRequest, RecvStep, life, request, channels,
    persistence, exchange, delivery, observed
<1>22. CASE RecvReply
  BY <1>22 DEF IdHeld, RecvReply, life, request, channels, persistence,
    exchange, delivery, observed
<1>23. CASE RecvClosed
  BY <1>23 DEF IdHeld, RecvClosed, life, request, channels, persistence,
    exchange, delivery, observed
<1>24. ASSUME NEW m \in Message, List(m)
      PROVE  IdHeld'
  BY <1>24 DEF IdHeld, List, DeliverStep, Goes, life, request, channels,
    persistence, exchange, delivery, observed
<1>25. ASSUME NEW m \in Message, Lookup(m)
      PROVE  IdHeld'
  BY <1>25 DEF IdHeld, Lookup, DeliverStep, Goes, life, request, channels,
    persistence, exchange, delivery, observed
<1>26. ASSUME NEW m \in Message, Check(m)
      PROVE  IdHeld'
  BY <1>26 DEF IdHeld, Check, DeliverStep, Goes, Crash, life, request,
    channels, persistence, exchange, delivery, observed
<1>27. ASSUME NEW m \in Message, AddOutbound(m)
      PROVE  IdHeld'
  BY <1>27 DEF IdHeld, AddOutbound, DeliverStep, Goes, Crash, Persist, life,
    request, channels, persistence, exchange, delivery, observed
<1>28. ASSUME NEW m \in Message, Enqueue(m)
      PROVE  IdHeld'
  BY <1>28 DEF IdHeld, Enqueue, DeliverStep, Goes, Crash, life, request,
    channels, persistence, exchange, delivery, observed
<1>29. QED
  BY <1>1, <1>2, <1>3, <1>4, <1>5, <1>6, <1>7, <1>8, <1>9, <1>10, <1>11,
    <1>12, <1>13, <1>14, <1>15, <1>16, <1>17, <1>18, <1>19, <1>20, <1>21,
    <1>22, <1>23, <1>24, <1>25, <1>26, <1>27, <1>28 DEF Next, Connect, Start, Stop, Send, Receive, Deliver

-----------------------------------------------------------------------------
(* The theorems.                                                           *)

LEMMA InitInv == Init => Inv
<1> SUFFICES ASSUME Init
             PROVE  Inv
  OBVIOUS
<1>1. SessionType
  <2>1. 0 \in 0 .. MaxSession /\ 0 \in 0 .. 0
    BY BoundAssumption
  <2>2. connected = {} /\ starting = {} /\ receiving \in {FALSE, phase = "up"}
    BY DEF Init
  <2>3. QED
    BY <2>1, <2>2 DEF Init, SessionType
<1>2. QueueType
  BY EmptyQueue DEF Init, QueueType
<1>3. StoreType /\ ExchangeType /\ DeliveryType
  BY DEF Init, StoreType, ExchangeType, DeliveryType
<1>4. Phases /\ Connecting /\ Beside /\ NotYet /\ Stored /\ Kept
  BY DEF Init, Phases, Connecting, Beside, InFlight, NotYet, Stored, Waits,
    Kept, Stopping
<1>5. PanicNeedsStop /\ OnePlace /\ OneExchange /\ IdHeld
  BY NilAssumption DEF Init, PanicNeedsStop, OnePlace, Distinct, Waits,
    OneExchange, IdHeld
<1>6. QED
  BY <1>1, <1>2, <1>3, <1>4, <1>5 DEF Inv, TypeOK

\* The shape of the state is kept by every step.
LEMMA TypeStep ==
  ASSUME TypeOK, [Next]_vars
  PROVE  TypeOK'
<1>1. SessionType' /\ QueueType'
  BY SessionStep, QueueStep DEF TypeOK
<1>2. StoreType' /\ ExchangeType' /\ DeliveryType'
  BY StoreStep, ExchangeStep, DeliveryStep
<1>3. QED
  BY <1>1, <1>2 DEF TypeOK

\* The invariant holds in every execution, for any messages, capacities and
\* numbers of identifiers and sessions.
THEOREM Invariance == Spec => []Inv
<1>1. ASSUME Inv, [Next]_vars
      PROVE  Inv'
  <2>1. TypeOK'
    BY <1>1, TypeStep DEF Inv
  <2>2. Phases' /\ Connecting' /\ Beside' /\ PanicNeedsStop'
    BY <1>1, PhasesStep, ConnectingStep, BesideStep, PanicStep DEF Inv
  <2>3. NotYet' /\ Stored' /\ OnePlace' /\ Kept' /\ OneExchange' /\ IdHeld'
    BY <1>1, NotYetStep, StoredStep, OnePlaceStep, KeptStep, OneExchangeStep,
      IdHeldStep DEF Inv
  <2>4. QED
    BY <2>1, <2>2, <2>3 DEF Inv
<1>2. QED
  BY InitInv, <1>1, PTL DEF Spec

\* The state keeps its shape (client.go:17-49, memory_persistence.go:9-21).
THEOREM TypeCorrect == Spec => []TypeOK
<1>1. Inv => TypeOK
  BY DEF Inv
<1>2. QED
  BY Invariance, <1>1, PTL

\* A message with QoS 1 or 2 whose delivery is over is in the store, through
\* any sessions, until one opens or closes the store (router.go:206-219).
THEOREM NothingIsLost == Spec => []NothingLost
<1>1. Inv => NothingLost
  BY DEF Inv, Kept, NothingLost
<1>2. QED
  BY Invariance, <1>1, PTL

\* No session is sent a message twice (client.go:151-182, router.go:209-217).
THEOREM WrittenOnce == Spec => []WroteOnce
<1>1. Inv => WroteOnce
  <2>1. SUFFICES ASSUME Inv, NEW m \in Message
                 PROVE  LET waits == {i \in 1 .. Len(messages) : messages[i] = m} IN
                          /\ \A i, j \in waits : i = j
                          /\ waits # {} => m \notin wrote \cup replay
                          /\ m \in wrote => m \notin replay
                          /\ at[m] = "queue" /\ Current(m) => m \notin wrote \cup replay
    BY DEF WroteOnce
  <2>2. m \in wrote => m \notin replay
    BY <2>1 DEF Inv, Phases, TypeOK, StoreType, SessionType, Stopping
  <2>3. QED
    BY <2>1, <2>2 DEF Inv, OnePlace, Distinct, Waits, NotYet
<1>2. QED
  BY Invariance, <1>1, PTL

\* An identifier belongs to its message until that is answered, unless a stray
\* PUBREL was (messageids.go:39-61, client.go:298-339).
THEOREM IdsHeld == Spec => []IdHeld
<1>1. Inv => IdHeld
  BY DEF Inv
<1>2. QED
  BY Invariance, <1>1, PTL

\* Only a delivery beside the end of a session, or a send on an object that was
\* stopped before it was CONNECTED, brings the process down
\* (router.go:203-226, client.go:105-125, 176-182, 369-381).
THEOREM PanicsNeedStop == Spec => []PanicNeedsStop
<1>1. Inv => PanicNeedsStop
  BY DEF Inv
<1>2. QED
  BY Invariance, <1>1, PTL

-----------------------------------------------------------------------------
(* The refinement.                                                         *)

\* A message past the store stays past it, and one that gets no further than
\* before is past it as before.
LEMMA AddedAlike ==
  ASSUME Inv, NEW m \in Message, NEW where, at' = [at EXCEPT ![m] = where],
         \/ Qos[m] = 0
         \/ at[m] \notin {"queue", "done"} /\ where \notin {"queue", "done"}
         \/ at[m] \in {"queue", "done"} /\ where \in {"queue", "done"}
  PROVE  Added' = Added
<1>1. at \in [Message -> {"idle", "listed", "found", "add", "queue", "done"}]
  BY DEF Inv, TypeOK, DeliveryType
<1>2. \A n \in Message :
        Qos[n] > 0 => (at'[n] \in {"queue", "done"} <=> at[n] \in {"queue", "done"})
  BY <1>1, QosAssumption
<1>3. QED
  BY <1>2 DEF Added

\* A step that leaves the messages in the store, those past it, those written,
\* those acknowledged and the service alone is no step of the promise.
LEMMA Stutters ==
  ASSUME \A m \in Message : m \in outbound' <=> m \in outbound, Added' = Added,
         UNCHANGED <<wrote, acked>>, phase' = "up" <=> phase = "up"
  PROVE  UNCHANGED Promise!vars
<1>1. (outbound \cap Message)' = outbound \cap Message
  OBVIOUS
<1>2. (Added \ outbound)' = Added \ outbound
  BY DEF Added
<1>3. {m \in wrote : Qos[m] > 0}' = {m \in wrote : Qos[m] > 0}
  OBVIOUS
<1>4. (phase = "up")' = (phase = "up")
  OBVIOUS
<1>5. QED
  BY <1>1, <1>2, <1>3, <1>4 DEF Promise!vars

\* What is in the store is past it.
LEMMA StoredAdded ==
  ASSUME Inv, NEW m \in Message
  PROVE  /\ m \in outbound => m \in Added
         /\ Qos[m] > 0 /\ (m \in wrote \/ Waits(m)) => m \in Added
<1>1. at[m] \in {"idle", "listed", "found", "add", "queue", "done"}
  BY DEF Inv, TypeOK, DeliveryType
<1>2. QED
  BY <1>1 DEF Inv, NotYet, Stored, Added

\* A step that empties the store while no session is served makes the broker
\* forget.
LEMMA ForgetStep ==
  ASSUME Inv, outbound' = {}, Added' = Added, UNCHANGED <<wrote, acked>>,
         phase # "up", phase' # "up"
  PROVE  Promise!Next \/ UNCHANGED Promise!vars
<1>1. \A m \in outbound \cap Message : m \in Added
  BY StoredAdded
<1>2. (Added \ outbound)' = (Added \ outbound) \cup (outbound \cap Message)
  BY <1>1 DEF Added
<1>3. Promise!Forget
  BY <1>2 DEF Promise!Forget
<1>4. QED
  BY <1>3 DEF Promise!Next

\* Each step is a step of the promise or none.
LEMMA PromiseStep ==
  ASSUME Inv, [Next]_vars
  PROVE  Promise!Next \/ UNCHANGED Promise!vars
<1>1. CASE UNCHANGED vars
  BY <1>1 DEF Promise!vars, Added, vars, life, request, channels, persistence,
    exchange, delivery, observed
<1>2. ASSUME NEW c \in BOOLEAN, Connect(c) /\ ConnectNew(c)
      PROVE  Promise!Next \/ UNCHANGED Promise!vars
  <2>1. /\ wrote' = {} /\ phase' = "open"
        /\ UNCHANGED <<outbound, acked, at>>
    BY <1>2 DEF Connect, persistence, delivery
  <2>2. Added' = Added
    BY <2>1 DEF Added
  <2>3. Promise!NewSession
    BY <2>1, <2>2 DEF Promise!NewSession
  <2>4. QED
    BY <2>3 DEF Promise!Next
<1>3. ASSUME NEW c \in BOOLEAN, Connect(c) /\ ConnectResume(c)
      PROVE  Promise!Next \/ UNCHANGED Promise!vars
  <2>1. /\ wrote' = {} /\ phase' = "open"
        /\ UNCHANGED <<outbound, acked, at>>
    BY <1>3 DEF Connect, persistence, delivery
  <2>2. Added' = Added
    BY <2>1 DEF Added
  <2>3. Promise!NewSession
    BY <2>1, <2>2 DEF Promise!NewSession
  <2>4. QED
    BY <2>3 DEF Promise!Next
<1>4. ASSUME NEW c \in BOOLEAN, Connect(c) /\ ConnectTakeover(c)
      PROVE  Promise!Next \/ UNCHANGED Promise!vars
  <2>1. /\ wrote' = {} /\ phase' = "open"
        /\ UNCHANGED <<outbound, acked, at>>
    BY <1>4 DEF Connect, persistence, delivery
  <2>2. Added' = Added
    BY <2>1 DEF Added
  <2>3. Promise!NewSession
    BY <2>1, <2>2 DEF Promise!NewSession
  <2>4. QED
    BY <2>3 DEF Promise!Next
<1>5. CASE StartOpen
  <2>1. /\ UNCHANGED <<wrote, acked, at>> /\ phase = "open" /\ phase' = "replay"
        /\ outbound' = {} \/ UNCHANGED outbound
    BY <1>5 DEF StartOpen, StartStep, exchange, persistence, delivery
  <2>2. Added' = Added
    BY <2>1 DEF Added
  <2>3. CASE outbound' = {}
    BY <2>1, <2>2, <2>3, ForgetStep
  <2>4. CASE UNCHANGED outbound
    BY <2>1, <2>2, <2>4, Stutters
  <2>5. QED
    BY <2>1, <2>3, <2>4
<1>6. CASE StartReplay
  <2>1. /\ UNCHANGED <<outbound, wrote, acked>>
        /\ phase' = "up" <=> phase = "up"
        /\ Added' = Added
    BY <1>6 DEF StartReplay, StartStep, persistence, exchange, delivery, Added
  <2>2. QED
    BY <1>6, <2>1, Stutters
<1>7. CASE StartServe
  <2>1. /\ UNCHANGED <<outbound, wrote, acked, at>>
        /\ phase = "replay" /\ phase' = "up"
    BY <1>7 DEF StartServe, StartStep, exchange, persistence, delivery
  <2>2. Added' = Added
    BY <2>1 DEF Added
  <2>3. QED
    BY <2>1, <2>2 DEF Promise!Next, Promise!Open
<1>8. CASE StartConnected
  <2>1. /\ UNCHANGED <<outbound, wrote, acked>>
        /\ phase' = "up" <=> phase = "up"
        /\ Added' = Added
    BY <1>8 DEF StartConnected, persistence, exchange, delivery, Added
  <2>2. QED
    BY <1>8, <2>1, Stutters
<1>9. CASE StopTaken
  <2>1. /\ UNCHANGED <<outbound, wrote, acked>>
        /\ phase' = "up" <=> phase = "up"
        /\ Added' = Added
    BY <1>9 DEF StopTaken, StopStep, persistence, delivery, Added
  <2>2. QED
    BY <1>9, <2>1, Stutters
<1>10. CASE StopDrain
  <2>1. /\ UNCHANGED <<outbound, wrote, acked, at>>
        /\ phase = "up" /\ phase' = "close"
    BY <1>10 DEF StopDrain, StopStep, persistence, delivery
  <2>2. Added' = Added
    BY <2>1 DEF Added
  <2>3. QED
    BY <2>1, <2>2 DEF Promise!Next, Promise!Close
<1>11. CASE StopClose
  <2>1. /\ UNCHANGED <<outbound, wrote, acked>>
        /\ phase' = "up" <=> phase = "up"
        /\ Added' = Added
    BY <1>11 DEF StopClose, Teardown, StopStep, persistence, delivery, Added
  <2>2. QED
    BY <1>11, <2>1, Stutters
<1>12. CASE StopUnmap
  <2>1. /\ UNCHANGED <<outbound, wrote, acked>>
        /\ phase' = "up" <=> phase = "up"
        /\ Added' = Added
    BY <1>12 DEF StopUnmap, Teardown, StopStep, persistence, delivery, Added
  <2>2. QED
    BY <1>12, <2>1, Stutters
<1>13. CASE StopUnsubscribe
  <2>1. /\ UNCHANGED <<outbound, wrote, acked>>
        /\ phase' = "up" <=> phase = "up"
        /\ Added' = Added
    BY <1>13 DEF StopUnsubscribe, Teardown, StopStep, persistence, delivery, Added
  <2>2. QED
    BY <1>13, <2>1, Stutters
<1>14. CASE StopRelease
  <2>1. /\ UNCHANGED <<wrote, acked, at>> /\ phase = "release" /\ phase' = "down"
        /\ outbound' = {}
    BY <1>14 DEF StopRelease, Teardown, StopStep, delivery
  <2>2. Added' = Added
    BY <2>1 DEF Added
  <2>3. QED
    BY <2>1, <2>2, ForgetStep
<1>15. CASE SendMessage
  <2>1. PICK m : /\ m = Head(messages)
        /\ UNCHANGED <<outbound, acked, at>> /\ phase = "up" /\ phase' = "up"
        /\ messages # <<>> /\ messages' = Tail(messages)
        /\ wrote' = wrote \cup {m}
    BY <1>15 DEF SendMessage, SendStep, life, request, persistence, delivery
  <2>2. m \in Message /\ m \notin wrote /\ Waits(m)
    BY <2>1, OneLessWaits DEF Inv, OnePlace
  <2>3. Added' = Added
    BY <2>1 DEF Added
  <2>4. CASE Qos[m] > 0
    <3>1. m \in Added
      BY <2>2, <2>4, StoredAdded
    <3>2. {n \in wrote : Qos[n] > 0}' = {n \in wrote : Qos[n] > 0} \cup {m}
      BY <2>1, <2>4
    <3>3. Promise!Transmit(m)
      BY <2>1, <2>2, <2>3, <3>1, <3>2 DEF Promise!Transmit
    <3>4. QED
      BY <2>2, <3>3 DEF Promise!Next
  <2>5. CASE ~(Qos[m] > 0)
    <3>1. {n \in wrote : Qos[n] > 0}' = {n \in wrote : Qos[n] > 0}
      BY <2>1, <2>5
    <3>2. QED
      BY <2>1, <2>3, <3>1 DEF Promise!vars
  <2>6. QED
    BY <2>4, <2>5
<1>16. CASE SendPriority
  <2>1. /\ UNCHANGED <<outbound, wrote, acked>>
        /\ phase' = "up" <=> phase = "up"
        /\ Added' = Added
    BY <1>16 DEF SendPriority, SendStep, persistence, life, request, delivery, Added
  <2>2. QED
    BY <1>16, <2>1, Stutters
<1>17. ASSUME NEW x \in due, RecvPuback(x)
      PROVE  Promise!Next \/ UNCHANGED Promise!vars
  <2>1. /\ phase = "up" /\ phase' = "up" /\ UNCHANGED wrote
        /\ acked' = acked \cup ({x.of} \ {Nil}) \/ UNCHANGED acked
        /\ UNCHANGED at
    BY <1>17 DEF RecvPuback, RecvStep, life, request, delivery, Inv, TypeOK,
      SessionType, ExchangeType
  <2>2. \A m \in Message : m \in outbound' <=> m \in outbound
    BY <1>17, ReceiveKeeps DEF Inv
  <2>3. CASE x.of = Nil \/ UNCHANGED acked
    BY <2>1, <2>2, <2>3, Stutters DEF Added
  <2>4. CASE x.of # Nil /\ acked' = acked \cup {x.of}
    <3>1. x.of \in Message /\ x.of \in wrote /\ Qos[x.of] > 0
      BY <2>4 DEF Inv, TypeOK, ExchangeType, OneExchange, Stored
    <3>2. x.of \in Added
      BY <3>1, StoredAdded
    <3>3. /\ (outbound \cap Message)' = outbound \cap Message
          /\ (Added \ outbound)' = Added \ outbound
          /\ {m \in wrote : Qos[m] > 0}' = {m \in wrote : Qos[m] > 0}
      BY <2>1, <2>2 DEF Added
    <3>4. Promise!Acknowledge(x.of)
      BY <2>1, <2>4, <3>1, <3>2, <3>3 DEF Promise!Acknowledge
    <3>5. QED
      BY <3>1, <3>4 DEF Promise!Next
  <2>5. QED
    BY <2>1, <2>3, <2>4
<1>18. ASSUME NEW x \in due, RecvPubrec(x)
      PROVE  Promise!Next \/ UNCHANGED Promise!vars
  <2>1. /\ UNCHANGED <<wrote, acked>>
        /\ phase' = "up" <=> phase = "up"
        /\ Added' = Added
    BY <1>18 DEF RecvPubrec, RecvStep, life, request, delivery, Added
  <2>2. QED
    BY <1>18, <2>1, ReceiveKeeps, Stutters DEF Inv, Added, RecvPubrec, RecvStep, delivery
<1>19. ASSUME NEW x \in due, RecvPubcomp(x)
      PROVE  Promise!Next \/ UNCHANGED Promise!vars
  <2>1. /\ phase = "up" /\ phase' = "up" /\ UNCHANGED wrote
        /\ acked' = acked \cup ({x.of} \ {Nil}) \/ UNCHANGED acked
        /\ UNCHANGED at
    BY <1>19 DEF RecvPubcomp, RecvStep, life, request, delivery, Inv, TypeOK,
      SessionType
  <2>2. \A m \in Message : m \in outbound' <=> m \in outbound
    BY <1>19 DEF RecvPubcomp, Inv
  <2>3. CASE x.of = Nil \/ UNCHANGED acked
    BY <2>1, <2>2, <2>3, Stutters DEF Added
  <2>4. CASE x.of # Nil /\ acked' = acked \cup {x.of}
    <3>1. x.of \in Message /\ x.of \in wrote /\ Qos[x.of] > 0
      BY <2>4 DEF Inv, TypeOK, ExchangeType, OneExchange, Stored
    <3>2. x.of \in Added
      BY <3>1, StoredAdded
    <3>3. /\ (outbound \cap Message)' = outbound \cap Message
          /\ (Added \ outbound)' = Added \ outbound
          /\ {m \in wrote : Qos[m] > 0}' = {m \in wrote : Qos[m] > 0}
      BY <2>1, <2>2 DEF Added
    <3>4. Promise!Acknowledge(x.of)
      BY <2>1, <2>4, <3>1, <3>2, <3>3 DEF Promise!Acknowledge
    <3>5. QED
      BY <3>1, <3>4 DEF Promise!Next
  <2>5. QED
    BY <2>1, <2>3, <2>4
<1>20. ASSUME NEW kind \in {"PUBLISH", "PUBREL"},
                NEW answer \in {"PUBACK", "PUBREC", "PUBCOMP"}, RecvInbound(kind, answer)
      PROVE  Promise!Next \/ UNCHANGED Promise!vars
  <2>1. /\ UNCHANGED <<outbound, wrote, acked>>
        /\ phase' = "up" <=> phase = "up"
        /\ Added' = Added
    BY <1>20 DEF RecvInbound, RecvStep, life, request, delivery, Added
  <2>2. QED
    BY <1>20, <2>1, Stutters
<1>21. ASSUME NEW s \in BOOLEAN, RecvRequest(s)
      PROVE  Promise!Next \/ UNCHANGED Promise!vars
  <2>1. /\ UNCHANGED <<outbound, wrote, acked>>
        /\ phase' = "up" <=> phase = "up"
        /\ Added' = Added
    BY <1>21 DEF RecvRequest, RecvStep, life, request, delivery, Added
  <2>2. QED
    BY <1>21, <2>1, Stutters
<1>22. CASE RecvReply
  <2>1. /\ UNCHANGED <<outbound, wrote, acked>>
        /\ phase' = "up" <=> phase = "up"
        /\ Added' = Added
    BY <1>22 DEF RecvReply, life, exchange, persistence, delivery, Added
  <2>2. QED
    BY <1>22, <2>1, Stutters
<1>23. CASE RecvClosed
  <2>1. /\ UNCHANGED <<outbound, wrote, acked>>
        /\ phase' = "up" <=> phase = "up"
        /\ Added' = Added
    BY <1>23 DEF RecvClosed, life, exchange, persistence, delivery, Added
  <2>2. QED
    BY <1>23, <2>1, Stutters
<1>24. ASSUME NEW m \in Message, List(m)
      PROVE  Promise!Next \/ UNCHANGED Promise!vars
  <2>1. /\ UNCHANGED <<outbound, wrote, acked>>
        /\ phase' = "up" <=> phase = "up"
        /\ at[m] = "idle" /\ at' = [at EXCEPT ![m] = "listed"]
    BY <1>24 DEF List, DeliverStep, Goes, life, request, exchange
  <2>2. Added' = Added
    BY <2>1, AddedAlike
  <2>3. QED
    BY <2>1, <2>2, Stutters
<1>25. ASSUME NEW m \in Message, Lookup(m)
      PROVE  Promise!Next \/ UNCHANGED Promise!vars
  <2>1. /\ UNCHANGED <<outbound, wrote, acked>>
        /\ phase' = "up" <=> phase = "up"
        /\ at[m] = "listed" /\ at' = [at EXCEPT ![m] = "found"]
    BY <1>25 DEF Lookup, DeliverStep, Goes, life, request, exchange
  <2>2. Added' = Added
    BY <2>1, AddedAlike
  <2>3. QED
    BY <2>1, <2>2, Stutters
<1>26. ASSUME NEW m \in Message, Check(m)
      PROVE  Promise!Next \/ UNCHANGED Promise!vars
  <2>1. /\ UNCHANGED <<outbound, wrote, acked>>
        /\ phase' = "up" <=> phase = "up"
        /\ at[m] = "found"
    BY <1>26 DEF Check, DeliverStep, Crash, life, request, exchange
  <2>2. \/ UNCHANGED at
        \/ Qos[m] > 0 /\ at' = [at EXCEPT ![m] = "add"]
        \/ Qos[m] = 0 /\ \E s \in {"queue", "done"} : at' = [at EXCEPT ![m] = s]
    BY <1>26, QosAssumption DEF Check, Goes, Crash, delivery
  <2>3. CASE UNCHANGED at
    BY <2>3 , <2>1, Stutters DEF Added
  <2>4. CASE Qos[m] > 0 /\ at' = [at EXCEPT ![m] = "add"]
    <3>1. Added' = Added
      BY <2>1, <2>4, AddedAlike
    <3>2. QED
      BY <2>1, <3>1, Stutters
  <2>5. ASSUME NEW s \in {"queue", "done"}, Qos[m] = 0, at' = [at EXCEPT ![m] = s]
        PROVE  UNCHANGED Promise!vars
    <3>1. Added' = Added
      BY <2>5, AddedAlike
    <3>2. QED
      BY <2>1, <3>1, Stutters
  <2>6. QED
    BY <2>2, <2>3, <2>4, <2>5
<1>27. ASSUME NEW m \in Message, AddOutbound(m)
      PROVE  Promise!Next \/ UNCHANGED Promise!vars
  <2>1. /\ UNCHANGED <<wrote, acked>> /\ phase' = phase
        /\ \/ UNCHANGED <<outbound, at>>
           \/ /\ outbound' = outbound \cup {m} /\ at[m] = "add"
              /\ at' = [at EXCEPT ![m] = IF live[m] THEN "queue" ELSE "done"]
    BY <1>27 DEF AddOutbound, DeliverStep, Goes, Persist, Crash, life, request,
      exchange, delivery
  <2>2. CASE UNCHANGED <<outbound, at>>
    BY <2>1, <2>2, Stutters DEF Added
  <2>3. CASE outbound' = outbound \cup {m} /\ at[m] = "add" /\ ~UNCHANGED <<outbound, at>>
    <3>1. (outbound \cap Message)' = (outbound \cap Message) \cup {m}
      BY <2>3
    <3>2. m \notin Added /\ m \notin outbound
      BY <2>3 DEF Added, Inv, NotYet
    <3>3. \A n \in Message \ {m} : at'[n] = at[n]
      BY <2>1 DEF Inv, TypeOK, DeliveryType
    <3>4. (Added \ outbound)' = Added \ outbound
      BY <2>3, <3>2, <3>3 DEF Added
    <3>5. {n \in wrote : Qos[n] > 0}' = {n \in wrote : Qos[n] > 0}
      BY <2>1
    <3>6. Promise!Keep(m)
      BY <2>1, <3>1, <3>2, <3>4, <3>5 DEF Promise!Keep
    <3>7. QED
      BY <3>6 DEF Promise!Next
  <2>4. QED
    BY <2>1, <2>2, <2>3
<1>28. ASSUME NEW m \in Message, Enqueue(m)
      PROVE  Promise!Next \/ UNCHANGED Promise!vars
  <2>1. /\ UNCHANGED <<outbound, wrote, acked>>
        /\ phase' = "up" <=> phase = "up"
        /\ at[m] = "queue"
        /\ UNCHANGED at \/ at' = [at EXCEPT ![m] = "done"]
    BY <1>28 DEF Enqueue, DeliverStep, Goes, Crash, life, request, exchange,
      delivery
  <2>2. Added' = Added
    BY <2>1, AddedAlike DEF Added
  <2>3. QED
    BY <2>1, <2>2, Stutters
<1>29. QED
  BY <1>1, <1>2, <1>3, <1>4, <1>5, <1>6, <1>7, <1>8, <1>9, <1>10, <1>11,
    <1>12, <1>13, <1>14, <1>15, <1>16, <1>17, <1>18, <1>19, <1>20, <1>21,
    <1>22, <1>23, <1>24, <1>25, <1>26, <1>27, <1>28 DEF Next, Connect, Start, Stop, Send, Receive, Deliver

\* Delivery implements at-least-once delivery for any messages, capacities and
\* numbers of identifiers and sessions.
THEOREM Implements == Spec => AtLeastOnceSpec
<1>1. Init => Promise!Init
  <2>1. ASSUME Init PROVE Added \ outbound = {} /\ {m \in wrote : Qos[m] > 0} = {}
    BY <2>1 DEF Init, Added
  <2>2. QED
    BY <2>1 DEF Init, Promise!Init
<1>2. Inv /\ [Next]_vars => [Promise!Next]_Promise!vars
  BY PromiseStep
<1>3. QED
  BY Invariance, <1>1, <1>2, PTL DEF Spec, AtLeastOnceSpec, Promise!Spec
=============================================================================
