------------------------------ MODULE Delivery ------------------------------
(***************************************************************************)
(* A message on its way to one client: DeliverMessage and FindRetained     *)
(* store and queue it (router.go), Send numbers and writes it, Receive     *)
(* takes the client's acknowledgements (client.go, messageids.go), and     *)
(* Start replays what is stored (memory_persistence.go), over several      *)
(* sessions of the client.                                                 *)
(*                                                                         *)
(* The client connects again only after its session's Stop is over, or, in *)
(* a clean session, by taking over one that is CONNECTED; what overlapping *)
(* sessions do to each other is module Lifecycle's subject.                *)
(***************************************************************************)
EXTENDS Naturals, Sequences, FiniteSets

CONSTANTS
  Message,     \* the packets made for this client: each is its own UUID
  Qos,         \* their QoS after calcMinQos
  Nil,         \* no message, no object, no store
  QDepth,      \* maxQueueDepth, the capacity of both outbound channels
  MaxId,       \* msgIDMax, which getMsgID never gives out
  MaxSession,  \* bound: the CONNECTs
  MaxInbound   \* bound: the PUBLISHes and PUBRELs the client sends

ASSUME QosAssumption == Qos \in [Message -> 0 .. 2]
\* The packets, other than Message, that meet a queue or the store.
Control ==
  [kind : {"PUBLISH", "PUBACK", "PUBREC", "PUBREL", "PUBCOMP", "REPLY"},
   id : 0 .. MaxId - 1, uuid : Nat]
Packet(kind, id, uuid) == [kind |-> kind, id |-> id, uuid |-> uuid]

ASSUME MessageAssumption == \A m \in Message : m \notin Control
ASSUME NilAssumption == Nil \notin Message \cup Control \cup Nat
ASSUME SizeAssumption == QDepth \in Nat \ {0} /\ MaxId \in Nat \ {0, 1}
ASSUME BoundAssumption == MaxSession \in Nat /\ MaxInbound \in Nat

VARIABLES
  \* the client's session and its Client object
  phase,      \* where Start or Stop is
  session,    \* the number of CONNECTs so far
  clean, takeOver,
  object,     \* the session whose CONNECT made the object
  known,      \* clients.list has it
  connected,  \* the objects whose state is CONNECTED
  starting,   \* the Starts that have yet to make their object CONNECTED
  receiving,  \* its Receive runs
  subscribed, \* the subscription map has it
  replying,   \* Receive has a SUBACK, UNSUBACK or PINGRESP to send
  \* the outbound channels
  messages, priority, closed,
  \* PersistStore
  stored,     \* the client has an entry, and the two maps are in it
  inbound, outbound,
  replay,     \* what is left of the slice Start got from GetAll
  \* the exchanges of packets
  index,      \* the message each identifier in use was given to
  arrived,    \* the number of packets the client has sent, and
  released,   \* of PUBRELs made for it: they tell UUIDs apart
  due,        \* the exchanges the client has not answered
  wrote,      \* the messages written in this session
  acked,      \* the messages whose exchange is over
  stray,      \* a replayed PUBREL was answered in the life of this object
  \* each message's delivery
  at,         \* where its goroutine is
  to,         \* the object it has a pointer to
  live,       \* what Connected() said
  \* what the properties look at
  promised,   \* the messages on their way or stored since the last Open
  overlap,    \* the deliveries a Stop ran beside
  stale,      \* the objects that were stopped with a Start of theirs to end
  panic       \* the packet whose sending brought the process down

life == <<phase, session, clean, takeOver, object, known, connected, starting,
          receiving>>
request == <<subscribed, replying>>
channels == <<messages, priority, closed>>
persistence == <<stored, inbound, outbound>>
exchange == <<index, arrived, released, due, wrote, acked, stray>>
delivery == <<at, to, live>>
observed == <<promised, overlap, stale>>
vars == <<life, request, channels, persistence, replay, exchange, delivery,
          observed, panic>>

-----------------------------------------------------------------------------
Id == 1 .. MaxId - 1
Stopping == {"close", "unmap", "unsubscribe", "release"}
Up == panic = Nil

\* Mutant of HasRoom: one more fits.
MutHasRoom(queue) == Len(queue) <= QDepth
HasRoom(queue) == Len(queue) < QDepth

\* "select { case queue <- packet: default: }".
Offer(queue, packet) == IF HasRoom(queue) THEN Append(queue, packet) ELSE queue

Init ==
  /\ phase = "down" /\ session = 0 /\ clean = FALSE /\ takeOver = FALSE
  /\ object = 0 /\ known = FALSE /\ subscribed = FALSE /\ replying = FALSE
  /\ connected = {} /\ starting = {} /\ receiving = FALSE
  /\ messages = <<>> /\ priority = <<>> /\ closed = FALSE
  /\ stored = FALSE /\ inbound = {} /\ outbound = {} /\ replay = {}
  /\ index = [i \in Id |-> Nil] /\ arrived = 0 /\ released = 0
  /\ due = {} /\ wrote = {} /\ acked = {} /\ stray = FALSE
  /\ at = [m \in Message |-> "idle"]
  /\ to = [m \in Message |-> Nil]
  /\ live = [m \in Message |-> FALSE]
  /\ promised = {} /\ overlap = {} /\ stale = {} /\ panic = Nil

-----------------------------------------------------------------------------
(* A session begins: InitClient and Start.                                 *)

\* A new object: no identifiers in use, channels of its own.
ConnectNew(c) ==
  /\ phase = "down" /\ ~(known /\ c)
  /\ object' = session' /\ known' = TRUE
  /\ takeOver' = FALSE /\ stray' = FALSE
  /\ index' = [i \in Id |-> Nil]
  /\ messages' = <<>> /\ priority' = <<>> /\ closed' = FALSE

\* A clean session gives a durable client that is away new channels only.
ConnectResume(c) ==
  /\ phase = "down" /\ known /\ c /\ object \notin connected
  /\ messages' = <<>> /\ priority' = <<>> /\ closed' = FALSE
  /\ UNCHANGED <<object, known, takeOver, index, stray>>

\* A clean session takes a CONNECTED one over, with channels and identifiers.
\* So it does when that one's Stop is over and its Start spoke last: the
\* channels it takes are closed.
ConnectTakeover(c) ==
  /\ phase \in {"up", "down"} /\ ~replying /\ known /\ c
  /\ object \in connected
  /\ takeOver' = TRUE
  /\ UNCHANGED <<object, known, channels, index, stray>>

Connect(c) ==
  /\ Up /\ session < MaxSession
  /\ session' = session + 1
  /\ ConnectNew(c) \/ ConnectResume(c) \/ ConnectTakeover(c)
  /\ phase' = "open" /\ clean' = c /\ receiving' = FALSE
  /\ due' = {} /\ wrote' = {}
  /\ UNCHANGED <<connected, starting, request, persistence, replay, arrived,
                 released, acked, delivery, observed, panic>>

StartStep(here) ==
  /\ Up /\ phase = here
  /\ UNCHANGED <<session, clean, takeOver, object, known, request, closed,
                 exchange, delivery, overlap, stale, panic>>

\* Open replaces whatever the client had stored.
StartOpen ==
  /\ StartStep("open")
  /\ IF clean \/ ~stored
       THEN stored' = TRUE /\ inbound' = {} /\ outbound' = {} /\ replay' = {}
            /\ promised' = {}
       ELSE replay' = outbound /\ UNCHANGED <<persistence, promised>>
  /\ phase' = "replay"
  /\ UNCHANGED <<connected, starting, receiving, messages, priority>>

\* Mutant of Rest: the store is read again for every packet.
MutRest(packet) == outbound
Rest(packet) == replay \ {packet}

\* Each stored packet goes into its channel, which nobody reads yet: the send
\* blocks when there is no room.
StartReplay ==
  /\ StartStep("replay")
  /\ \E packet \in replay :
       /\ replay' = Rest(packet)
       /\ \/ /\ packet \in Message /\ HasRoom(messages)
             /\ messages' = Append(messages, packet) /\ UNCHANGED priority
          \/ /\ packet \notin Message /\ HasRoom(priority)
             /\ priority' = Append(priority, packet) /\ UNCHANGED messages
  /\ UNCHANGED <<phase, connected, starting, receiving, persistence, promised>>

\* Receive and Send run.
StartServe ==
  /\ StartStep("replay") /\ replay = {}
  /\ phase' = "up" /\ receiving' = TRUE
  /\ starting' = starting \cup {[session |-> session, object |-> object]}
  /\ UNCHANGED <<connected, messages, priority, persistence, replay, promised>>

\* Then Start makes its object CONNECTED, however much Receive, Send and a
\* whole Stop did meanwhile.
StartConnected ==
  /\ Up
  /\ \E start \in starting :
       /\ connected' = connected \cup {start.object}
       /\ starting' = starting \ {start}
  /\ UNCHANGED <<phase, session, clean, takeOver, object, known, receiving,
                 request, channels, persistence, replay, exchange, delivery,
                 observed, panic>>

-----------------------------------------------------------------------------
(* A session ends: Stop.                                                   *)

StopStep(here) ==
  /\ Up /\ phase = here
  /\ UNCHANGED <<session, clean, takeOver, object, starting, messages, priority,
                 replay, index, arrived, released, wrote, acked, stray, delivery,
                 panic>>

\* Receive is over.  In a session that took its object over Stop does nothing
\* and Send runs on.
StopTaken ==
  /\ StopStep("up") /\ receiving /\ ~replying /\ takeOver
  /\ receiving' = FALSE /\ due' = {}
  /\ UNCHANGED <<phase, known, connected, request, closed, persistence,
                 observed>>

Starting(o) == \E start \in starting : start.object = o

\* Otherwise the goroutines end and the client is DISCONNECTED.
StopDrain ==
  /\ StopStep("up") /\ receiving /\ ~replying /\ ~takeOver
  /\ phase' = "close" /\ connected' = connected \ {object}
  /\ receiving' = FALSE /\ due' = {}
  /\ stale' = IF Starting(object) THEN stale \cup {object} ELSE stale
  /\ overlap' = overlap \cup {m \in Message : at[m] \notin {"idle", "done"}}
  /\ UNCHANGED <<known, request, closed, persistence, promised>>

Teardown(here, next) ==
  /\ StopStep(here) /\ phase' = next
  /\ UNCHANGED <<connected, receiving, due, overlap, stale>>

StopClose ==
  /\ Teardown("close", IF clean THEN "unmap" ELSE "down")
  /\ closed' = TRUE /\ UNCHANGED <<known, request, persistence, promised>>
StopUnmap ==
  /\ Teardown("unmap", "unsubscribe")
  /\ known' = FALSE /\ UNCHANGED <<request, closed, persistence, promised>>
\* Mutant of StopUnsubscribe: the subscription stays.
MutStopUnsubscribe ==
  /\ Teardown("unsubscribe", "release")
  /\ UNCHANGED <<known, request, closed, persistence, promised>>
StopUnsubscribe ==
  /\ Teardown("unsubscribe", "release")
  /\ subscribed' = FALSE
  /\ UNCHANGED <<known, replying, closed, persistence, promised>>
StopRelease ==
  /\ Teardown("release", "down")
  /\ stored' = FALSE /\ inbound' = {} /\ outbound' = {} /\ promised' = {}
  /\ UNCHANGED <<known, request, closed>>

Stop == StopTaken \/ StopDrain \/ StopClose \/ StopUnmap \/ StopUnsubscribe
          \/ StopRelease

-----------------------------------------------------------------------------
(* A delivery: what DeliverMessage and FindRetained do for this client.    *)

DeliverStep(m, here) ==
  /\ Up /\ at[m] = here
  /\ UNCHANGED <<life, request, priority, closed, stored, inbound, replay,
                 exchange>>

Goes(m, next) == at' = [at EXCEPT ![m] = next]

\* A nil client, a store that is gone and a closed channel all panic.
Crash(m) == panic' = m /\ UNCHANGED <<messages, outbound, delivery, observed>>

\* The client is in deliverList.
List(m) ==
  /\ DeliverStep(m, "idle") /\ subscribed
  /\ Goes(m, "listed")
  /\ promised' = promised \cup {m}
  /\ overlap' = IF phase \in Stopping THEN overlap \cup {m} ELSE overlap
  /\ UNCHANGED <<messages, outbound, to, live, stale, panic>>

\* getClient.
Lookup(m) ==
  /\ DeliverStep(m, "listed")
  /\ Goes(m, "found")
  /\ to' = [to EXCEPT ![m] = IF known THEN object ELSE Nil]
  /\ UNCHANGED <<messages, outbound, live, observed, panic>>

\* The object a delivery points at is the client's, not a replaced one.
Current(m) == to[m] = object

\* Mutant of Connected: every client that is found is taken for connected.
MutConnected(m) == Current(m)
Connected(m) == to[m] \in connected

\* Connected(), of a nil client or of one whose session may have ended.
Check(m) ==
  /\ DeliverStep(m, "found")
  /\ \/ to[m] = Nil /\ Crash(m)
     \/ /\ to[m] # Nil
        /\ live' = [live EXCEPT ![m] = Connected(m)]
        /\ Goes(m, IF Qos[m] > 0 THEN "add"
                   ELSE IF Connected(m) THEN "queue" ELSE "done")
        /\ UNCHANGED <<messages, outbound, to, observed, panic>>

\* Mutant of Persist: a message for a client that is away is thrown away.
MutPersist(m) == IF live[m] THEN outbound \cup {m} ELSE outbound

\* Mutant of Persist: a message for a client that is CONNECTED is sent only.
MutSent(m) == IF live[m] THEN outbound ELSE outbound \cup {m}

\* PersistStore.Add, under the client's identifier.
Persist(m) == outbound \cup {m}

AddOutbound(m) ==
  /\ DeliverStep(m, "add")
  /\ \/ ~stored /\ Crash(m)
     \/ /\ stored
        /\ outbound' = Persist(m)
        /\ Goes(m, IF live[m] THEN "queue" ELSE "done")
        /\ UNCHANGED <<messages, to, live, observed, panic>>

\* The send that is given up when there is no room.  On a closed channel it
\* panics all the same; a replaced object's channels are closed.
Enqueue(m) ==
  /\ DeliverStep(m, "queue")
  /\ \/ (~Current(m) \/ closed) /\ Crash(m)
     \/ /\ Current(m) /\ ~closed
        /\ messages' = Offer(messages, m)
        /\ Goes(m, "done")
        /\ UNCHANGED <<outbound, to, live, observed, panic>>

-----------------------------------------------------------------------------
(* Send.                                                                   *)

SendStep ==
  /\ Up /\ phase = "up"
  /\ UNCHANGED <<life, request, closed, persistence, replay, arrived,
                 released, acked, stray, delivery, observed, panic>>

\* Mutant of Free: the identifiers in use are not looked at.
MutFree == Id
Free == {i \in Id : index[i] = Nil}
Exchange(m, id, wants) == [of |-> m, id |-> id, wants |-> wants]

\* getMsgID: the least free identifier, and 0 when there is none.
getMsgID == IF Free = {} THEN 0 ELSE CHOOSE i \in Free : \A j \in Free : i <= j

\* What the client owes for a message: nothing if its connection is gone.
Owed(m, id) ==
  IF ~receiving \/ Qos[m] = 0 THEN {}
  ELSE {Exchange(m, id, IF Qos[m] = 1 THEN "PUBACK" ELSE "PUBREC")}

SendMessage ==
  /\ SendStep /\ messages # <<>>
  /\ LET m == Head(messages)
         id == getMsgID
     IN /\ index' = IF Qos[m] > 0 /\ id # 0
                    THEN [index EXCEPT ![id] = m] ELSE index
        /\ due' = due \cup Owed(m, id)
        /\ wrote' = wrote \cup {m}
  /\ messages' = Tail(messages) /\ UNCHANGED priority

\* A PUBREL is answered with a PUBCOMP, whether the client knows it or not.
Answers(id) ==
  LET waiting == {x \in due : x.id = id /\ x.wants = "PUBREL"}
  IN (due \ waiting)
       \cup IF waiting = {} THEN {Exchange(Nil, id, "PUBCOMP")}
            ELSE {Exchange(x.of, id, "PUBCOMP") : x \in waiting}

SendPriority ==
  /\ SendStep /\ priority # <<>>
  /\ due' = IF Head(priority).kind = "PUBREL" /\ receiving
            THEN Answers(Head(priority).id) ELSE due
  /\ priority' = Tail(priority) /\ UNCHANGED <<messages, index, wrote>>

-----------------------------------------------------------------------------
(* Receive: the client answers what it was sent, once.                     *)

RecvStep ==
  /\ Up /\ receiving /\ ~replying
  /\ UNCHANGED <<life, messages, closed, stored, replay, wrote, delivery,
                 observed, panic>>

inUse(id) == id \in Id /\ index[id] # Nil
freeID(id) == index' = [index EXCEPT ![id] = Nil]

\* PersistStore.Delete, by UUID: an acknowledgement read from the network has
\* a new one, and so has one that Receive makes.
Delete(entries, packet) == entries \ {packet}

\* PersistStore.Replace: an entry under a UUID of its own beside the others.
Replace(entries, packet) == entries \cup {packet}

RecvPuback(x) ==
  /\ RecvStep /\ x.wants = "PUBACK"
  /\ due' = due \ {x}
  /\ \/ /\ inUse(x.id) /\ freeID(x.id)
        /\ outbound' = Delete(outbound, Packet("PUBACK", x.id, arrived))
        /\ acked' = acked \cup {x.of}
     \/ ~inUse(x.id) /\ UNCHANGED <<outbound, index, acked>>
  /\ UNCHANGED <<request, priority, inbound, arrived, released, stray>>

\* HandleFlow keeps a PUBREL and offers it to Send.
RecvPubrec(x) ==
  /\ RecvStep /\ x.wants = "PUBREC"
  /\ \/ /\ inUse(x.id) /\ ~closed
        /\ outbound' = Replace(outbound, Packet("PUBREL", x.id, released))
        /\ priority' = Offer(priority, Packet("PUBREL", x.id, released))
        /\ released' = released + 1
        /\ due' = (due \ {x}) \cup {Exchange(x.of, x.id, "PUBREL")}
     \/ ~inUse(x.id) /\ due' = due \ {x}
        /\ UNCHANGED <<released, outbound, priority>>
  /\ UNCHANGED <<request, index, inbound, arrived, acked, stray>>

\* The identifier is freed; nothing is deleted from the store.
RecvPubcomp(x) ==
  /\ RecvStep /\ x.wants = "PUBCOMP"
  /\ due' = due \ {x}
  /\ \/ inUse(x.id) /\ freeID(x.id) /\ acked' = acked \cup ({x.of} \ {Nil})
     \/ ~inUse(x.id) /\ UNCHANGED <<index, acked>>
  /\ stray' = (stray \/ x.of = Nil)
  /\ UNCHANGED <<request, priority, inbound, outbound, arrived, released>>

\* A PUBLISH is kept if its QoS asks for it, a PUBREL never; HandleFlow takes
\* the answer's own UUID off the inbound store and offers it to Send.
RecvInbound(kind, answer) ==
  /\ RecvStep /\ arrived < MaxInbound /\ ~closed
  /\ arrived' = arrived + 1
  /\ LET ack == Packet(answer, 0, arrived)
         kept == IF kind = "PUBLISH"
                 THEN inbound \cup {Packet(kind, 0, arrived)} ELSE inbound
     IN /\ inbound' = IF answer = "PUBREC" THEN kept ELSE Delete(kept, ack)
        /\ priority' = Offer(priority, ack)
  /\ UNCHANGED <<request, index, outbound, released, due, acked, stray>>

\* SUBSCRIBE, UNSUBSCRIBE and PINGREQ: the first two change the map, and all
\* have an answer ...
RecvRequest(s) ==
  /\ RecvStep
  /\ subscribed' = s /\ replying' = TRUE
  /\ UNCHANGED <<priority, index, inbound, outbound, arrived, released, due,
                 acked, stray>>

\* ... which Receive, reading no more, puts in the queue when there is room.
RecvReply ==
  /\ Up /\ replying /\ HasRoom(priority) /\ ~closed
  /\ priority' = Append(priority, Packet("REPLY", 0, 0))
  /\ replying' = FALSE
  /\ UNCHANGED <<life, subscribed, messages, closed, persistence, replay,
                 exchange, delivery, observed, panic>>

\* A packet for a closed channel, HandleFlow's or Receive's own, panics.
RecvClosed ==
  /\ Up /\ receiving /\ closed
  /\ \/ replying /\ panic' = Packet("REPLY", 0, 0)
     \/ /\ ~replying
        /\ \/ \E x \in due : /\ x.wants = "PUBREC" /\ inUse(x.id)
                            /\ panic' = Packet("PUBREL", x.id, released)
           \/ /\ arrived < MaxInbound
              /\ \E answer \in {"PUBACK", "PUBREC", "PUBCOMP"} :
                   panic' = Packet(answer, 0, arrived)
  /\ UNCHANGED <<life, request, channels, persistence, replay, exchange,
                 delivery, observed>>

-----------------------------------------------------------------------------
Start == StartOpen \/ StartReplay \/ StartServe \/ StartConnected
Send == SendMessage \/ SendPriority
Receive ==
  \/ \E x \in due : RecvPuback(x) \/ RecvPubrec(x) \/ RecvPubcomp(x)
  \/ RecvInbound("PUBLISH", "PUBACK") \/ RecvInbound("PUBLISH", "PUBREC")
  \/ RecvInbound("PUBREL", "PUBCOMP")
  \/ RecvReply \/ RecvClosed \/ \E s \in BOOLEAN : RecvRequest(s)
Deliver(m) ==
  List(m) \/ Lookup(m) \/ Check(m) \/ AddOutbound(m) \/ Enqueue(m)

Next == \/ \E c \in BOOLEAN : Connect(c)
        \/ Start \/ Stop \/ Send \/ Receive
        \/ \E m \in Message : Deliver(m)

Spec == Init /\ [][Next]_vars

\* Start, Send and Stop's own steps are scheduled; the client, and those who
\* publish, need not do anything.
FairSpec == Spec /\ WF_vars(Start) /\ WF_vars(Send)

-----------------------------------------------------------------------------
(* What a delivery promises.                                               *)

SessionType ==
  /\ phase \in {"down", "open", "replay", "up"} \cup Stopping
  /\ session \in 0 .. MaxSession /\ object \in 0 .. session
  /\ clean \in BOOLEAN /\ takeOver \in BOOLEAN
  /\ known \in BOOLEAN /\ subscribed \in BOOLEAN /\ replying \in BOOLEAN
  /\ replying => receiving
  /\ takeOver => phase \in {"open", "replay", "up"}
  /\ connected \subseteq 0 .. session
  /\ \A start \in starting :
       start \in [session : 0 .. session, object : 0 .. session]
  /\ receiving \in {FALSE, phase = "up"}

QueueType ==
  /\ messages \in Seq(Message) /\ Len(messages) <= QDepth
  /\ priority \in Seq(Control) /\ Len(priority) <= QDepth
  /\ closed \in BOOLEAN

StoreType ==
  /\ stored \in BOOLEAN /\ (phase \in {"replay", "up", "close"} => stored)
  /\ inbound \subseteq Control /\ outbound \subseteq Message \cup Control
  /\ replay \subseteq (IF phase = "replay" THEN outbound ELSE {})

ExchangeType ==
  /\ index \in [Id -> Message \cup {Nil}]
  /\ arrived \in Nat /\ released \in Nat
  /\ \A x \in due : /\ x \in [of : Message \cup {Nil}, id : 0 .. MaxId - 1,
                              wants : {"PUBACK", "PUBREC", "PUBREL", "PUBCOMP"}]
                    /\ x.of = Nil => x.wants = "PUBCOMP"
  /\ wrote \subseteq Message /\ acked \subseteq Message /\ stray \in BOOLEAN

DeliveryType ==
  /\ at \in [Message -> {"idle", "listed", "found", "add", "queue", "done"}]
  /\ to \in [Message -> 0 .. session \cup {Nil}]
  /\ live \in [Message -> BOOLEAN]
  /\ promised \subseteq Message /\ overlap \subseteq Message
  /\ stale \subseteq 0 .. session
  /\ panic \in Message \cup Control \cup {Nil}

\* The shape of the state: the queues hold what the store or a delivery put
\* there and never more than their capacity, the store is there while a
\* session is served, and a goroutine points at an object that was made
\* (client.go:17-49, memory_persistence.go:9-21).
TypeOK ==
  SessionType /\ QueueType /\ StoreType /\ ExchangeType /\ DeliveryType

\* A message for a client with QoS 1 or 2, once its delivery is over, is in
\* the store or acknowledged, whatever sessions began, ended or were replayed
\* beside it, as long as no session opened or closed the store
\* (router.go:206-219, client.go:151-172).
NothingLost ==
  \A m \in promised :
    Up /\ at[m] = "done" /\ Qos[m] > 0 =>
      m \in acked \/ m \in outbound

\* No session is sent a message twice: a message is queued by its delivery or
\* by the replay, never by both (client.go:151-182, router.go:209-217).
WroteOnce ==
  \A m \in Message :
    LET waits == {i \in 1 .. Len(messages) : messages[i] = m} IN
      /\ \A i, j \in waits : i = j
      /\ waits # {} => m \notin wrote \cup replay
      /\ m \in wrote => m \notin replay
      /\ at[m] = "queue" /\ Current(m) => m \notin wrote \cup replay

\* An identifier belongs to the message it was sent with until the client has
\* answered it, so no two exchanges share one, except after the client was
\* sent a PUBREL out of the store that belongs to no exchange of the session
\* (messageids.go:39-61, client.go:298-339).
IdHeld ==
  stray \/ \A x \in due : x.id # 0 /\ x.of # Nil => index[x.id] = x.of

\* A send brings the process down only in a delivery that overlaps the end of
\* a session of its client, or, in a delivery or in Receive, on an object that
\* was stopped before its Start had made it CONNECTED, however long ago
\* (router.go:203-226, client.go:105-125, 176-182, 369-381).
PanicNeedsStop ==
  /\ panic \in Message => panic \in overlap \/ to[panic] \in stale
  /\ panic \in Control => object \in stale

\* A client with no more packets in the store than its channels hold is
\* served when it connects (client.go:151-182).
ReplayFits ==
  LET left == replay \cap Message IN
  /\ phase = "replay"
  /\ Cardinality(left) + Len(messages) <= QDepth
  /\ Cardinality(replay \ left) + Len(priority) <= QDepth
FewAreServed == ReplayFits ~> phase = "up" \/ ~Up

\* The messages of QoS 1 and 2 whose delivery is past the store.
Added == {m \in Message : Qos[m] > 0 /\ at[m] \in {"queue", "done"}}

\* At-least-once delivery, as far as the code promises it: a message of QoS 1 or
\* 2 is stored before it is written, what is stored stays stored while a
\* session is served, and a message is acknowledged only in the session it
\* was written in (router.go:206-219, client.go:131-188, 281-343, 383-418).
Promise == INSTANCE AtLeastOnce WITH
  kept <- outbound \cap Message, forgotten <- Added \ outbound,
  sending <- {m \in wrote : Qos[m] > 0}, done <- acked, open <- phase = "up"
AtLeastOnceSpec == Promise!Spec
=============================================================================
