# Verification of the hrotti MQTT broker

TLA+ models of the broker in `src/broker`, their TLC configurations, and proofs
checked by TLAPS. Line numbers refer to `src/broker` unless a path is given.

| Module | What it is |
|---|---|
| `Lifecycle` | the goroutines of every client connection, from `InitClient` to `Stop` and `StopForTakeover` |
| `LifecycleInv` | its inductive invariants `IInv` and `Entries` |
| `LifecycleBasics`, `LifecycleProofs` | the proofs: the first half of `IInv`; the second, and `Entries` |
| `TopicMatch`, `TopicMatchProofs` | `match` and the bitmap search of `DeliverMessage`, as pure operators, and what they compute |
| `Routing` | the subscription map and the retained messages under concurrent use |
| `RoutingInv`, `RoutingProofs` | its inductive invariant `Inv` and the proofs |
| `AtLeastOnce` | abstract: what the broker promises of the messages of QoS 1 and 2 to one client |
| `Delivery` | one client's messages: stored, queued, numbered, written, acknowledged, replayed; implements `AtLeastOnce` |
| `DeliveryInv`, `DeliveryProofs` | its inductive invariant `Inv` and the proofs |
| `Listener` | the broker's listeners: `AddListener`, the accept loops, `StopListener`, `Stop` |
| `ListenerInv`, `ListenerProofs` | its inductive invariant `Inv` and the proofs |
| `PacketCodec`, `CodecProofs` | the bytes of every packet type, as pure operators, and that `Unpack` reads what `Write` wrote |
| `PacketLink` | abstract: packets go over a connection in order and once, until it is lost |
| `Wire` | `Write` and `ReadPacket`, byte by byte, on a connection that may be lost; implements `PacketLink` |
| `WireInv`, `WireProofs` | its inductive invariant `Inv` and the proofs |
| `LifecycleClaims`, `DeliveryClaims`, `ListenerClaims` | what the repository says of the code and the code does not do |
| `MCLifecycle`, `MCRouting`, `MCDelivery`, `MCListener`, `MCWire` | instances for TLC |

## 1. Inventory

**Client life cycle** (`server.go:143-250`, `client.go`). The state is
`clients.list` under `clients.Lock`, and for each `Client` object its `state`,
`takeOver`, flags, `stop` channel, `stopOnce`, `conn`, the two outbound channels
and an embedded `WaitGroup`. `InitClient` runs per connection: it reads the
CONNECT, and under the lock takes over, reuses or creates a `Client`, spawns
`Start` and waits for `c.stop`. `Start` opens or replays the store, spawns
`Receive` and `Send`, sets CONNECTED and perhaps spawns `KeepAliveTimer`. Any of
`Receive` (error, DISCONNECT) and `KeepAliveTimer` (timeout) spawns `Stop`. Hard:
eight kinds of goroutines share an object whose fields a takeover replaces, the
teardown waits for goroutines that may wait for each other, and a clean
teardown is several steps that a new CONNECT can come between. Correct when the
WaitGroup is exact, the teardown of a session runs once and ends, no goroutine
uses a closed channel or a nil connection, and nothing of a clean session stays.

**Routing** (`router.go`, `subscriptions.go`). State: the subscription map, an
element bitmap per level, the retained map, and a RWMutex. Operations: `AddSub`,
`DeleteSub`, `DeleteSubAll`, `SetRetained`, `FindRetained`, `DeliverMessage`.
Hard: the locks cover only parts of `FindRetained` and `DeliverMessage`, and two
different algorithms decide what matches. Correct when both agree, when whoever
subscribes is served with the right QoS and nobody else, and when no retained
message is missed.

**Delivery** (`router.go:202-226`, `client.go:151-182, 281-343, 383-418`,
`messageids.go`). State: the two channels of `maxQueueDepth` packets, the
identifiers in use, the two stores, the exchanges under way. `DeliverMessage`
checks `Connected`, stores and queues; `Send` numbers and writes; `Receive`
takes acknowledgements; `Start` replays. Hard: a delivery holds no lock between
those steps, queues drop, sessions end and are replayed. Correct when a message
of QoS 1 or 2 stays stored until acknowledged, is sent once per session, keeps
its identifier until answered, and a delivery does not crash the broker.

**Memory persistence** (`memory_persistence.go`): two maps per client, each
operation under a lock; modelled inside `Delivery` and, as presence or absence,
inside `Lifecycle`.

**Listeners** (`server.go:15-141`). State: `h.listeners` from names to
`internalListener`, each with a `stop` channel, a socket and the slice
`connections`; `listenersWaitGroup`; the `ServeMux` of the `http` package. A tcp
listener has one goroutine that accepts, records and spawns `InitClient`; a
WebSocket listener's connections are each recorded by their own goroutine.
`StopListener` closes `stop` and the recorded connections, `Stop` closes every
`stop` and waits. Hard: the slice has no lock, a closed `stop` takes effect
later, names can be given twice, and `Listen`, `Accept` and `Handle` can fail.
Correct when `Stop` returns and nothing accepts after it, and when
`StopListener` disconnects the listener's clients.

**Packet codec** (`src/packets`). No state; a `Write` and an `Unpack` per packet
type, the fixed header with its variable length, `ReadPacket`, and the CONNECT's
`Validate`. Hard: read errors inside the length are ignored, reads past the end
of a body give zeros, and one misread length garbles all that follows. Correct
when what is read is what was written, wherever the connection is lost.

**Configuration and main** (`src/main.go`, `src/config.go`): parse and start,
no lasting state. **Statistics**: used by nothing. **Plugins**: not compiled in
(`client.go:11-14`). These will not be modelled.

How the parts meet: a listener hands a connection to `InitClient`; `Receive` calls the
router for SUBSCRIBE, UNSUBSCRIBE and PUBLISH and the store for acknowledgements; the
router finds a `Client` through `getClient` and writes to its channels and its store;
`Stop` removes the client from the list, the router and the store. The models cut there:
`Lifecycle` keeps of the router and the store only whether the identifier has an entry,
`Routing` ends where a message is handed to a client, and `Delivery` begins there with
one client whose sessions do not overlap except by a takeover that waits and by a late
`Start`. `Listener` ends where `InitClient` has read the CONNECT, and `Wire` is one
direction of the connection that `Receive` or `Send` has.

## 2. Lifecycle

A connection `k` names everything its `InitClient` makes: goroutines
`<<k, role>>`, its object, its session (stop channel, Once, `net.Conn`) and its
channels. `client[k]` is the object it runs on, `cur[o]` and `chan[o]` the
session and channels the fields of object `o` refer to now. A goroutine that
evaluates `c.stop` or a channel once and then waits keeps what it read in `on`
or `sendChan`, so a takeover that replaces the field leaves it with the old one,
as in Go. Each goroutine has a label in `pc`; an action runs from one access to
state that others see to the next. A panic in any goroutine ends the process
(`Up`). The roles and their code:

| role | code | labels in order |
|---|---|---|
| init | `InitClient` 143-250, with `StopForTakeover` 80-92 | lock, takeover, drain, install or reinstall, serve, wait, done |
| start | `Start` 131-188 | open, replay or blocked, connack, spawn, state, timer, done |
| recv | `Receive` 205-367 | check, read, reply, done |
| send | `Send` 383-418 | enter, select, done |
| timer | `KeepAliveTimer` 55-78 | enter, select, done |
| recvStop, timerStop | `Stop` 94-129 | entry, once, close, drain, channels, unmap, unsubscribe, release, done |

`Traffic` says what peers and clocks do in an instance; each of its kinds enables the
action for that kind of packet or event. Assumed: every CONNECT carries a will (so
`wills` counts every publication that can happen); the field assignments after a
takeover and those at the head of `Start` are one step each, and so are the two closes
of `Stop` (`StopChannels`), which nobody can tell apart, since no goroutine sends on
both channels; deliveries from other clients do not fill this client's channels (that is
`Delivery`); the goroutine that announces a generated identifier (`server.go:229-237`)
and data races on plain fields are left out.

`Wait` is the guard `wg = 0` of `StopDrain` and `TakeoverDrain`. Go's WaitGroup
panics in a `Wait` that the last `Done` has let go when an `Add` comes before it has
returned; `WaitReused` is that outcome, for each `Add` of the code (`AddsTo`) and
each `Wait` under way (`Waited`).

**Fairness.** `FairSpec` has weak fairness on every goroutine of the broker, which
Go's scheduler justifies, and strong fairness on the stop case of the two
selects, because select chooses among ready cases at random. Nothing is assumed
of peers and clocks: they need not connect, send anything, expire or read, so
`SendPacket` has no fairness (its `Write` blocks on a peer that does not read). A
read on a connection that the broker closed does fail.

## 3. TopicMatch and Routing

A topic or subscription is the sequence of its elements. `Match` is `match`; `Walk` is
the loop of `DeliverMessage` over the bitmap with its three cases (first level, a level
below, the end mark); `Here` and `Hash` are what it reads of the bitmap on a level,
`Ends` says that the topic's end mark is due there. `Routing` has a goroutine per
publication (`Receive`, `MatchTopic` under the read lock, one `Collect` per matched
subscription without a lock, `Hand`) and one per `AddSub` (`FindRetained`, at any later
moment, without a lock). `added` never shrinks, because the bitmap is never cleared.
`FindRetained`'s iteration over the retained map is one step: Go aborts the process if a
write overlaps it, and that outcome is `MapRace`, which is also possible wherever a map
is read or written outside a sufficient lock. A subscription too long for the bitmap
panics in `AddSub`, as in the code.

`router.go` relies on what MQTT asks of topics and never checks it: with an element that
is the end mark `"\u0000"`, or a `#` in a topic, the search can miss or add what `match`
would not, and it can run out of the bitmap. A subscription of nine elements is the
longest that `AddSub` takes, with the end mark on the tenth level; a topic that goes on
after it with an element `"\u0000"` keeps the match there, and what follows is looked up
on an eleventh (`router.go:152-185`). The operators and the model take any strings, and
nothing is assumed of them: a property that needs a string to be plain says so in itself
(`NoNUL`, `NoHash`), and `OverrunNeedsEndMark` says of which topics the search leaves
the bitmap. The instance publishes on such a topic (`<<"a", "b", "NUL">>`, with three
levels).

`Collect` reads all clients of one subscription together. Go's iteration visits them
one by one, but what it takes of one client depends on nothing of another's, and the
properties speak of one client each; the interleaving of subscriptions is kept.

## 4. Delivery

One client, its Client object, and one delivery goroutine per message. `phase` walks
through `Start` and `Stop` step by step, since a delivery can come between any two; a
session starts when the one before is stopped, or takes over one that is CONNECTED.
`StartServe` spawns `Receive` and `Send`; that the object becomes CONNECTED is a step of
its own (`StartConnected`, `client.go:182`), which may come at any later time, after a
whole `Stop` too. `connected` is the set of objects in that state, `starting` the
`Start`s that have yet to do it, and `stale` remembers the objects that were stopped
first: they end up CONNECTED with closed channels. `RecvClosed` is a `Receive` that has
such channels. `AddOutbound` and `Enqueue` are two steps: `Add` and the send to the
channel. `due` is what an honest client still has to answer: it answers each exchange
once, in any order, or never; a PUBREL it does not know it answers too. A PUBACK, PUBREC
or PUBCOMP has a UUID of its own, so `Delete` and `Replace` by UUID do what the code's
do. SUBSCRIBE, UNSUBSCRIBE and PINGREQ are not told apart but for what they leave in the
map; `replying` is `Receive` held in the blocking send of the answer, reading nothing
meanwhile. Not modelled: the Dup flag and the `MessageID` kept in a stored packet.
Fairness: `Start` and `Send` are scheduled; neither the client nor the publishers must
do anything.

The module states that it implements `AtLeastOnce` (`AtLeastOnceSpec`): `outbound`
is what is kept, what was stored and is there no more is forgotten, `wrote` what this
session sent (of QoS 1 and 2), `acked` what was acknowledged, and a session is open
while it is served. The promise is about the order of steps of different goroutines: a
message is kept once, before it is sent and so before it is acknowledged
(`Transmit` and `Acknowledge` ask for a message that is kept, or was until a clean
session opened or closed the store), nothing is given up while the session is
served, and a replay does not send again what the queue sends. A broker that sends
without storing does not implement it: that is the mutant of this run.

## 5. Listener

`loop[l]` is the accepting goroutine of listener `l`, `at[k]` the goroutine that has
connection `k`. `append(listener.connections, conn)` is two steps, since the slice is
read, and a longer one stored, without a lock; a tcp loop is alone in doing it, so only
`StopListener` can read beside it (`Snapshot`, which may then read a torn slice header
and run past its end), while the handlers of a WebSocket listener overlap one another
and one record can be lost. `CloseSocket` is the closer goroutine (`server.go:70-74`),
at any time after `stop` is closed. `h.listeners` has no lock and `main.go` calls from
one goroutine, so one call of `AddListener`, `StopListener` or `Stop` is under way at a
time. All WebSocket listeners share the `http` package's `ServeMux`: a request
(`Request`), some time after its connection was accepted, goes to the listener that has
registered its path by then, whichever accepted it. An `Accept` may fail for any reason:
`http.Serve` then closes the socket and returns, a tcp loop returns and leaves it open.
Of a connection in `InitClient` only its ending is kept. Panics that the code allows end
the run (`Up`).

**Fairness.** Weak fairness on the closer, on a loop whose socket is closed, on
appends and on the call under way: all goroutines of the broker. No connection
has to come and no call has to be made.

## 6. PacketCodec and Wire

A byte is a number below 256. `Write` and `Unpack` are the methods of all
packet types; a read past the end of a body yields zeros, as the code's
ignored errors do. `Wire` is one end writing and the other running `ReadPacket`
in a loop. The connection may be lost at any moment, and then either all bytes
still under way come through or none; with the reader at any byte by then,
that covers a loss between any two bytes. It implements `PacketLink`: what is
read is what was written, in order, each once; after the loss, at most one
packet that nobody wrote comes out, empty, because `decodeLength` ignores the
error of its read and takes a zero (`packets.go:276`). Fairness: the reader is
scheduled.

`WellFormed` says of which packets `Write` and `Unpack` agree, and `Packet` is
assumed to hold only such: strings of less than 65,536 bytes (`encodeString` keeps
16 bits of the length), a remaining length of four digits (`decodeLength` keeps
32 bits), no content in a field whose flag is not set (`Write` leaves it out), no
identifier in a PUBLISH of QoS 0, as many QoS as topics in a SUBSCRIBE, and in an
UNSUBSCRIBE at least one topic and no empty one, which ends the list
(`unsubscribe.go:42-45`) and brings `Receive` down if it is the first
(`client.go:355`). Bytes that no such packet has (reserved types, a fifth length
digit) are not modelled.

## 7. The runs

| run | instance | distinct states | checked |
|---|---|---|---|
| `lifecycle_one` | 1 connection, all traffic, both flags each way | 5,902 | `TypeOK`, `WaitGroupCounts`, `CleanLeavesNothing`, liveness `StopCompletes` |
| `lifecycle_takeover` | 2 connections, one identifier, packets and timeouts | 1.7 M | `ClosedAfterDrain`, `SoleNeverPanics`, `StoreLostToSibling`, `WillAtMostOnce`, `ReuseNeedsLateStart`, `IInv`, `Entries` |
| `routing` | 2 clients, 3 subscriptions, 5 kinds of PUBLISH, 2 publications, 2 calls of `AddSub` | 1.7 M | `TypeOK`, `SearchAgrees`, `OverrunNeedsEndMark`, `ServedWasSubscribed`, `SteadyIsServed`, `RetainedNotMissed`, `Inv` |
| `delivery` | messages of QoS 0 and 2, an inbound packet, one identifier, queues of 1, 2 sessions | 2.1 M | `TypeOK`, `PanicNeedsStop` |
| `delivery_replay` | messages of QoS 1 and 2, one identifier, queues of 1, 2 sessions | 0.8 M | `NothingLost`, `WroteOnce`, `IdHeld`, `Inv`, refinement `AtLeastOnceSpec`, liveness `FewAreServed` |
| `listener` | 2 listeners of either scheme, 2 names, 2 paths, 2 connections | 1.3 M | `TypeOK`, `WaitGroupCounts`, `NoneAfterStop`, `StopDisconnects`, `Inv`, liveness `StopEnds` |
| `wire` | 2 packets out of 16 of every shape, lengths on both sides of 128 | 7,866 | `TypeOK`, `OddEnds`, `GarbledRefused`, `Inv`, refinement `LinkSpec`, liveness `Arrives`, `LossNoticed` |

What they show:

- The WaitGroup counts exactly the goroutines `Wait` must outlast. A `Stop` whose
  object nobody takes over completes, with one exception: a `Receive` that waits
  for room in `outboundPriority` after `Send` has returned.
- A client that shares neither object nor identifier never sends on a closed channel,
  closes one twice, uses a nil connection or loses its store, and its will goes out once
  at most. Two connections are enough: an object is handed from one session to the next,
  and every race is between an old and a new session (only a third could contend for
  `clients.Lock` during a takeover, and that the lock has one holder is proved for any
  number); a queue of one is full and empty within two packets. The instance leaves out
  what ends a session in another way than a timeout does (`Traffic`); `lifecycle_one`
  has it, and so do the proofs.
- A `WaitGroup` is reused too early (`WaitReused`) only where sessions share an object,
  or where a `Start` still adds its timer behind the `Stop` of its own session.
- The bitmap search finds what `match` finds, except `a/#` for the topic `a`. It leaves
  the bitmap only for a topic with the end mark in it. `SearchAgrees` tries every
  subscription and topic of up to three elements. The unlocked reads serve only who was
  subscribed, with a QoS it had, and everybody who stayed subscribed; no retained
  message is missed. Two publications give a retained message and one that replaces or
  clears it; two calls of `AddSub` give a client two overlapping subscriptions, or two
  clients one each.
- No stored message is lost while its store is open, none is sent twice in a
  session, identifiers stay with their messages (until a replayed PUBREL
  is answered, see below), and a delivery panics only when it overlaps the end
  of a session, or runs on an object that a late `Start` made CONNECTED after its
  `Stop`. There are more messages than identifiers and than queue places,
  so exhaustion and drops happen. Two sessions are enough for one to fill the store and
  be stopped anywhere and for the other to replay it, resume or take over. Every property
  of these runs but `FewAreServed` is proved for any number of sessions.

- `listenersWaitGroup` counts the accepting goroutines, so when `Stop` returns
  nothing accepts. It returns unless a listener still runs whose name was given
  away. `StopListener` disconnects every client it finds recorded but those of a
  WebSocket listener whose appends overlapped. Two listeners are enough for one
  to take another's name or path; two connections for two appends to overlap,
  and the proofs cover any number.
- Reader and writer agree where packets begin, for every packet shape, with lengths of
  one and of two digits. A loss ends the reader if no packet was of 128 bytes or more
  (`LossNoticed`); in the middle of a length of two digits it may notice nothing and
  read for ever (`OddEnds`). An empty packet that such a loss leaves behind is never an
  accepted CONNECT; that of a PUBLISH or an UNSUBSCRIBE panics. Two packets are enough
  to have one read while another follows; no state is carried from one packet to the
  next.

`CHECK_DEADLOCK FALSE` is in every configuration: connections and publications are bounded,
the process may panic, peers may fall silent, and `Start` may block for good.
Symmetry is used only in runs that check no liveness property.

The five `claim_*` runs end in a counterexample, each against a sentence of the
repository:

| run | the code | the sentence |
|---|---|---|
| `claim_disconnect` | `takeOver` is never reset, so `Stop` leaves a session that took its object over running | `client.go:268` |
| `claim_takeover` | a takeover waits, with `clients.Lock`, for the Once of a `Stop` that needs `clients.Lock`: nobody is admitted any more | `client.go:97` |
| `claim_acked` | a QoS 1 message stays stored after its PUBACK, because the PUBACK's UUID is looked up | `client.go:301-302` |
| `claim_reconnect` | with more stored packets than its channels hold, `Start` blocks before `Send` runs | `client.go:154-155` |
| `claim_listener` | two WebSocket connections whose appends overlap: one record is lost, and `StopListener` leaves that client connected (`server.go:88`) | `src/README.md:10` |

Other behaviour met on the way, which no sentence of the source contradicts, or
which a property states as its exception:

- `Receive` answers SUBSCRIBE, UNSUBSCRIBE and PINGREQ by a blocking send
  (`client.go:350`). If `Send` has returned and the queue is full it never
  returns, and neither does `Wait` (`Stuck` in `StopCompletes`).
- A durable CONNECT for a connected identifier makes a second `Client` beside the
  first (`server.go:202`); they share store and subscriptions, and the first to
  stop may take the store from the other (`StoreLostToSibling`).
- A late `Stop` of an old session can tear down the session that took over its
  object, since it reads `c.stopOnce` when it gets there (`client.go:100`).
- A clean session that takes over inherits subscriptions, queued messages and
  identifiers in use; those identifiers are not answered and stay taken.
- A PUBREL replayed from the store belongs to no exchange of the new session: the
  client's PUBCOMP frees an identifier that another message may hold, and then
  two unanswered messages share it (the `stray` exception of `IdHeld`).
- With every identifier in use `getMsgID` returns 0 and the message is written
  with it.
- `Replace` stores the PUBREL beside the PUBLISH, as its UUID is new
  (`memory_persistence.go:88-89`); `HandleFlow` drops it from the queue if that is full.
- A message stored after `Start` read the store and before CONNECTED is not sent
  in that session.
- UNSUBSCRIBE removes only `Topics[0]`; a will is never retained;
  a subscription of ten elements or more panics `AddSub`; a first packet that is
  not a CONNECT panics `InitClient`, and so does a connection that ends before its
  CONNECT (`server.go:170-171`), which ends the process on a tcp listener.
- A `Stop` that is over before `Start` reaches `client.go:182` leaves a client
  CONNECTED with closed channels. The next delivery to it, however much later, panics; if a
  clean session takes it over, so does its `Receive` (`client.go:350, 369-381`).
- An `Add` of a late `Start`, or of another session of the object, may meet a `Wait`
  that has been let go and has not returned, and Go panics (`WaitReused`).
- A topic with an element `"\u0000"` may drive the search past the bitmap, which panics
  (section 3).
- A `Stop` after a takeover logs the address of a nil connection (`client.go:90, 98`).
- `a/#` is not delivered a message published on `a`, though a new
  subscriber gets the retained one (`SearchAgrees` states the exception).
- Any failed `Accept` ends a tcp loop, while its listener stays registered
  (`server.go:109-113`). A second `AddListener` with a name in use makes the first
  listener unstoppable, and one with a path in use panics in `http.Handle`; a
  `Stop` or `StopListener` after a `Stop` closes a closed channel.

## 8. The proofs

**Lifecycle.** `LifecycleProofs` proves, for every set of connections and identifiers,
every queue capacity and every `Traffic`, that `Spec` implies always `IInv`
(`Invariance`), and from it `TypeCorrect`, `CountsCorrect`, `WillOnce`, `ClosesLast`,
`NoOwnPanic` and `ReuseIsLate`. The assumptions are those named in `Lifecycle`: finitely
many connections, `Nil` not one of them, a capacity of one at least, and flags and
traffic of the right type. The safety properties are not inductive; `IInv` is, and each
of its parts is there for a reason:

- `Order`: which goroutine can be where while another is where, as the spawns and
  returns of the code order them. Without it a goroutine could be spawned twice.
- `Owned`: connections point at objects that exist, and an object's session and
  channels, and whatever a goroutine of it has read, belong to the object. It
  makes what happens to other objects irrelevant to a sole one.
- `OneHolder`: `clients.Lock` is a lock, so two takeovers of an object never overlap.
- `WaitGroupCounts`: a count of zero means that no counted goroutine is left.
  Its lemmas `CountJoin` and `CountLeave` relate one step of the counter to the
  cardinality of the set of members.
- `OneBody`: one body runs per Once, and its Once is "running" meanwhile.
- `WillInBody`: a will counted once means the Once is done or its body is past
  the publication; with `OneBody` a second publication is impossible.
- `SoleTeardown`: for an object nobody took over, how far its teardown has got
  follows from what is closed; hence nothing is closed twice, and channels
  close after `Receive` and `Send` have returned.
- `SoleConnected`: a client nobody took over is CONNECTED from the end of its `Start`
  until its `Stop` has drained, so no other connection resumes its object meanwhile and
  adds to its WaitGroup; `ReuseNeedsLateStart` rests on it.
- `SoleNeverPanics` and `ReuseNeedsLateStart` themselves, because `panic` is state.

`LifecycleBasics` proves the first four, one lemma per part, by cases on the actions.
`LifecycleProofs` proves the rest from lemmas on what a step cannot do:
`DoneLasts` (a goroutine or a Once that is done stays so), `BindingKept`,
`SoleLasts`, `DrainStarts`, `ApartOrTeardown` (a step either is a teardown's or leaves
all that teardowns look at alone), `StepMoves` (who can move a `Start` or
change a `state`), `TeardownLasts`, `FaultKept`.

Its last part proves that what the list, the router and the store hold under an
identifier is `Entries` (`EntriesHold`), and with it `CleanLeavesNothing`
(`NothingLeft`) and `StoreLostToSibling` (`StoreIsOwn`). `Entries` is inductive only
together with `IInv`. Its parts: `Named`, an object in the list is of the identifier it
is listed under; `FlagKept`, an object that one session had still has that session's
clean flag when `Stop` reads it; `StoreOpen` and `Unmapped`, for a client whose
identifier no other connection has used (`Alone`): its store is open from its `Start`
until its `Receive` is done, and once a clean teardown has deleted the identifier and
then the subscriptions, they stay away. The argument rests on `AloneSole` (nobody else
of that identifier means that nobody took the object over, so `IInv` says how far its
teardown is) and on three lemmas that say who can make an entry at all: `EntryMade` in
the list, `StoreMade` in the store, `SubMade` in the router.

**Delivery.** `DeliveryProofs` proves, for all messages and their QoS, queue
capacities, identifiers and bounds, that `Spec` implies always `Inv`
(`Invariance`), and from it `TypeCorrect`, `NothingIsLost`, `WrittenOnce`, `IdsHeld`,
`PanicsNeedStop` and that `Delivery` implements `AtLeastOnce` (`Implements`). The
assumptions are those named in `Delivery`. The parts of `Inv`:

- `Phases`: what is connected, known, closed and running in each step of `Start`
  and `Stop`; the other parts speak of a phase and mean these.
- `Connecting`: an object that was not stopped before its `Start` was over is CONNECTED,
  or about to be, only while it is served or being taken over. Of the others,
  `stale`, nothing of the kind holds, and `PanicNeedsStop` names them.
- `Beside`: a delivery that no `Stop` ran beside finds its client and its channels
  as it last saw them, if it saw the client CONNECTED and that was true of an object that is
  not `stale`. This is what makes a panic impossible without a `Stop`.
- `NotYet`, `OnePlace`: a message is nowhere before its delivery stores it, and
  then in one of replay, queue and written. Sent-once is not inductive without them:
  a message seen by the replay could be queued too.
- `Stored`: what is stored and answered is of QoS 1 or 2, so the refinement may leave the
  others out.
- `Kept`: what was stored stays, in the promised cases, between the store's
  opening and closing; `NothingLost` follows.
- `OneExchange`: a message has one exchange with the client at most, so its
  answer frees an identifier of its own; `IdHeld` rests on it.

The refinement uses `Inv` where the abstract step has a guard: `Keep` needs a
message that was never stored (`NotYet`), `Transmit` one that was, unsent in this
session (`NotYet`, `OnePlace`), `Acknowledge` one that was stored and sent
(`OneExchange`, `Stored`). Every other action maps to one abstract step or a stutter.

**Listener.** `ListenerProofs` proves `Inv` for any finite set of listeners and
any names, paths and connections (`Invariance`), and from it `TypeCorrect`,
`CountIsRight`, `StopStopsAll` and `StopIsThorough`. `Known` says that whatever
names or serves a listener has one that was added; `OneAtATime` that a tcp
loop waits for its append; with it `OnlyWs` that only WebSocket appends overlap.
`Lasting` is the argument about the lock-free slice: a record made
alone is in the slice and in every longer copy an append is about to store,
since whoever read the slice before it was there would have overlapped it.
`Owing` follows a client from the call of `StopListener` to its close. The
cardinality of the running goroutines (`RunnersCount`) ties the WaitGroup to them.

**Routing.** `TopicMatchProofs` first gives `match` and the search a form without
recursion. `MatchIs`: `match` is true when the elements take one another up to a `#` or
to both ends; `WalkIs`: after each level the search holds `Going` and `Caught`. The
functions in the model are defined by recursion, that is by CHOOSE, so each closed form
is shown to be a solution of the equation and the only one; the induction in that is a
fact about a set of numbers (`Climb`, `Descend`, from `LeastNumber`), because the
library's induction theorems take an operator. With the closed forms, `SearchSound`,
`SearchComplete` and `OverrunIs` (what an overrun says of the topic and the
subscriptions) are proved for all subscriptions and topics, and `SearchIsMatch` says it
in one line: the search finds what `match` accepts, but for `ParentOf`.

`RoutingProofs` proves `Inv` for all clients, messages, subscriptions and numbers of
calls (`Invariance`), and from it `TypeCorrect`, `SearchIsRight`, `OverrunIsMarked`,
`ServedRightly`, `SteadyServed` and `NoneMissed`. The assumptions are those named in
`Routing`, and none is about what strings topics and subscriptions consist of. Parts of
`Inv`:

- `Called`, `Listed`, `Witnessed`, `Published`: where goroutines, lists, histories
  and retained messages come from.
- `Searched`: a delivery reads only subscriptions that match its topic, or have an end
  mark in them.
  `ServedWasSubscribed` is inductive with it, `Listed` and `Witnessed`.
- `Reading`: a subscription that was there all the time is still to be read or
  its client is in the list, with a QoS that is high enough. `SteadyIsServed`
  is what is left of it when nothing is to be read.
- `Owed`: whoever subscribes to a topic with a retained message has it, or there is
  a goroutine that will give it. `RetainedNotMissed` is what is left when no
  goroutine is under way. It needs `SetRetained` to come before the search
  of the same publication, and `FindRetained` after the subscription is recorded.

**Packets and the wire.** `CodecProofs` proves `WrittenIsRead`: for every
`WellFormed` packet of every type, with fields of any length, `Unpack` of the
body that `Write` wrote is the packet, the first byte gives the fixed header
back, and the digits end where `decodeLength` stops and are the length of the
body. Writer and reader are recursive in five places (`encodeLength`,
`decodeLength`, the two lists of topics, `FlattenSeq`), and what TLA+ says of such
a function is the equation it is CHOSEn by. Two lemmas replace the induction:
`Recursion`, that such an equation has a solution when some rank gets smaller at
each step, proved from the least number at which two partial solutions could
differ; and `Reached`, that what is carried from each item to the next holds of
all of them. With them `BodyAgrees` is one lemma per layout: `ConnectAgrees` follows
the optional fields, `PublishAgrees` the identifier that depends on the QoS,
`SubscribeAgrees` and `UnsubscribeAgrees` the place of each topic (`Sits`, `ListSits`).

`WireProofs` proves `Inv` for every set of well-formed packets and every number of
them (`Invariance`), and from it `TypeCorrect`, `EndsOddly`, `NoneAccepted` and that
`Wire` implements `PacketLink` (`Implements`). The assumptions are those of `Wire`:
packets are `WellFormed`, `MaxSent` is a number. Parts of `Inv`:

- `Flow`: what is on its way is the bytes of all packets from the one the reader
  is at on, or nothing comes any more. `Position` and `OneMore` say where a packet
  begins among the bytes.
- `Within`: the header and the digits are those of the first packet not yet
  returned, so the reader has as many digits as they say, or a loss gave it
  an empty length. `OddEnds` needs it, since it speaks of the packet that a reader is in.
- `Faithful`: what was returned is what was written, but for a last packet that the
  loss emptied. `GarbledRefused` follows, for an empty CONNECT has no protocol name
  (`EmptyRefused`); so does the refinement, where `WhatIsRead` says that a
  body is read whole or not at all.

Model-checked only: the liveness properties `StopCompletes`, `FewAreServed`,
`StopEnds`, `Arrives` and `LossNoticed`: liveness under fairness is out of the
prover's reach. The claims of the repository that the code does not keep are
violations and have no theorem.

## 9. Plan

Done: `Lifecycle`, `Delivery`, `Listener`, `Routing` and `Wire`, each with its
invariant and proofs, `TopicMatch` and `PacketCodec` with theirs, the
abstractions `AtLeastOnce` and `PacketLink` with proofs that they are implemented.
Every invariant that a passing run checks is a theorem. Left:

1. A registry of sessions that `Lifecycle` implements for clients that share
   nothing.
2. Action properties of `Routing` and `Delivery`: what a step may never do to a
   retained message or to an exchange under way.

Not modelled: configuration, statistics and plugins (above); the goroutine that
announces a generated identifier; `AddBatch`, which nothing calls; `String`,
`Details` and `Copy` of the packets; data races on plain fields of `Client`.
