----------------------------- MODULE Lifecycle -----------------------------
(***************************************************************************)
(* The life of a client connection: InitClient (server.go) admits it,      *)
(* Start (client.go) spawns the Receive, Send and KeepAliveTimer           *)
(* goroutines, and Stop or StopForTakeover tears them down.                *)
(*                                                                         *)
(* A connection k stands for everything InitClient(conn) makes: its        *)
(* goroutines <<k, role>>, and, when it gets them, a fresh Client object,  *)
(* a fresh stop channel and sync.Once (its session) and a fresh pair of    *)
(* outbound channels (a generation); all of these are named k.  An object  *)
(* that a later connection takes over keeps its name and its fields then   *)
(* hold the later connection's session.                                    *)
(*                                                                         *)
(* A step is what a goroutine does between two accesses to shared state    *)
(* that another goroutine can observe.                                     *)
(***************************************************************************)
EXTENDS Integers, FiniteSets

CONSTANTS
  Conn,      \* the network connections ever accepted
  ClientId,  \* the client identifiers CONNECT packets carry
  Nil,       \* no client object: an absent key of clients.list
  QDepth,    \* maxQueueDepth, the capacity of outboundPriority
  Clean,     \* the values of the CONNECT's CleanSession flag
  Timed,     \* the values of "the CONNECT has a keepalive"
  Traffic    \* what peers and the clock do, a subset of AllTraffic

AllTraffic == {"connect", "bad", "reject", "error", "disconnect", "flow",
               "request", "quiet", "expire", "full"}

ASSUME ConnAssumption == IsFiniteSet(Conn) /\ Nil \notin Conn
ASSUME QDepthAssumption == QDepth \in Nat \ {0}
ASSUME FlagAssumption == Clean \subseteq BOOLEAN /\ Timed \subseteq BOOLEAN
ASSUME TrafficAssumption == Traffic \subseteq AllTraffic

VARIABLES
  \* the broker
  cp,         \* the CONNECT each connection's peer will send
  clients,    \* clients.list: the object a client identifier maps to
  store,      \* the client identifiers PersistStore has an entry for
  subs,       \* the client identifiers with a subscription
  \* the fields of each Client object
  state, takeOver,
  clean,      \* cleanSession
  timed,      \* keepAlive > 0
  cur,        \* the session that stop, stopOnce and conn belong to
  chan,       \* the generation of the outbound channels
  wg,         \* the WaitGroup's counter
  \* sessions and generations
  stopped,    \* the sessions whose stop channel and net.Conn are closed
  once,       \* the state of each session's stopOnce
  prio,       \* packets queued in each generation's outboundPriority
  chanClosed, \* the generations whose channels are closed
  \* goroutines
  client,     \* the object connection k runs on (k itself unless it took one)
  pc,         \* where each goroutine is
  on,         \* the session (or generation) a goroutine read from its object
  sendChan,   \* the generation Send waits on
  \* what the properties look at
  bye,        \* the Receive goroutines that read a DISCONNECT
  wills,      \* how often each session's teardown published the will
  panic,      \* the panic that brought the process down, if any,
  victim      \* and the object whose goroutine it was in

registry == <<cp, clients, store, subs>>
flags == <<state, takeOver, clean, timed>>
binding == <<client, cur, chan>>
session == <<stopped, once>>
queues == <<prio, chanClosed, sendChan>>
seen == <<bye, wills>>
fault == <<panic, victim>>
vars == <<registry, flags, binding, wg, session, queues, pc, on, seen, fault>>

-----------------------------------------------------------------------------
Role == {"init", "start", "recv", "send", "timer", "recvStop", "timerStop"}
StopRole == {"recvStop", "timerStop"}
Goroutine == Conn \X Role
Stopper == Conn \X StopRole

\* Where a goroutine is: "none" before it starts, then along its role's line.
Label == {"none", "done"}
  \cup {"lock", "takeover", "drain", "install", "reinstall", "serve", "wait"}
  \cup {"open", "replay", "blocked", "connack", "spawn", "state",
        "timer"}                                                    \* start
  \cup {"check", "read", "reply"}                                   \* recv
  \cup {"enter", "select"}                                  \* send, timer
  \cup {"entry", "once", "close", "drain", "channels", "unmap", "unsubscribe",
      "release"}                                          \* recvStop, timerStop

Panics == {"none", "notConnect", "nilConn", "closeClosed", "sendClosed",
           "nilStore", "wgReused"}

\* A panic in any goroutine ends the process: every step needs Up.
Up == panic = "none"
At(k, role, label) == Up /\ pc[<<k, role>>] = label

Id(o) == cp[o].id

\* clients.Lock is held across StopForTakeover and the assignments after it.
Holds(k) == pc[<<k, "init">>] \in {"takeover", "drain", "install", "reinstall"}
Locked == \E k \in Conn : Holds(k)

\* StopForTakeover has set conn to nil and InitClient has not replaced it yet.
ConnNil(o) == \E k \in Conn : client[k] = o /\ pc[<<k, "init">>] = "install"

\* A goroutine that Add counted and that has not called Done yet.
Counted(g) == \/ g[2] = "init" /\ pc[g] \in {"serve", "wait"}
              \/ /\ g[2] \in {"recv", "send", "timer"}
                 /\ pc[g] \notin {"none", "done"}

Members(o) == {g \in Goroutine : client[g[1]] = o /\ Counted(g)}

\* Connection o has its own object, and no later one runs, or ever ran, on it.
Sole(o) == \A k \in Conn : client[k] = o <=> k = o

Goto(k, role, label) == pc' = [pc EXCEPT ![<<k, role>>] = label]
Done(o) == wg' = [wg EXCEPT ![o] = @ - 1]

Crash(why, o) ==
  /\ panic' = why
  /\ victim' = o
  /\ UNCHANGED <<registry, flags, binding, wg, session, queues, pc, on, seen>>

-----------------------------------------------------------------------------
Init ==
  /\ cp \in [Conn -> [id : ClientId, clean : Clean, timed : Timed]]
  /\ clients = [id \in ClientId |-> Nil]
  /\ store = {} /\ subs = {}
  /\ state = [o \in Conn |-> "DISCONNECTED"]
  /\ takeOver = [o \in Conn |-> FALSE]
  /\ clean = [o \in Conn |-> FALSE]
  /\ timed = [o \in Conn |-> FALSE]
  /\ cur = [o \in Conn |-> o]
  /\ chan = [o \in Conn |-> o]
  /\ wg = [o \in Conn |-> 0]
  /\ client = [k \in Conn |-> k]
  /\ stopped = {}
  /\ once = [s \in Conn |-> "fresh"]
  /\ prio = [c \in Conn |-> 0]
  /\ chanClosed = {}
  /\ pc = [g \in Goroutine |-> "none"]
  /\ on = [g \in Goroutine |-> g[1]]
  /\ sendChan = [k \in Conn |-> k]
  /\ bye = {}
  /\ wills = [s \in Conn |-> 0]
  /\ panic = "none" /\ victim = Nil

-----------------------------------------------------------------------------
(* InitClient.                                                             *)

\* A valid CONNECT arrives and InitClient waits for clients.Lock.
Connect(k) ==
  /\ "connect" \in Traffic /\ At(k, "init", "none")
  /\ Goto(k, "init", "lock")
  /\ UNCHANGED <<registry, flags, binding, wg, session, queues, on, seen,
                 fault>>

\* Validate refuses the CONNECT: a CONNACK, perhaps, and the connection closed.
Reject(k) ==
  /\ "reject" \in Traffic /\ At(k, "init", "none")
  /\ Goto(k, "init", "done")
  /\ UNCHANGED <<registry, flags, binding, wg, session, queues, on, seen,
                 fault>>

\* ReadPacket fails, or returns another packet: the type assertion panics.
BadConnect(k) ==
  /\ "bad" \in Traffic /\ At(k, "init", "none")
  /\ Crash("notConnect", k)

\* A CleanSession CONNECT for a known identifier reuses the object.
Known(k) == clients[Id(k)] # Nil /\ cp[k].clean

\* ... of a connected client: StopForTakeover begins, the lock is kept.
InitTakeover(k) ==
  /\ At(k, "init", "lock") /\ ~Locked /\ Known(k)
  /\ LET o == clients[Id(k)] IN
     /\ state[o] = "CONNECTED"
     /\ client' = [client EXCEPT ![k] = o]
     /\ takeOver' = [takeOver EXCEPT ![o] = TRUE]
  /\ Goto(k, "init", "takeover")
  /\ UNCHANGED <<registry, state, clean, timed, cur, chan, wg, session, queues,
                 on, seen, fault>>

\* Mutant of Idle: the state is not looked at, and nobody is taken over.
MutIdle(o) == TRUE
Idle(o) == state[o] # "CONNECTED"

\* ... of one that is not connected: new channels and a new session.
Resumes(k) ==
  At(k, "init", "lock") /\ ~Locked /\ Known(k) /\ Idle(clients[Id(k)])
InitResume(k) ==
  /\ Resumes(k)
  /\ LET o == clients[Id(k)] IN
     /\ client' = [client EXCEPT ![k] = o]
     /\ cur' = [cur EXCEPT ![o] = k]
     /\ chan' = [chan EXCEPT ![o] = k]
     /\ wg' = [wg EXCEPT ![o] = @ + 1]
  /\ pc' = [pc EXCEPT ![<<k, "init">>] = "serve", ![<<k, "start">>] = "open"]
  /\ UNCHANGED <<registry, flags, session, queues, on, seen, fault>>

\* Otherwise a new object replaces what the identifier mapped to.
InitNew(k) ==
  /\ At(k, "init", "lock") /\ ~Locked /\ ~Known(k)
  /\ clients' = [clients EXCEPT ![Id(k)] = k]
  /\ wg' = [wg EXCEPT ![k] = @ + 1]
  /\ pc' = [pc EXCEPT ![<<k, "init">>] = "serve", ![<<k, "start">>] = "open"]
  /\ UNCHANGED <<cp, store, subs, flags, binding, session, queues, on, seen,
                 fault>>

\* StopForTakeover's Once: its body closes the stop channel and the
\* connection, unless Stop ran (then it returns) or runs (then it waits).
TakeoverOnce(k) ==
  LET s == cur[client[k]] IN
  /\ At(k, "init", "takeover")
  /\ \/ /\ once[s] = "fresh" /\ s \notin stopped
        /\ once' = [once EXCEPT ![s] = "running"]
        /\ stopped' = stopped \cup {s}
        /\ Goto(k, "init", "drain")
        /\ UNCHANGED <<registry, flags, binding, wg, queues, on, seen, fault>>
     \/ /\ once[s] = "fresh" /\ s \in stopped
        /\ Crash("closeClosed", client[k])
     \/ /\ once[s] = "done"
        /\ Goto(k, "init", "reinstall")
        /\ UNCHANGED <<registry, flags, binding, wg, session, queues, on, seen,
                       fault>>

\* Wait returns, conn becomes nil and the Once is done.
TakeoverDrain(k) ==
  /\ At(k, "init", "drain") /\ wg[client[k]] = 0
  /\ once' = [once EXCEPT ![cur[client[k]]] = "done"]
  /\ Goto(k, "init", "install")
  /\ UNCHANGED <<registry, flags, binding, wg, stopped, queues, on, seen,
                 fault>>

\* Add(1), the new stopOnce, conn and stop, go Start, and Unlock.
TakeoverInstall(k) ==
  /\ \/ At(k, "init", "install")
     \/ At(k, "init", "reinstall")
  /\ cur' = [cur EXCEPT ![client[k]] = k]
  /\ wg' = [wg EXCEPT ![client[k]] = @ + 1]
  /\ pc' = [pc EXCEPT ![<<k, "init">>] = "serve", ![<<k, "start">>] = "open"]
  /\ UNCHANGED <<registry, flags, client, chan, session, queues, on, seen,
                 fault>>

\* InitClient reads c.stop and waits for it.
ServeWait(k) ==
  /\ At(k, "init", "serve")
  /\ on' = [on EXCEPT ![<<k, "init">>] = cur[client[k]]]
  /\ Goto(k, "init", "wait")
  /\ UNCHANGED <<registry, flags, binding, wg, session, queues, seen, fault>>

ServeDone(k) ==
  /\ At(k, "init", "wait") /\ on[<<k, "init">>] \in stopped
  /\ Done(client[k])
  /\ Goto(k, "init", "done")
  /\ UNCHANGED <<registry, flags, binding, session, queues, on, seen, fault>>

-----------------------------------------------------------------------------
(* Start.                                                                  *)

\* The session's flags, then Open for a clean session or a new identifier.
StartOpen(k) ==
  LET o == client[k] IN
  /\ At(k, "start", "open")
  /\ clean' = [clean EXCEPT ![o] = cp[k].clean]
  /\ timed' = [timed EXCEPT ![o] = cp[k].timed]
  /\ IF cp[k].clean \/ Id(o) \notin store
       THEN store' = store \cup {Id(o)} /\ Goto(k, "start", "connack")
       ELSE store' = store /\ Goto(k, "start", "replay")
  /\ UNCHANGED <<cp, clients, subs, state, takeOver, binding, wg, session,
                 queues, on, seen, fault>>

\* The stored packets go into the outbound channels, which nobody drains yet:
\* with more packets than the channel's capacity Start blocks.  Another session
\* of the object or the identifier may have closed the store or the channels.
StartReplay(k) ==
  LET o == client[k] IN
  /\ At(k, "start", "replay")
  /\ \/ Id(o) \notin store /\ Crash("nilStore", o)
     \/ chan[o] \in chanClosed /\ Crash("sendClosed", o)
     \/ /\ Id(o) \in store
        /\ \/ Goto(k, "start", "connack") /\ on' = on
           \/ /\ "full" \in Traffic /\ chan[o] \notin chanClosed
              /\ Goto(k, "start", "blocked")
              /\ on' = [on EXCEPT ![<<k, "start">>] = chan[o]]
        /\ UNCHANGED <<registry, flags, binding, wg, session, queues, seen,
                       fault>>

\* Only the Send of another session that has the same channels makes room; the
\* Stop of one may close them instead.
StartBlocked(k) ==
  LET c == on[<<k, "start">>] IN
  /\ At(k, "start", "blocked")
  /\ IF c \in chanClosed THEN Crash("sendClosed", client[k])
     ELSE /\ \E j \in Conn : pc[<<j, "send">>] = "select" /\ sendChan[j] = c
          /\ Goto(k, "start", "connack")
          /\ UNCHANGED <<registry, flags, binding, wg, session, queues, on,
                         seen, fault>>

\* The CONNACK is written to c.conn.
StartConnack(k) ==
  /\ At(k, "start", "connack")
  /\ IF ConnNil(client[k]) THEN Crash("nilConn", client[k])
     ELSE /\ Goto(k, "start", "spawn")
          /\ UNCHANGED <<registry, flags, binding, wg, session, queues, on,
                         seen, fault>>

\* Mutant of StartSpawn: Send is not added to the WaitGroup.
MutStartSpawn(k) ==
  /\ At(k, "start", "spawn")
  /\ wg' = [wg EXCEPT ![client[k]] = @ + 1]
  /\ pc' = [pc EXCEPT ![<<k, "start">>] = "state", ![<<k, "recv">>] = "check",
                      ![<<k, "send">>] = "enter"]
  /\ UNCHANGED <<registry, flags, binding, session, queues, on, seen, fault>>

\* Add(2), go Receive and go Send.
StartSpawn(k) ==
  /\ At(k, "start", "spawn")
  /\ wg' = [wg EXCEPT ![client[k]] = @ + 2]
  /\ pc' = [pc EXCEPT ![<<k, "start">>] = "state", ![<<k, "recv">>] = "check",
                      ![<<k, "send">>] = "enter"]
  /\ UNCHANGED <<registry, flags, binding, session, queues, on, seen, fault>>

\* Mutant of StartTimer: the timer is not added to the WaitGroup.
MutStartTimer(k) ==
  /\ At(k, "start", "timer")
  /\ pc' = [pc EXCEPT ![<<k, "start">>] = "done",
                      ![<<k, "timer">>] =
                        IF timed[client[k]] THEN "enter" ELSE "none"]
  /\ UNCHANGED <<registry, flags, binding, wg, session, queues, on, seen,
                 fault>>

\* Only now, with Receive and Send running, does the client become CONNECTED.
StartConnected(k) ==
  /\ At(k, "start", "state")
  /\ state' = [state EXCEPT ![client[k]] = "CONNECTED"]
  /\ Goto(k, "start", "timer")
  /\ UNCHANGED <<registry, takeOver, clean, timed, binding, wg, session,
                 queues, on, seen, fault>>

StartTimer(k) ==
  LET o == client[k] IN
  /\ At(k, "start", "timer")
  /\ IF timed[o]
       THEN /\ wg' = [wg EXCEPT ![o] = @ + 1]
            /\ pc' = [pc EXCEPT ![<<k, "start">>] = "done",
                                ![<<k, "timer">>] = "enter"]
       ELSE UNCHANGED wg /\ Goto(k, "start", "done")
  /\ UNCHANGED <<registry, flags, binding, session, queues, on, seen, fault>>

\* The Adds: server.go's for InitClient, then Start's.
AddsTo(k, o) ==
  \/ Resumes(k) /\ o = clients[Id(k)]
  \/ (At(k, "init", "install") \/ At(k, "init", "reinstall")) /\ o = client[k]
  \/ At(k, "start", "spawn") /\ o = client[k]
  \/ At(k, "start", "timer") /\ timed[client[k]] /\ o = client[k]

\* The Waits of StopForTakeover and Stop, under way or about to begin.
Waited(o) == \E k \in Conn : \E r \in {"init"} \cup StopRole :
               client[k] = o /\ pc[<<k, r>>] = "drain"

\* The last Done has let a Wait go, and before it returns an Add makes the
\* counter positive again: Go's WaitGroup panics in that Wait.
WaitReused(k, o) ==
  /\ AddsTo(k, o) /\ wg[o] = 0 /\ Waited(o)
  /\ Crash("wgReused", o)

-----------------------------------------------------------------------------
(* Receive and HandleFlow.                                                 *)

\* The top of the loop: return if stopped, else read from c.conn.
RecvCheck(k) ==
  LET o == client[k] IN
  /\ At(k, "recv", "check")
  /\ IF cur[o] \in stopped
       THEN Done(o) /\ Goto(k, "recv", "done") /\ on' = on
       ELSE /\ on' = [on EXCEPT ![<<k, "recv">>] = cur[o]]
            /\ Goto(k, "recv", "read")
            /\ wg' = wg
  /\ UNCHANGED <<registry, flags, binding, session, queues, seen, fault>>

\* ReadPacket fails, or returns a second CONNECT: go Stop(true) and return.
RecvFail(k) ==
  /\ At(k, "recv", "read")
  /\ "error" \in Traffic \/ on[<<k, "recv">>] \in stopped
  /\ pc' = [pc EXCEPT ![<<k, "recv">>] = "done",
                      ![<<k, "recvStop">>] = "entry"]
  /\ Done(client[k])
  /\ UNCHANGED <<registry, flags, binding, session, queues, on, seen, fault>>

\* ReadPacket returns a packet; one it read before Stop closed the connection
\* may still be handled after.
Arrives(k, kind) == kind \in Traffic /\ At(k, "recv", "read")

\* DISCONNECT: go Stop(false) and return.
RecvDisconnect(k) ==
  /\ Arrives(k, "disconnect")
  /\ bye' = bye \cup {k}
  /\ pc' = [pc EXCEPT ![<<k, "recv">>] = "done",
                      ![<<k, "recvStop">>] = "entry"]
  /\ Done(client[k])
  /\ UNCHANGED <<registry, flags, binding, session, queues, on, wills, fault>>

\* A packet that reaches the persistence store and HandleFlow: PUBLISH with
\* QoS 1 or 2, PUBREL, PUBREC for an id in use.  The answer is dropped when
\* the queue is full; a closed queue panics all the same.
RecvFlow(k) ==
  LET o == client[k]
      c == chan[o] IN
  /\ Arrives(k, "flow")
  /\ IF Id(o) \notin store THEN Crash("nilStore", o)
     ELSE IF c \in chanClosed THEN Crash("sendClosed", o)
     ELSE /\ prio' = [prio EXCEPT ![c] = IF @ < QDepth THEN @ + 1 ELSE @]
          /\ Goto(k, "recv", "check")
          /\ UNCHANGED <<registry, flags, binding, wg, session, chanClosed,
                         sendChan, on, seen, fault>>

\* SUBSCRIBE, UNSUBSCRIBE or PINGREQ: the subscriptions may change, then the
\* answer goes to the outboundPriority of the moment.
RecvRequest(k) ==
  LET o == client[k] IN
  /\ Arrives(k, "request")
  /\ subs' \in {subs, subs \cup {Id(o)}, subs \ {Id(o)}}
  /\ on' = [on EXCEPT ![<<k, "recv">>] = chan[o]]
  /\ Goto(k, "recv", "reply")
  /\ UNCHANGED <<cp, clients, store, flags, binding, wg, session, queues, seen,
                 fault>>

\* Mutant of RecvReply: the answer is queued whether or not there is room.
MutRecvReply(k) ==
  LET c == on[<<k, "recv">>] IN
  /\ At(k, "recv", "reply") /\ c \notin chanClosed
  /\ prio' = [prio EXCEPT ![c] = @ + 1]
  /\ Goto(k, "recv", "check")
  /\ UNCHANGED <<registry, flags, binding, wg, session, chanClosed, sendChan,
                 on, seen, fault>>

\* ... by a blocking send: it waits for room and does not look at c.stop.
RecvReply(k) ==
  LET c == on[<<k, "recv">>] IN
  /\ At(k, "recv", "reply")
  /\ IF c \in chanClosed THEN Crash("sendClosed", client[k])
     ELSE /\ prio[c] < QDepth
          /\ prio' = [prio EXCEPT ![c] = @ + 1]
          /\ Goto(k, "recv", "check")
          /\ UNCHANGED <<registry, flags, binding, wg, session, chanClosed,
                         sendChan, on, seen, fault>>

\* A packet that touches none of this state: QoS 0 PUBLISH, a stray ack.
RecvQuiet(k) ==
  /\ Arrives(k, "quiet")
  /\ Goto(k, "recv", "check")
  /\ UNCHANGED <<registry, flags, binding, wg, session, queues, on, seen,
                 fault>>

-----------------------------------------------------------------------------
(* Send.                                                                   *)

\* The select evaluates c.stop and the channels.
SendEnter(k) ==
  /\ At(k, "send", "enter")
  /\ on' = [on EXCEPT ![<<k, "send">>] = cur[client[k]]]
  /\ sendChan' = [sendChan EXCEPT ![k] = chan[client[k]]]
  /\ Goto(k, "send", "select")
  /\ UNCHANGED <<registry, flags, binding, wg, session, prio, chanClosed, seen,
                 fault>>

SendStop(k) ==
  /\ At(k, "send", "select") /\ on[<<k, "send">>] \in stopped
  /\ Done(client[k])
  /\ Goto(k, "send", "done")
  /\ UNCHANGED <<registry, flags, binding, session, queues, on, seen, fault>>

\* A packet is received and written (errors are ignored); a closed channel
\* yields nothing and the loop goes round.
SendPacket(k) ==
  LET c == sendChan[k] IN
  /\ At(k, "send", "select")
  /\ prio[c] > 0 \/ c \in chanClosed
  /\ prio' = [prio EXCEPT ![c] = IF @ > 0 THEN @ - 1 ELSE @]
  /\ Goto(k, "send", "enter")
  /\ UNCHANGED <<registry, flags, binding, wg, session, chanClosed, sendChan,
                 on, seen, fault>>

-----------------------------------------------------------------------------
(* KeepAliveTimer.                                                         *)

TimerEnter(k) ==
  /\ At(k, "timer", "enter")
  /\ on' = [on EXCEPT ![<<k, "timer">>] = cur[client[k]]]
  /\ Goto(k, "timer", "select")
  /\ UNCHANGED <<registry, flags, binding, wg, session, queues, seen, fault>>

\* Receive has put a token into resetTimer: the loop goes round.
TimerReset(k) ==
  /\ Traffic \cap {"flow", "request", "quiet"} # {}
  /\ At(k, "timer", "select")
  /\ Goto(k, "timer", "enter")
  /\ UNCHANGED <<registry, flags, binding, wg, session, queues, on, seen,
                 fault>>

\* Mutant of TimerStop: the return without its deferred Done.
MutTimerStop(k) ==
  /\ At(k, "timer", "select") /\ on[<<k, "timer">>] \in stopped
  /\ Goto(k, "timer", "done")
  /\ UNCHANGED <<registry, flags, binding, wg, session, queues, on, seen,
                 fault>>

\* 1.5 times the keepalive has passed: go Stop(true) and return.
TimerExpire(k) ==
  /\ "expire" \in Traffic /\ At(k, "timer", "select")
  /\ pc' = [pc EXCEPT ![<<k, "timer">>] = "done",
                      ![<<k, "timerStop">>] = "entry"]
  /\ Done(client[k])
  /\ UNCHANGED <<registry, flags, binding, session, queues, on, seen, fault>>

TimerStop(k) ==
  /\ At(k, "timer", "select") /\ on[<<k, "timer">>] \in stopped
  /\ Done(client[k])
  /\ Goto(k, "timer", "done")
  /\ UNCHANGED <<registry, flags, binding, session, queues, on, seen, fault>>

-----------------------------------------------------------------------------
(* Stop, run by the goroutine w of connection k.                           *)

\* The log line dereferences conn; a client being taken over is left alone.
StopEntry(k, w) ==
  LET o == client[k] IN
  /\ At(k, w, "entry")
  /\ IF ConnNil(o) THEN Crash("nilConn", o)
     ELSE /\ Goto(k, w, IF takeOver[o] THEN "done" ELSE "once")
          /\ UNCHANGED <<registry, flags, binding, wg, session, queues, on,
                         seen, fault>>

\* Mutant of StopOnce: a flag that is only set when the body is over.
MutStopOnce(k, w) ==
  LET s == cur[client[k]] IN
  /\ At(k, w, "once") /\ once[s] # "done"
  /\ once' = [once EXCEPT ![s] = "running"]
  /\ on' = [on EXCEPT ![<<k, w>>] = s]
  /\ Goto(k, w, IF s \in stopped THEN "drain" ELSE "close")
  /\ UNCHANGED <<registry, flags, binding, wg, stopped, queues, seen, fault>>

\* The Once of the object's present session: run the body, or return if it
\* has run (and wait while it runs).
StopOnce(k, w) ==
  LET s == cur[client[k]] IN
  /\ At(k, w, "once")
  /\ \/ /\ once[s] = "fresh"
        /\ once' = [once EXCEPT ![s] = "running"]
        /\ on' = [on EXCEPT ![<<k, w>>] = s]
        /\ Goto(k, w, "close")
     \/ /\ once[s] = "done"
        /\ Goto(k, w, "done")
        /\ UNCHANGED <<once, on>>
  /\ UNCHANGED <<registry, flags, binding, wg, stopped, queues, seen, fault>>

\* close(c.stop) and c.conn.Close().
StopClose(k, w) ==
  LET s == cur[client[k]] IN
  /\ At(k, w, "close")
  /\ IF s \in stopped THEN Crash("closeClosed", client[k])
     ELSE /\ stopped' = stopped \cup {s}
          /\ Goto(k, w, "drain")
          /\ UNCHANGED <<registry, flags, binding, wg, once, queues, on, seen,
                         fault>>

\* Mutant of StopDrain: Stop does not wait for the goroutines.
MutStopDrain(k, w) ==
  /\ At(k, w, "drain")
  /\ state' = [state EXCEPT ![client[k]] = "DISCONNECTED"]
  /\ Goto(k, w, "channels")
  /\ UNCHANGED <<registry, takeOver, clean, timed, binding, wg, session,
                 queues, on, seen, fault>>

\* Wait returns and the client becomes DISCONNECTED.
StopDrain(k, w) ==
  LET o == client[k] IN
  /\ At(k, w, "drain") /\ wg[o] = 0
  /\ state' = [state EXCEPT ![o] = "DISCONNECTED"]
  /\ Goto(k, w, "channels")
  /\ UNCHANGED <<registry, takeOver, clean, timed, binding, wg, session,
                 queues, on, seen, fault>>

SendWill(k, w) == w = "timerStop" \/ k \notin bye

\* Both channels are closed (no goroutine sends on both, so none can tell that
\* one is closed first) and the will, if it is to be sent, is published; unless
\* the session is clean the body ends here.
StopChannels(k, w) ==
  LET o == client[k]
      s == on[<<k, w>>] IN
  /\ At(k, w, "channels")
  /\ IF chan[o] \in chanClosed THEN Crash("closeClosed", o)
     ELSE /\ chanClosed' = chanClosed \cup {chan[o]}
          /\ wills' = [wills EXCEPT ![s] = IF SendWill(k, w) THEN @ + 1 ELSE @]
          /\ IF clean[o]
               THEN Goto(k, w, "unmap") /\ once' = once
               ELSE Goto(k, w, "done") /\ once' = [once EXCEPT ![s] = "done"]
          /\ UNCHANGED <<registry, flags, binding, wg, stopped, prio, sendChan,
                         on, bye, fault>>

\* Under clients.Lock, the identifier is deleted from the map.
StopUnmap(k, w) ==
  /\ At(k, w, "unmap") /\ ~Locked
  /\ clients' = [clients EXCEPT ![Id(client[k])] = Nil]
  /\ Goto(k, w, "unsubscribe")
  /\ UNCHANGED <<cp, store, subs, flags, binding, wg, session, queues, on,
                 seen, fault>>

\* Mutant of StopUnsubscribe: the subscriptions of the session stay.
MutStopUnsubscribe(k, w) ==
  /\ At(k, w, "unsubscribe")
  /\ Goto(k, w, "release")
  /\ UNCHANGED <<registry, flags, binding, wg, session, queues, on, seen,
                 fault>>

\* Without it, the subscriptions go, ...
StopUnsubscribe(k, w) ==
  /\ At(k, w, "unsubscribe")
  /\ subs' = subs \ {Id(client[k])}
  /\ Goto(k, w, "release")
  /\ UNCHANGED <<cp, clients, store, flags, binding, wg, session, queues, on,
                 seen, fault>>

\* ... and the store is closed; the Once is done.
StopRelease(k, w) ==
  /\ At(k, w, "release")
  /\ store' = store \ {Id(client[k])}
  /\ once' = [once EXCEPT ![on[<<k, w>>]] = "done"]
  /\ Goto(k, w, "done")
  /\ UNCHANGED <<cp, clients, subs, flags, binding, wg, stopped, queues, on,
                 seen, fault>>

-----------------------------------------------------------------------------
Arrival(k) == Connect(k) \/ Reject(k) \/ BadConnect(k)
InitStep(k) == \/ InitTakeover(k) \/ InitResume(k) \/ InitNew(k)
               \/ TakeoverOnce(k) \/ TakeoverDrain(k) \/ TakeoverInstall(k)
               \/ ServeWait(k) \/ ServeDone(k)
StartStep(k) == \/ StartOpen(k) \/ StartReplay(k) \/ StartBlocked(k)
                \/ StartConnack(k) \/ StartSpawn(k) \/ StartConnected(k)
                \/ StartTimer(k)
RecvStep(k) == \/ RecvCheck(k) \/ RecvFail(k) \/ RecvDisconnect(k)
               \/ RecvFlow(k) \/ RecvRequest(k) \/ RecvReply(k) \/ RecvQuiet(k)
SendStep(k) == SendEnter(k) \/ SendStop(k) \/ SendPacket(k)
TimerStep(k) == TimerEnter(k) \/ TimerReset(k) \/ TimerExpire(k) \/ TimerStop(k)
StopStep(k, w) == \/ StopEntry(k, w) \/ StopOnce(k, w) \/ StopClose(k, w)
                  \/ StopDrain(k, w) \/ StopChannels(k, w) \/ StopUnmap(k, w)
                  \/ StopUnsubscribe(k, w) \/ StopRelease(k, w)

Next ==
  \E k \in Conn :
    \/ Arrival(k) \/ InitStep(k) \/ StartStep(k) \/ RecvStep(k)
    \/ SendStep(k) \/ TimerStep(k)
    \/ \E w \in StopRole : StopStep(k, w)
    \/ \E o \in Conn : WaitReused(k, o)

(***************************************************************************)
(* A goroutine that can run does.  Nothing is assumed of the peers: they   *)
(* need not connect, send, or read (Send blocks in Write while its peer    *)
(* does not read, so SendPacket has no fairness); a read on a connection   *)
(* the broker closed does fail.  Go's select picks among the ready cases   *)
(* at random, hence strong fairness for its stop case.                     *)
(***************************************************************************)
RecvClosed(k) == on[<<k, "recv">>] \in stopped /\ RecvFail(k)

Fairness ==
  \A k \in Conn :
    /\ WF_vars(InitStep(k))
    /\ WF_vars(StartStep(k))
    /\ WF_vars((RecvCheck(k) \/ RecvClosed(k) \/ RecvReply(k)))
    /\ WF_vars(SendEnter(k))
    /\ SF_vars(SendStop(k))
    /\ WF_vars(TimerEnter(k))
    /\ SF_vars(TimerStop(k))
    /\ \A w \in StopRole : WF_vars(StopStep(k, w))

Spec == Init /\ [][Next]_vars
FairSpec == Spec /\ Fairness

-----------------------------------------------------------------------------
(* Safety.                                                                 *)

\* Every variable has its type.
TypeOK ==
  /\ cp \in [Conn -> [id : ClientId, clean : BOOLEAN, timed : BOOLEAN]]
  /\ clients \in [ClientId -> Conn \cup {Nil}]
  /\ store \subseteq ClientId /\ subs \subseteq ClientId
  /\ state \in [Conn -> {"DISCONNECTED", "CONNECTED"}]
  /\ takeOver \in [Conn -> BOOLEAN]
  /\ clean \in [Conn -> BOOLEAN]
  /\ timed \in [Conn -> BOOLEAN]
  /\ cur \in [Conn -> Conn]
  /\ chan \in [Conn -> Conn]
  /\ wg \in [Conn -> Int]
  /\ client \in [Conn -> Conn]
  /\ stopped \subseteq Conn /\ chanClosed \subseteq Conn /\ bye \subseteq Conn
  /\ once \in [Conn -> {"fresh", "running", "done"}]
  /\ prio \in [Conn -> 0 .. QDepth]
  /\ pc \in [Goroutine -> Label]
  /\ on \in [Goroutine -> Conn]
  /\ sendChan \in [Conn -> Conn]
  /\ wills \in [Conn -> Nat]
  /\ panic \in Panics
  /\ victim \in Conn \cup {Nil}

\* client.go Add/Done: the WaitGroup of every object counts exactly the
\* goroutines that Stop's Wait must outlast, whatever sessions they are of, so
\* a Wait neither returns early nor waits for a goroutine that never was.
WaitGroupCounts == \A o \in Conn : wg[o] = Cardinality(Members(o))

\* client.go:95-97: however many errors, timeouts and takeovers race to end a
\* session, its teardown publishes the will at most once.
WillAtMostOnce == \A s \in Conn : wills[s] <= 1

\* client.go:102-108: once the channels of a client that was never taken over
\* are closed, its Receive and Send have returned, so neither can use them.
ClosedAfterDrain ==
  \A o \in Conn : Sole(o) /\ o \in chanClosed =>
    pc[<<o, "recv">>] = "done" /\ pc[<<o, "send">>] = "done"

\* As long as no other connection shares its object, a client's own goroutines
\* never close a closed channel, send on one, or use a nil connection.
SoleNeverPanics ==
  panic \in {"sendClosed", "closeClosed", "nilConn"} => ~Sole(victim)

\* client.go:105 and 185, server.go:216: Go's WaitGroup is misused, an Add
\* beside a Wait that it keeps from returning, only while a client's own Start
\* still runs behind its teardown, or when sessions share the object.
ReuseNeedsLateStart ==
  panic = "wgReused" /\ Sole(victim) =>
    pc[<<victim, "start">>] \in {"state", "timer"}

\* client.go:115-126 and memory_persistence.go:48-78, 156-169: a packet, or the
\* replay at the start of a session, finds the store of its client gone only
\* when another session of the same identifier was let in: a session's own Stop
\* closes the store after its last packet.
StoreLostToSibling ==
  panic = "nilStore" =>
    \E k \in Conn \ {victim} :
      Id(k) = Id(victim) /\ pc[<<k, "init">>] \notin {"none", "lock"}

\* client.go:115-126: when the teardown of a clean session is over and nobody
\* else used its identifier, the broker remembers nothing of it, whatever the
\* session was doing when it was stopped.
CleanLeavesNothing ==
  \A k \in Conn :
    /\ cp[k].clean /\ once[k] = "done"
    /\ \A j \in Conn \ {k} :
         Id(j) = Id(k) => pc[<<j, "init">>] \in {"none", "lock"}
    => clients[Id(k)] = Nil /\ Id(k) \notin store \cup subs

-----------------------------------------------------------------------------
(* Liveness.                                                               *)

\* SUBSCRIBE, UNSUBSCRIBE or PINGREQ filled outboundPriority and Send is gone:
\* Receive waits for good.
Stuck(k) ==
  /\ pc[<<k, "recv">>] = "reply" /\ prio[on[<<k, "recv">>]] = QDepth
  /\ pc[<<k, "send">>] = "done"

\* client.go:268 and 254: a Stop on a client that nobody takes over ends the
\* session for good: its Once completes, although it waits for every goroutine.
\* Only a Receive that waits for room in outboundPriority can hold it up.
StopCompletes ==
  \A k \in Conn : \A w \in StopRole :
    pc[<<k, w>>] = "entry" ~> \/ once[k] = "done"
                          \/ ~Up \/ Stuck(k)
                          \/ \E j \in Conn : client[j] # j
=============================================================================
