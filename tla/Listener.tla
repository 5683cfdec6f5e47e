------------------------------ MODULE Listener ------------------------------
(***************************************************************************)
(* The broker's listeners (server.go:51-141): AddListener opens one and    *)
(* starts its loop, the loop hands each connection to InitClient, and      *)
(* StopListener and Stop end what was started.                             *)
(*                                                                         *)
(* What InitClient does with a connection once it has read the CONNECT is  *)
(* module Lifecycle.  One goroutine of the program at a time calls         *)
(* AddListener, StopListener and Stop, as main.go does: h.listeners has no *)
(* lock.                                                                   *)
(***************************************************************************)
EXTENDS Naturals, FiniteSets

CONSTANTS
  Listener,  \* the objects AddListener makes
  Name,      \* the names the program gives them
  Path,      \* the paths of WebSocket URLs and requests
  Root,      \* "/", the path that serves all others
  Conn,      \* the connections that peers open
  Nil        \* no listener

ASSUME ListenerAssumption == Nil \notin Listener /\ IsFiniteSet(Listener)
ASSUME NameAssumption == Nil \notin Name
ASSUME PathAssumption == Root \in Path

VARIABLES
  name, scheme,  \* of each listener, once it is added
  listeners,     \* the map from names to listeners
  stopped,       \* the listeners whose stop channel is closed
  open,          \* those whose socket is open
  loop,          \* where each listener's accepting goroutine is
  waitGroup,     \* listenersWaitGroup's counter
  handler,       \* http.Handle: the listener whose handler a path has
  connections,   \* what each listener has recorded
  at, by,        \* where each connection is, and the listener that has it
  seen,          \* the slice an append under way has read
  alive,         \* the connections that neither side has closed
  caller, target, toClose,  \* the call under way and what it has yet to do
  crashed,       \* the process has panicked
  overlapped,    \* the connections whose append ran beside another one
  owed,          \* the connections recorded when StopListener was called
  ended          \* Stop has returned, and nothing was added since

registry == <<name, scheme, listeners, handler>>
socket == <<stopped, open>>
serving == <<loop, waitGroup>>
conn == <<at, by, seen, alive>>
call == <<caller, target, toClose>>
history == <<overlapped, owed, ended>>
vars == <<registry, socket, serving, connections, conn, call, crashed,
          history>>

-----------------------------------------------------------------------------
Running(l) == loop[l] \in {"accept", "append"}
Added(l) == name[l] # Nil
Up == ~crashed

\* Objects, connections and names are told apart by the order they come in.
NextListener == CHOOSE l \in Listener : ~Added(l)
NextConn == CHOOSE k \in Conn : at[k] = "new"
NextName == CHOOSE n \in Name : listeners[n] = Nil

\* A connection is recorded when its append is over.
Recorded(k) == at[k] \in {"connect", "served", "gone"} /\ by[k] # Nil
Held(l) == {k \in Conn : Recorded(k) /\ by[k] = l}
Appending(l) == {k \in Conn : at[k] = "write" /\ by[k] = l}

Init ==
  /\ name = [l \in Listener |-> Nil]
  /\ scheme = [l \in Listener |-> "tcp"]
  /\ listeners = [n \in Name |-> Nil]
  /\ handler = [p \in Path |-> Nil]
  /\ stopped = {} /\ open = {}
  /\ loop = [l \in Listener |-> "none"] /\ waitGroup = 0
  /\ connections = [l \in Listener |-> {}]
  /\ at = [k \in Conn |-> "new"] /\ by = [k \in Conn |-> Nil]
  /\ seen = [k \in Conn |-> {}] /\ alive = {}
  /\ caller = "idle" /\ target = Nil /\ toClose = {}
  /\ crashed = FALSE
  /\ overlapped = {} /\ owed = {} /\ ended = FALSE

-----------------------------------------------------------------------------
(* AddListener.                                                            *)

\* The new object is under its name before the socket is open; one that was
\* there before is not looked at.
Register(l, n, s) ==
  /\ Up /\ caller = "idle" /\ ~Added(l) /\ l = NextListener
  /\ listeners[n] # Nil \/ n = NextName
  /\ name' = [name EXCEPT ![l] = n]
  /\ scheme' = [scheme EXCEPT ![l] = s]
  /\ listeners' = [listeners EXCEPT ![n] = l]
  /\ ended' = FALSE
  /\ UNCHANGED <<stopped, connections, conn, call, overlapped, owed>>

\* net.Listen fails: AddListener returns, and the name stays in the map.
AddFails(l, n) ==
  /\ Register(l, n, "tcp")
  /\ UNCHANGED <<handler, open, serving, crashed>>

\* Mutant of Opens: Add(1) is forgotten.
MutOpens(l) == open' = open \cup {l} /\ waitGroup' = waitGroup

Opens(l) == open' = open \cup {l} /\ waitGroup' = waitGroup + 1

AddTcp(l, n) ==
  /\ Register(l, n, "tcp") /\ Opens(l)
  /\ loop' = [loop EXCEPT ![l] = "accept"]
  /\ UNCHANGED <<handler, crashed>>

\* http.Handle panics for a path that has a handler already.
AddWs(l, n, p) ==
  /\ Register(l, n, "ws") /\ Opens(l)
  /\ IF handler[p] = Nil
       THEN /\ handler' = [handler EXCEPT ![p] = l]
            /\ loop' = [loop EXCEPT ![l] = "accept"]
            /\ UNCHANGED crashed
       ELSE crashed' = TRUE /\ UNCHANGED <<handler, loop>>

AddListener(l, n) ==
  AddFails(l, n) \/ AddTcp(l, n) \/ \E p \in Path : AddWs(l, n, p)

-----------------------------------------------------------------------------
(* The goroutines of a listener.                                           *)

\* A tcp loop records the connection before it accepts the next.
AcceptTcp(l, k) ==
  /\ scheme[l] = "tcp"
  /\ at' = [at EXCEPT ![k] = "read"]
  /\ by' = [by EXCEPT ![k] = l]
  /\ alive' = alive \cup {k}
  /\ loop' = [loop EXCEPT ![l] = "append"]

\* All WebSocket listeners share the default ServeMux: a request goes to the
\* listener that has its path, whichever accepted it.
Handler(p) == IF handler[p] # Nil THEN handler[p] ELSE handler[Root]

\* http.Serve gives the connection a goroutine.
AcceptWs(l, k) ==
  /\ scheme[l] = "ws"
  /\ at' = [at EXCEPT ![k] = "request"]
  /\ alive' = alive \cup {k}
  /\ UNCHANGED <<by, loop>>

Accept(l, k) ==
  /\ Up /\ loop[l] = "accept" /\ l \in open /\ at[k] = "new" /\ k = NextConn
  /\ AcceptTcp(l, k) \/ AcceptWs(l, k)
  /\ UNCHANGED <<registry, socket, waitGroup, connections, seen, call, crashed,
                 history>>

\* The request comes, and the goroutine runs the handler of its path, or closes
\* the connection if there is none.
Request(k, m) ==
  /\ Up /\ at[k] = "request" /\ k \in alive
  /\ by' = [by EXCEPT ![k] = m]
  /\ IF m = Nil THEN at' = [at EXCEPT ![k] = "gone"] /\ alive' = alive \ {k}
     ELSE at' = [at EXCEPT ![k] = "read"] /\ UNCHANGED alive
  /\ UNCHANGED <<registry, socket, serving, connections, seen, call, crashed,
                 history>>

\* The closer: stop is closed, so the socket is closed.
CloseSocket(l) ==
  /\ Up /\ l \in open \cap stopped
  /\ open' = open \ {l}
  /\ UNCHANGED <<registry, stopped, serving, connections, conn, call, crashed,
                 history>>

\* Mutant of Done: not called on this way out.
MutDone == waitGroup

Done == waitGroup - 1

\* Accept fails: the socket is closed, or it fails for any other reason.
\* http.Serve closes the socket before it returns, a tcp loop leaves it open.
LoopEnds(l) ==
  /\ Up /\ loop[l] = "accept"
  /\ loop' = [loop EXCEPT ![l] = "done"]
  /\ waitGroup' = Done
  /\ open' = IF scheme[l] = "ws" THEN open \ {l} ELSE open
  /\ UNCHANGED <<registry, stopped, connections, conn, call, crashed, history>>

\* The appends under way on the same slice.
Beside(k) == Appending(by[k])

\* "listener.connections = append(listener.connections, conn)": the slice is
\* read, and a longer one written back, without a lock.
AppendRead(k) ==
  /\ Up /\ at[k] = "read"
  /\ at' = [at EXCEPT ![k] = "write"]
  /\ seen' = [seen EXCEPT ![k] = connections[by[k]]]
  /\ overlapped' =
       IF Beside(k) = {} THEN overlapped
       ELSE overlapped \cup Beside(k) \cup {k}
  /\ UNCHANGED <<registry, socket, serving, connections, by, alive, call,
                 crashed, owed, ended>>

AppendWrite(k) ==
  /\ Up /\ at[k] = "write"
  /\ LET l == by[k] IN
       /\ connections' = [connections EXCEPT ![l] = seen[k] \cup {k}]
       /\ loop' = IF scheme[l] = "tcp" THEN [loop EXCEPT ![l] = "accept"]
                  ELSE loop
  /\ at' = [at EXCEPT ![k] = "connect"]
  /\ seen' = [seen EXCEPT ![k] = {}]
  /\ UNCHANGED <<registry, socket, waitGroup, by, alive, call, crashed,
                 history>>

-----------------------------------------------------------------------------
(* The connection in InitClient.                                           *)

ConnStep(k, here, next) ==
  /\ Up /\ at[k] = here
  /\ at' = [at EXCEPT ![k] = next]
  /\ UNCHANGED <<registry, socket, serving, connections, by, seen, call,
                 history>>

\* The CONNECT arrives and is accepted, or is answered and refused.
Admit(k) ==
  /\ k \in alive /\ ConnStep(k, "connect", "served")
  /\ UNCHANGED <<alive, crashed>>
Refuse(k) ==
  /\ k \in alive /\ ConnStep(k, "connect", "gone")
  /\ alive' = alive \ {k} /\ UNCHANGED crashed

\* The connection ends before the CONNECT: ReadPacket's nil is taken for a
\* packet, a panic that the http server recovers from and a tcp loop's
\* goroutine does not.
NoConnect(k) ==
  /\ k \notin alive /\ ConnStep(k, "connect", "gone")
  /\ crashed' = (scheme[by[k]] = "tcp") /\ UNCHANGED alive

\* The session ends, and its connection with it (Lifecycle).
SessionEnds(k) ==
  /\ ConnStep(k, "served", "gone")
  /\ alive' = alive \ {k} /\ UNCHANGED crashed

\* The peer gives up before it has sent its request or its CONNECT.
PeerLeaves(k) ==
  /\ k \in alive
  /\ ConnStep(k, "request", "gone") \/ ConnStep(k, "connect", "connect")
  /\ alive' = alive \ {k} /\ UNCHANGED crashed

InitClient(k) == Admit(k) \/ Refuse(k) \/ NoConnect(k) \/ SessionEnds(k)

-----------------------------------------------------------------------------
(* StopListener.                                                           *)

CallStep(here, next) ==
  /\ Up /\ caller = here /\ caller' = next
  /\ UNCHANGED <<name, scheme, handler, open, serving, connections, at, by,
                 seen, overlapped>>

\* Closing a stop channel that Stop has closed before panics.
StopListener(n) ==
  /\ listeners[n] # Nil
  /\ CallStep("idle", "range")
  /\ target' = listeners[n]
  /\ IF target' \in stopped THEN crashed' = TRUE /\ UNCHANGED stopped
     ELSE stopped' = stopped \cup {target'} /\ UNCHANGED crashed
  /\ owed' = Held(target') \cap alive
  /\ UNCHANGED <<listeners, alive, toClose, ended>>

\* "for _, conn := range listener.connections" reads the slice once.  Beside an
\* append it may read the pointer of one slice and the length of another,
\* and run past the end.
Snapshot ==
  /\ CallStep("range", "close")
  /\ toClose' = connections[target]
  /\ crashed' \in (IF Appending(target) = {} THEN {FALSE} ELSE BOOLEAN)
  /\ UNCHANGED <<listeners, stopped, target, alive, owed, ended>>

CloseConn(k) ==
  /\ k \in toClose /\ CallStep("close", "close")
  /\ toClose' = toClose \ {k}
  /\ alive' = alive \ {k}
  /\ UNCHANGED <<listeners, stopped, target, crashed, owed, ended>>

\* Mutant of Finished: the last connection is left out.
MutFinished == Cardinality(toClose) <= 1

\* The loop over the slice is over.
Finished == toClose = {}

Delete ==
  /\ Finished /\ CallStep("close", "idle")
  /\ listeners' = [listeners EXCEPT ![name[target]] = Nil]
  /\ target' = Nil
  /\ UNCHANGED <<stopped, toClose, alive, crashed, owed, ended>>

-----------------------------------------------------------------------------
(* Stop.                                                                   *)

Registered == {listeners[n] : n \in Name} \ {Nil}

\* It deletes nothing, so a second one panics if there is any listener.
Stop ==
  /\ CallStep("idle", "wait")
  /\ stopped' = stopped \cup Registered
  /\ crashed' = (Registered \cap stopped # {})
  /\ UNCHANGED <<listeners, target, toClose, alive, owed, ended>>

\* Mutant of WaitOver: the counter is not waited for.
MutWaitOver == TRUE
WaitOver == waitGroup = 0

StopReturns ==
  /\ WaitOver /\ CallStep("wait", "idle")
  /\ ended' = TRUE
  /\ UNCHANGED <<listeners, stopped, target, toClose, alive, crashed, owed>>

-----------------------------------------------------------------------------
Calls ==
  \/ \E l \in Listener, n \in Name : AddListener(l, n)
  \/ \E n \in Name : StopListener(n)
  \/ Snapshot \/ Delete \/ Stop \/ StopReturns
  \/ \E k \in Conn : CloseConn(k)

Loops(l) == CloseSocket(l) \/ LoopEnds(l)
Appends(k) == AppendRead(k) \/ AppendWrite(k)

Next ==
  \/ Calls
  \/ \E l \in Listener : Loops(l)
  \/ \E l \in Listener, k \in Conn : Accept(l, k)
  \/ \E k \in Conn, p \in Path : Request(k, Handler(p))
  \/ \E k \in Conn : Appends(k) \/ InitClient(k) \/ PeerLeaves(k)

Spec == Init /\ [][Next]_vars

\* The broker's goroutines and a call under way are scheduled; peers and the
\* program need not do anything.
FairSpec ==
  /\ Spec
  /\ \A l \in Listener :
       WF_vars(CloseSocket(l)) /\ WF_vars(l \notin open /\ LoopEnds(l))
  /\ \A k \in Conn : WF_vars(Appends(k)) /\ WF_vars(CloseConn(k))
  /\ WF_vars(Snapshot) /\ WF_vars(Delete) /\ WF_vars(StopReturns)

-----------------------------------------------------------------------------
(* What the listeners promise.                                             *)

\* The shape of the state: what has a name or a handler was added, a loop
\* that is recording a connection has one, and the WaitGroup is never
\* negative (server.go:24-29, 51-119).
TypeOK ==
  /\ name \in [Listener -> Name \cup {Nil}]
  /\ scheme \in [Listener -> {"tcp", "ws"}]
  /\ listeners \in [Name -> Listener \cup {Nil}]
  /\ handler \in [Path -> Listener \cup {Nil}]
  /\ stopped \subseteq Listener /\ open \subseteq Listener
  /\ loop \in [Listener -> {"none", "accept", "append", "done"}]
  /\ waitGroup \in Nat
  /\ connections \in [Listener -> SUBSET Conn]
  /\ at \in [Conn -> {"new", "request", "read", "write", "connect", "served", "gone"}]
  /\ by \in [Conn -> Listener \cup {Nil}]
  /\ seen \in [Conn -> SUBSET Conn]
  /\ alive \subseteq Conn /\ toClose \subseteq Conn
  /\ overlapped \subseteq Conn /\ owed \subseteq Conn
  /\ caller \in {"idle", "range", "close", "wait"}
  /\ target \in Listener \cup {Nil}
  /\ crashed \in BOOLEAN /\ ended \in BOOLEAN

\* listenersWaitGroup is the number of accepting goroutines, for every order
\* of added, failed, stopped and replaced listeners (server.go:67-119).
WaitGroupCounts ==
  Up => waitGroup = Cardinality({l \in Listener : Running(l)})

\* Once Stop has returned no goroutine accepts connections, whatever sockets
\* the closers have yet to close (server.go:70-74, 135-141).
NoneAfterStop == Up /\ ended => \A l \in Listener : ~Running(l)

\* When StopListener has returned, a client that it found recorded is
\* disconnected, unless its record was made beside another one, which only a
\* WebSocket listener does (server.go:88, 115, 123-133).
StopDisconnects ==
  /\ Up /\ caller \notin {"range", "close"} =>
       owed \cap alive \subseteq overlapped
  /\ \A k \in overlapped : scheme[by[k]] = "ws"

\* Stop returns, unless a listener runs on whose name was given to another
\* one: nobody can stop that (server.go:55, 136-140).
Orphaned == \E l \in Listener : Running(l) /\ l \notin stopped
StopEnds == caller = "wait" /\ ~Orphaned ~> caller = "idle" \/ ~Up
=============================================================================
