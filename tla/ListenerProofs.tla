--------------------------- MODULE ListenerProofs ---------------------------
(***************************************************************************)
(* The invariant of Listener holds in every execution, whatever the        *)
(* listeners, names, paths and connections; with it its safety properties. *)
(***************************************************************************)
EXTENDS ListenerInv, TLAPS, FiniteSetTheorems

-----------------------------------------------------------------------------
(* Lemmas about the handlers and the goroutines.                           *)

\* A path is served by no listener, or by a WebSocket listener that was added.
Serves(m) == m # Nil => Added(m) /\ scheme[m] = "ws"

LEMMA HandlerServes ==
  ASSUME TypeOK, Known, NEW p \in Path
  PROVE  Handler(p) \in Listener \cup {Nil} /\ Serves(Handler(p))
BY PathAssumption DEF TypeOK, Known, Handler, Serves

\* The accepting goroutines; one that ends leaves one fewer, one that starts
\* makes one more.
Runners == {l \in Listener : Running(l)}

LEMMA RunnersCount ==
  /\ Cardinality(Runners) \in Nat
  /\ \A l \in Listener :
       /\ Cardinality(Runners \ {l}) =
            Cardinality(Runners) - (IF l \in Runners THEN 1 ELSE 0)
       /\ Cardinality(Runners \ {l}) \in Nat
       /\ Cardinality(Runners \cup {l}) =
            Cardinality(Runners) + (IF l \in Runners THEN 0 ELSE 1)
<1>1. IsFiniteSet(Runners)
  BY ListenerAssumption, FS_Subset DEF Runners
<1>2. ASSUME NEW l \in Listener
      PROVE  IsFiniteSet(Runners \ {l})
  BY <1>1, FS_RemoveElement
<1>3. QED
  BY <1>1, <1>2, FS_CardinalityType, FS_AddElement, FS_RemoveElement

-----------------------------------------------------------------------------
(* Each part of the invariant is preserved by every step.                  *)

\* The state keeps its shape.
LEMMA TypeStep ==
  ASSUME TypeOK, Known, WaitGroupCounts, [Next]_vars
  PROVE  TypeOK'
<1>1. CASE UNCHANGED vars
  BY <1>1 DEF TypeOK, vars, registry, socket, serving, conn, call, history
<1>2. ASSUME NEW l \in Listener, NEW n \in Name, AddFails(l, n)
      PROVE  TypeOK'
  BY <1>2, ListenerAssumption, NameAssumption DEF TypeOK, AddFails, Register,
    Added, registry, socket, serving, conn, call, history
<1>3. ASSUME NEW l \in Listener, NEW n \in Name, AddTcp(l, n)
      PROVE  TypeOK'
<2>1. waitGroup' \in Nat
  BY <1>3 DEF TypeOK, AddTcp, Register, Opens, Added
<2>2. open' \subseteq Listener
  BY <1>3 DEF TypeOK, AddTcp, Register, Opens, Added
<2>3. QED
  BY <1>3, <2>1, <2>2, ListenerAssumption, NameAssumption DEF TypeOK, AddTcp,
    Register, Opens, Added, registry, socket, serving, conn, call, history
<1>4. ASSUME NEW l \in Listener, NEW n \in Name, NEW p \in Path,
             AddWs(l, n, p)
      PROVE  TypeOK'
<2>1. waitGroup' \in Nat
  BY <1>4 DEF TypeOK, AddWs, Register, Opens, Added
<2>2. open' \subseteq Listener
  BY <1>4 DEF TypeOK, AddWs, Register, Opens, Added
<2>3. QED
  BY <1>4, <2>1, <2>2, ListenerAssumption, NameAssumption DEF TypeOK, AddWs,
    Register, Opens, Added, registry, socket, serving, conn, call, history
<1>5. ASSUME NEW l \in Listener, NEW k \in Conn,
             Accept(l, k), AcceptTcp(l, k)
      PROVE  TypeOK'
  BY <1>5, ListenerAssumption, NameAssumption DEF TypeOK, Accept, AcceptTcp,
    registry, socket, serving, conn, call, history
<1>6. ASSUME NEW l \in Listener, NEW k \in Conn,
             Accept(l, k), AcceptWs(l, k)
      PROVE  TypeOK'
  BY <1>6, ListenerAssumption, NameAssumption DEF TypeOK, Accept, AcceptWs,
    registry, socket, serving, conn, call, history
<1>7. ASSUME NEW k \in Conn, NEW m \in Listener \cup {Nil},
             Request(k, m), Serves(m)
      PROVE  TypeOK'
  BY <1>7, ListenerAssumption, NameAssumption DEF TypeOK, Request,
    Serves, registry, socket, serving, conn, call, history
<1>8. ASSUME NEW l \in Listener, CloseSocket(l)
      PROVE  TypeOK'
  BY <1>8, ListenerAssumption, NameAssumption DEF TypeOK, CloseSocket,
    registry, socket, serving, conn, call, history
<1>9. ASSUME NEW l \in Listener, LoopEnds(l)
      PROVE  TypeOK'
<2>1. Running(l) /\ waitGroup = Cardinality(Runners)
  BY <1>9 DEF LoopEnds, WaitGroupCounts, Running, Runners
<2>2. waitGroup' \in Nat
  BY <1>9, <2>1, RunnersCount DEF LoopEnds, Done, Runners, TypeOK
<2>3. QED
  BY <1>9, <2>2 DEF TypeOK, LoopEnds, registry, socket, serving, conn, call,
    history
<1>10. ASSUME NEW k \in Conn, AppendRead(k)
      PROVE  TypeOK'
<2>1. overlapped' \subseteq Conn
  BY <1>10 DEF TypeOK, AppendRead, Beside, Appending
<2>2. seen' \in [Conn -> SUBSET Conn]
  <3>1. CASE by[k] \in Listener
    BY <1>10, <3>1 DEF TypeOK, AppendRead
  <3>2. by[k] # Nil
    BY <1>10 DEF Known, AppendRead
  <3>3. QED
    BY <3>1, <3>2 DEF TypeOK
<2>3. QED
  BY <1>10, <2>1, <2>2 DEF TypeOK, AppendRead, registry, socket, serving, conn,
    call, history
<1>11. ASSUME NEW k \in Conn, AppendWrite(k)
      PROVE  TypeOK'
  BY <1>11, ListenerAssumption, NameAssumption DEF TypeOK, AppendWrite,
    registry, socket, serving, conn, call, history
<1>12. ASSUME NEW k \in Conn, InitClient(k) \/ PeerLeaves(k)
      PROVE  TypeOK'
  BY <1>12, ListenerAssumption, NameAssumption DEF TypeOK, InitClient,
    PeerLeaves, Admit, Refuse, NoConnect, SessionEnds, ConnStep, registry,
    socket, serving, conn, call, history
<1>13. ASSUME NEW n \in Name, StopListener(n)
      PROVE  TypeOK'
<2>1. target' \in Listener
  BY <1>13, ListenerAssumption DEF TypeOK, StopListener
<2>2. stopped' \subseteq Listener /\ crashed' \in BOOLEAN
  BY <1>13, <2>1 DEF TypeOK, StopListener
<2>3. owed' \subseteq Conn
  BY <1>13 DEF TypeOK, StopListener, Held
<2>4. QED
  BY <1>13, <2>1, <2>2, <2>3 DEF TypeOK, StopListener, CallStep, registry,
    socket, serving, conn, call, history
<1>14. CASE Snapshot
  BY <1>14, ListenerAssumption, NameAssumption DEF TypeOK, Snapshot, CallStep,
    Known, registry, socket, serving, conn, call, history
<1>15. ASSUME NEW k \in Conn, CloseConn(k)
      PROVE  TypeOK'
  BY <1>15, ListenerAssumption, NameAssumption DEF TypeOK, CloseConn, CallStep,
    registry, socket, serving, conn, call, history
<1>16. CASE Delete
  BY <1>16, ListenerAssumption, NameAssumption DEF TypeOK, Delete, Finished,
    CallStep, Known, Added, registry, socket, serving, conn, call, history
<1>17. CASE Stop
  BY <1>17, ListenerAssumption, NameAssumption DEF TypeOK, Stop, Registered,
    CallStep, registry, socket, serving, conn, call, history
<1>18. CASE StopReturns
  BY <1>18, ListenerAssumption, NameAssumption DEF TypeOK, StopReturns,
    WaitOver, CallStep, registry, socket, serving, conn, call, history
<1>19. QED
  BY <1>1, <1>2, <1>3, <1>4, <1>5, <1>6, <1>7, <1>8, <1>9, <1>10, <1>11, <1>12,
    <1>13, <1>14, <1>15, <1>16, <1>17, <1>18, HandlerServes DEF Next, Calls,
    AddListener, Loops, Accept, Appends

\* What has a listener has one that was added.
LEMMA KnownStep ==
  ASSUME TypeOK, Known, [Next]_vars
  PROVE  Known'
<1>1. CASE UNCHANGED vars
  BY <1>1 DEF Known, Added, TypeOK, vars, registry, socket, serving, conn,
    call, history
<1>2. ASSUME NEW l \in Listener, NEW n \in Name, AddFails(l, n)
      PROVE  Known'
  BY <1>2, ListenerAssumption, NameAssumption DEF Known, Added, TypeOK,
    AddFails, Register, registry, socket, serving, conn, call, history
<1>3. ASSUME NEW l \in Listener, NEW n \in Name, AddTcp(l, n)
      PROVE  Known'
  BY <1>3, ListenerAssumption, NameAssumption DEF Known, Added, TypeOK, AddTcp,
    Register, Opens, registry, socket, serving, conn, call, history
<1>4. ASSUME NEW l \in Listener, NEW n \in Name, NEW p \in Path,
             AddWs(l, n, p)
      PROVE  Known'
  BY <1>4, ListenerAssumption, NameAssumption DEF Known, Added, TypeOK, AddWs,
    Register, Opens, registry, socket, serving, conn, call, history
<1>5. ASSUME NEW l \in Listener, NEW k \in Conn,
             Accept(l, k), AcceptTcp(l, k)
      PROVE  Known'
  BY <1>5, ListenerAssumption, NameAssumption DEF Known, Added, TypeOK, Accept,
    AcceptTcp, registry, socket, serving, conn, call, history
<1>6. ASSUME NEW l \in Listener, NEW k \in Conn,
             Accept(l, k), AcceptWs(l, k)
      PROVE  Known'
  BY <1>6, ListenerAssumption, NameAssumption DEF Known, Added, TypeOK, Accept,
    AcceptWs, registry, socket, serving, conn, call, history
<1>7. ASSUME NEW k \in Conn, NEW m \in Listener \cup {Nil},
             Request(k, m), Serves(m)
      PROVE  Known'
  BY <1>7, ListenerAssumption, NameAssumption DEF Known, Added, TypeOK, Request,
    Serves, Handler, registry, socket, serving, conn, call, history
<1>8. ASSUME NEW l \in Listener, CloseSocket(l)
      PROVE  Known'
  BY <1>8, ListenerAssumption, NameAssumption DEF Known, Added, TypeOK,
    CloseSocket, registry, socket, serving, conn, call, history
<1>9. ASSUME NEW l \in Listener, LoopEnds(l)
      PROVE  Known'
  BY <1>9, ListenerAssumption, NameAssumption DEF Known, Added, TypeOK,
    LoopEnds, Done, registry, socket, serving, conn, call, history
<1>10. ASSUME NEW k \in Conn, AppendRead(k)
      PROVE  Known'
  BY <1>10, ListenerAssumption, NameAssumption DEF Known, Added, TypeOK,
    AppendRead, Beside, Appending, registry, socket, serving, conn, call,
    history
<1>11. ASSUME NEW k \in Conn, AppendWrite(k)
      PROVE  Known'
  BY <1>11, ListenerAssumption, NameAssumption DEF Known, Added, TypeOK,
    AppendWrite, registry, socket, serving, conn, call, history
<1>12. ASSUME NEW k \in Conn, InitClient(k) \/ PeerLeaves(k)
      PROVE  Known'
  BY <1>12, ListenerAssumption, NameAssumption DEF Known, Added, TypeOK,
    InitClient, PeerLeaves, Admit, Refuse, NoConnect, SessionEnds, ConnStep,
    registry, socket, serving, conn, call, history
<1>13. ASSUME NEW n \in Name, StopListener(n)
      PROVE  Known'
  BY <1>13, ListenerAssumption, NameAssumption DEF Known, Added, TypeOK,
    StopListener, CallStep, registry, socket, serving, conn, call, history
<1>14. CASE Snapshot
  BY <1>14, ListenerAssumption, NameAssumption DEF Known, Added, TypeOK,
    Snapshot, CallStep, registry, socket, serving, conn, call, history
<1>15. ASSUME NEW k \in Conn, CloseConn(k)
      PROVE  Known'
  BY <1>15, ListenerAssumption, NameAssumption DEF Known, Added, TypeOK,
    CloseConn, CallStep, registry, socket, serving, conn, call, history
<1>16. CASE Delete
  BY <1>16, ListenerAssumption, NameAssumption DEF Known, Added, TypeOK,
    Delete, Finished, CallStep, registry, socket, serving, conn, call, history
<1>17. CASE Stop
  BY <1>17, ListenerAssumption, NameAssumption DEF Known, Added, TypeOK, Stop,
    Registered, CallStep, registry, socket, serving, conn, call, history
<1>18. CASE StopReturns
  BY <1>18, ListenerAssumption, NameAssumption DEF Known, Added, TypeOK,
    StopReturns, WaitOver, CallStep, registry, socket, serving, conn, call,
    history
<1>19. QED
  BY <1>1, <1>2, <1>3, <1>4, <1>5, <1>6, <1>7, <1>8, <1>9, <1>10, <1>11, <1>12,
    <1>13, <1>14, <1>15, <1>16, <1>17, <1>18, HandlerServes DEF Next, Calls,
    AddListener, Loops, Accept, Appends

\* The WaitGroup counts the accepting goroutines.
LEMMA CountsStep ==
  ASSUME TypeOK, Known, OneAtATime, WaitGroupCounts, [Next]_vars
  PROVE  WaitGroupCounts'
<1>1. CASE UNCHANGED vars
  BY <1>1 DEF Up, Running, WaitGroupCounts, vars, registry, socket, serving,
    conn, call, history
<1>2. ASSUME NEW l \in Listener, NEW n \in Name, AddFails(l, n)
      PROVE  WaitGroupCounts'
  BY <1>2 DEF Up, Running, WaitGroupCounts, AddFails, Register, registry,
    socket, serving, conn, call, history
<1>3. ASSUME NEW l \in Listener, NEW n \in Name, AddTcp(l, n)
      PROVE  WaitGroupCounts'
<2>1. Runners' = Runners \cup {l} /\ l \notin Runners
  BY <1>3 DEF AddTcp, Register, Opens, Running, Runners, Known, TypeOK
<2>2. waitGroup' = waitGroup + 1
  BY <1>3 DEF AddTcp, Register, Opens
<2>3. QED
  BY <1>3, <2>1, <2>2, RunnersCount DEF WaitGroupCounts, Runners, Up, AddTcp,
    Register, Opens
<1>4. ASSUME NEW l \in Listener, NEW n \in Name, NEW p \in Path,
             AddWs(l, n, p)
      PROVE  WaitGroupCounts'
<2>1. CASE handler[p] # Nil
  BY <1>4, <2>1 DEF AddWs, WaitGroupCounts, Up
<2>2. CASE handler[p] = Nil
  <3>1. Runners' = Runners \cup {l} /\ l \notin Runners
    BY <1>4, <2>2 DEF AddWs, Register, Running, Runners, Known, TypeOK
  <3>2. waitGroup' = waitGroup + 1
    BY <1>4 DEF AddWs, Opens
  <3>3. QED
    BY <1>4, <2>2, <3>1, <3>2, RunnersCount DEF WaitGroupCounts, Runners, Up,
      AddWs, Register
<2>3. QED
  BY <2>1, <2>2
<1>5. ASSUME NEW l \in Listener, NEW k \in Conn,
             Accept(l, k), AcceptTcp(l, k)
      PROVE  WaitGroupCounts'
<2>1. Runners' = Runners
  BY <1>5 DEF Accept, AcceptTcp, Running, Runners, TypeOK
<2>2. QED
  BY <1>5, <2>1 DEF WaitGroupCounts, Runners, Up, Accept
<1>6. ASSUME NEW l \in Listener, NEW k \in Conn,
             Accept(l, k), AcceptWs(l, k)
      PROVE  WaitGroupCounts'
  BY <1>6 DEF Up, Running, WaitGroupCounts, Accept, AcceptWs, registry,
    socket, serving, conn, call, history
<1>7. ASSUME NEW k \in Conn, NEW m \in Listener \cup {Nil},
             Request(k, m), Serves(m)
      PROVE  WaitGroupCounts'
  BY <1>7 DEF Up, Running, WaitGroupCounts, Request, Serves, registry,
    socket, serving, conn, call, history
<1>8. ASSUME NEW l \in Listener, CloseSocket(l)
      PROVE  WaitGroupCounts'
  BY <1>8 DEF Up, Running, WaitGroupCounts, CloseSocket, registry, socket,
    serving, conn, call, history
<1>9. ASSUME NEW l \in Listener, LoopEnds(l)
      PROVE  WaitGroupCounts'
<2>1. Runners' = Runners \ {l} /\ l \in Runners
  BY <1>9 DEF LoopEnds, Running, Runners, TypeOK
<2>2. waitGroup' = waitGroup - 1
  BY <1>9 DEF LoopEnds, Done
<2>3. QED
  BY <1>9, <2>1, <2>2, RunnersCount DEF WaitGroupCounts, Runners, Up, LoopEnds
<1>10. ASSUME NEW k \in Conn, AppendRead(k)
      PROVE  WaitGroupCounts'
  BY <1>10 DEF Up, Running, WaitGroupCounts, AppendRead, registry, socket,
    serving, conn, call, history
<1>11. ASSUME NEW k \in Conn, AppendWrite(k)
      PROVE  WaitGroupCounts'
<2>1. Runners' = Runners
  <3>1. CASE scheme[by[k]] # "tcp"
    BY <1>11, <3>1 DEF AppendWrite, Runners, Running
  <3>2. CASE scheme[by[k]] = "tcp"
    <4>1. loop[by[k]] = "append"
      BY <1>11, <3>2 DEF AppendWrite, OneAtATime, Recording
    <4>2. QED
      BY <1>11, <3>2, <4>1 DEF AppendWrite, Runners, Running, TypeOK
  <3>3. QED
    BY <3>1, <3>2
<2>2. QED
  BY <1>11, <2>1 DEF WaitGroupCounts, Runners, Up, AppendWrite, registry,
    socket
<1>12. ASSUME NEW k \in Conn, InitClient(k) \/ PeerLeaves(k)
      PROVE  WaitGroupCounts'
  BY <1>12 DEF Up, Running, WaitGroupCounts, InitClient, PeerLeaves, Admit,
    Refuse, NoConnect, SessionEnds, ConnStep, registry, socket, serving, conn,
    call, history
<1>13. ASSUME NEW n \in Name, StopListener(n)
      PROVE  WaitGroupCounts'
  BY <1>13 DEF Up, Running, WaitGroupCounts, StopListener, CallStep, registry,
    socket, serving, conn, call, history
<1>14. CASE Snapshot
  BY <1>14 DEF Up, Running, WaitGroupCounts, Snapshot, CallStep, registry,
    socket, serving, conn, call, history
<1>15. ASSUME NEW k \in Conn, CloseConn(k)
      PROVE  WaitGroupCounts'
  BY <1>15 DEF Up, Running, WaitGroupCounts, CloseConn, CallStep, registry,
    socket, serving, conn, call, history
<1>16. CASE Delete
  BY <1>16 DEF Up, Running, WaitGroupCounts, Delete, Finished, CallStep,
    registry, socket, serving, conn, call, history
<1>17. CASE Stop
  BY <1>17 DEF Up, Running, WaitGroupCounts, Stop, Registered, CallStep,
    registry, socket, serving, conn, call, history
<1>18. CASE StopReturns
  BY <1>18 DEF Up, Running, WaitGroupCounts, StopReturns, WaitOver, CallStep,
    registry, socket, serving, conn, call, history
<1>19. QED
  BY <1>1, <1>2, <1>3, <1>4, <1>5, <1>6, <1>7, <1>8, <1>9, <1>10, <1>11, <1>12,
    <1>13, <1>14, <1>15, <1>16, <1>17, <1>18, HandlerServes DEF Next, Calls,
    AddListener, Loops, Accept, Appends

\* No goroutine accepts once Stop has returned.
LEMMA NoneAfterStopStep ==
  ASSUME TypeOK, Known, OneAtATime, WaitGroupCounts, NoneAfterStop, [Next]_vars
  PROVE  NoneAfterStop'
<1>1. CASE UNCHANGED vars
  BY <1>1 DEF NoneAfterStop, Running, Up, vars, registry, socket, serving,
    conn, call, history
<1>2. ASSUME NEW l \in Listener, NEW n \in Name, AddFails(l, n)
      PROVE  NoneAfterStop'
  BY <1>2 DEF NoneAfterStop, Running, Up, AddFails, Register, registry, socket,
    serving, conn, call, history
<1>3. ASSUME NEW l \in Listener, NEW n \in Name, AddTcp(l, n)
      PROVE  NoneAfterStop'
  BY <1>3 DEF NoneAfterStop, Running, Up, AddTcp, Register, Opens, registry,
    socket, serving, conn, call, history
<1>4. ASSUME NEW l \in Listener, NEW n \in Name, NEW p \in Path,
             AddWs(l, n, p)
      PROVE  NoneAfterStop'
  BY <1>4 DEF NoneAfterStop, Running, Up, AddWs, Register, Opens, registry,
    socket, serving, conn, call, history
<1>5. ASSUME NEW l \in Listener, NEW k \in Conn,
             Accept(l, k), AcceptTcp(l, k)
      PROVE  NoneAfterStop'
  BY <1>5 DEF NoneAfterStop, Running, Up, Accept, AcceptTcp, TypeOK, registry,
    socket, serving, conn, call, history
<1>6. ASSUME NEW l \in Listener, NEW k \in Conn,
             Accept(l, k), AcceptWs(l, k)
      PROVE  NoneAfterStop'
  BY <1>6 DEF NoneAfterStop, Running, Up, Accept, AcceptWs, registry,
    socket, serving, conn, call, history
<1>7. ASSUME NEW k \in Conn, NEW m \in Listener \cup {Nil},
             Request(k, m), Serves(m)
      PROVE  NoneAfterStop'
  BY <1>7 DEF NoneAfterStop, Running, Up, Request, Serves, registry,
    socket, serving, conn, call, history
<1>8. ASSUME NEW l \in Listener, CloseSocket(l)
      PROVE  NoneAfterStop'
  BY <1>8 DEF NoneAfterStop, Running, Up, CloseSocket, registry, socket,
    serving, conn, call, history
<1>9. ASSUME NEW l \in Listener, LoopEnds(l)
      PROVE  NoneAfterStop'
  BY <1>9 DEF NoneAfterStop, Running, Up, LoopEnds, Done, TypeOK, registry,
    socket, serving, conn, call, history
<1>10. ASSUME NEW k \in Conn, AppendRead(k)
      PROVE  NoneAfterStop'
  BY <1>10 DEF NoneAfterStop, Running, Up, AppendRead, registry, socket,
    serving, conn, call, history
<1>11. ASSUME NEW k \in Conn, AppendWrite(k)
      PROVE  NoneAfterStop'
  BY <1>11 DEF NoneAfterStop, Running, Up, AppendWrite, OneAtATime, Recording,
    TypeOK, registry, socket, serving, conn, call, history
<1>12. ASSUME NEW k \in Conn, InitClient(k) \/ PeerLeaves(k)
      PROVE  NoneAfterStop'
  BY <1>12 DEF NoneAfterStop, Running, Up, InitClient, PeerLeaves, Admit,
    Refuse, NoConnect, SessionEnds, ConnStep, registry, socket, serving, conn,
    call, history
<1>13. ASSUME NEW n \in Name, StopListener(n)
      PROVE  NoneAfterStop'
  BY <1>13 DEF NoneAfterStop, Running, Up, StopListener, CallStep, registry,
    socket, serving, conn, call, history
<1>14. CASE Snapshot
  BY <1>14 DEF NoneAfterStop, Running, Up, Snapshot, CallStep, registry,
    socket, serving, conn, call, history
<1>15. ASSUME NEW k \in Conn, CloseConn(k)
      PROVE  NoneAfterStop'
  BY <1>15 DEF NoneAfterStop, Running, Up, CloseConn, CallStep, registry,
    socket, serving, conn, call, history
<1>16. CASE Delete
  BY <1>16 DEF NoneAfterStop, Running, Up, Delete, Finished, CallStep,
    registry, socket, serving, conn, call, history
<1>17. CASE Stop
  BY <1>17 DEF NoneAfterStop, Running, Up, Stop, Registered, CallStep,
    registry, socket, serving, conn, call, history
<1>18. CASE StopReturns
<2>1. CASE Up
  <3>1. Cardinality(Runners) = 0
    BY <1>18, <2>1 DEF StopReturns, WaitOver, WaitGroupCounts, Runners
  <3>2. Runners = {}
    BY <3>1, ListenerAssumption, FS_Subset, FS_EmptySet DEF Runners
  <3>3. QED
    BY <1>18, <3>2 DEF StopReturns, CallStep, serving, NoneAfterStop, Runners,
      Running
<2>2. QED
  BY <1>18, <2>1 DEF StopReturns, CallStep, Up, NoneAfterStop
<1>19. QED
  BY <1>1, <1>2, <1>3, <1>4, <1>5, <1>6, <1>7, <1>8, <1>9, <1>10, <1>11, <1>12,
    <1>13, <1>14, <1>15, <1>16, <1>17, <1>18, HandlerServes DEF Next, Calls,
    AddListener, Loops, Accept, Appends

\* A tcp loop records one connection at a time.
LEMMA OneAtATimeStep ==
  ASSUME TypeOK, Known, OneAtATime, [Next]_vars
  PROVE  OneAtATime'
<1>1. CASE UNCHANGED vars
  BY <1>1 DEF OneAtATime, Recording, Known, TypeOK, Added, vars, registry,
    socket, serving, conn, call, history
<1>2. ASSUME NEW l \in Listener, NEW n \in Name, AddFails(l, n)
      PROVE  OneAtATime'
  BY <1>2, ListenerAssumption, NameAssumption DEF OneAtATime, Recording, Known,
    TypeOK, Added, AddFails, Register, registry, socket, serving, conn, call,
    history
<1>3. ASSUME NEW l \in Listener, NEW n \in Name, AddTcp(l, n)
      PROVE  OneAtATime'
  BY <1>3, ListenerAssumption, NameAssumption DEF OneAtATime, Recording, Known,
    TypeOK, Added, AddTcp, Register, Opens, registry, socket, serving, conn,
    call, history
<1>4. ASSUME NEW l \in Listener, NEW n \in Name, NEW p \in Path,
             AddWs(l, n, p)
      PROVE  OneAtATime'
  BY <1>4, ListenerAssumption, NameAssumption DEF OneAtATime, Recording, Known,
    TypeOK, Added, AddWs, Register, Opens, registry, socket, serving, conn,
    call, history
<1>5. ASSUME NEW l \in Listener, NEW k \in Conn,
             Accept(l, k), AcceptTcp(l, k)
      PROVE  OneAtATime'
  BY <1>5, ListenerAssumption, NameAssumption DEF OneAtATime, Recording, Known,
    TypeOK, Added, Accept, AcceptTcp, registry, socket, serving, conn, call,
    history
<1>6. ASSUME NEW l \in Listener, NEW k \in Conn,
             Accept(l, k), AcceptWs(l, k)
      PROVE  OneAtATime'
  BY <1>6, ListenerAssumption, NameAssumption DEF OneAtATime, Recording, Known,
    TypeOK, Added, Accept, AcceptWs, registry, socket,
    serving, conn, call, history
<1>7. ASSUME NEW k \in Conn, NEW m \in Listener \cup {Nil},
             Request(k, m), Serves(m)
      PROVE  OneAtATime'
  BY <1>7, ListenerAssumption, NameAssumption DEF OneAtATime, Recording, Known,
    TypeOK, Added, Request, Serves, Handler, registry, socket,
    serving, conn, call, history
<1>8. ASSUME NEW l \in Listener, CloseSocket(l)
      PROVE  OneAtATime'
  BY <1>8, ListenerAssumption, NameAssumption DEF OneAtATime, Recording, Known,
    TypeOK, Added, CloseSocket, registry, socket, serving, conn, call, history
<1>9. ASSUME NEW l \in Listener, LoopEnds(l)
      PROVE  OneAtATime'
  BY <1>9, ListenerAssumption, NameAssumption DEF OneAtATime, Recording, Known,
    TypeOK, Added, LoopEnds, Done, registry, socket, serving, conn, call,
    history
<1>10. ASSUME NEW k \in Conn, AppendRead(k)
      PROVE  OneAtATime'
  BY <1>10, ListenerAssumption, NameAssumption DEF OneAtATime, Recording, Known,
    TypeOK, Added, AppendRead, registry, socket, serving, conn, call, history
<1>11. ASSUME NEW k \in Conn, AppendWrite(k)
      PROVE  OneAtATime'
  BY <1>11, ListenerAssumption, NameAssumption DEF OneAtATime, Recording,
    Known, TypeOK, Added, AppendWrite, registry, socket, serving, conn, call,
    history
<1>12. ASSUME NEW k \in Conn, InitClient(k) \/ PeerLeaves(k)
      PROVE  OneAtATime'
  BY <1>12, ListenerAssumption, NameAssumption DEF OneAtATime, Recording,
    Known, TypeOK, Added, InitClient, PeerLeaves, Admit, Refuse, NoConnect,
    SessionEnds, ConnStep, registry, socket, serving, conn, call, history
<1>13. ASSUME NEW n \in Name, StopListener(n)
      PROVE  OneAtATime'
  BY <1>13, ListenerAssumption, NameAssumption DEF OneAtATime, Recording,
    Known, TypeOK, Added, StopListener, CallStep, registry, socket, serving,
    conn, call, history
<1>14. CASE Snapshot
  BY <1>14, ListenerAssumption, NameAssumption DEF OneAtATime, Recording,
    Known, TypeOK, Added, Snapshot, CallStep, registry, socket, serving, conn,
    call, history
<1>15. ASSUME NEW k \in Conn, CloseConn(k)
      PROVE  OneAtATime'
  BY <1>15, ListenerAssumption, NameAssumption DEF OneAtATime, Recording,
    Known, TypeOK, Added, CloseConn, CallStep, registry, socket, serving,
    conn, call, history
<1>16. CASE Delete
  BY <1>16, ListenerAssumption, NameAssumption DEF OneAtATime, Recording,
    Known, TypeOK, Added, Delete, Finished, CallStep, registry, socket,
    serving, conn, call, history
<1>17. CASE Stop
  BY <1>17, ListenerAssumption, NameAssumption DEF OneAtATime, Recording,
    Known, TypeOK, Added, Stop, Registered, CallStep, registry, socket,
    serving, conn, call, history
<1>18. CASE StopReturns
  BY <1>18, ListenerAssumption, NameAssumption DEF OneAtATime, Recording,
    Known, TypeOK, Added, StopReturns, WaitOver, CallStep, registry, socket,
    serving, conn, call, history
<1>19. QED
  BY <1>1, <1>2, <1>3, <1>4, <1>5, <1>6, <1>7, <1>8, <1>9, <1>10, <1>11, <1>12,
    <1>13, <1>14, <1>15, <1>16, <1>17, <1>18, HandlerServes DEF Next, Calls,
    AddListener, Loops, Accept, Appends

\* Only the appends of a WebSocket listener run beside one another.
LEMMA OnlyWsStep ==
  ASSUME TypeOK, Known, OneAtATime, OnlyWs, [Next]_vars
  PROVE  OnlyWs'
<1>1. CASE UNCHANGED vars
  BY <1>1 DEF OnlyWs, Known, TypeOK, Added, vars, registry, socket, serving,
    conn, call, history
<1>2. ASSUME NEW l \in Listener, NEW n \in Name, AddFails(l, n)
      PROVE  OnlyWs'
  BY <1>2, ListenerAssumption, NameAssumption DEF OnlyWs, Known, TypeOK, Added,
    AddFails, Register, registry, socket, serving, conn, call, history
<1>3. ASSUME NEW l \in Listener, NEW n \in Name, AddTcp(l, n)
      PROVE  OnlyWs'
  BY <1>3, ListenerAssumption, NameAssumption DEF OnlyWs, Known, TypeOK, Added,
    AddTcp, Register, Opens, registry, socket, serving, conn, call, history
<1>4. ASSUME NEW l \in Listener, NEW n \in Name, NEW p \in Path,
             AddWs(l, n, p)
      PROVE  OnlyWs'
  BY <1>4, ListenerAssumption, NameAssumption DEF OnlyWs, Known, TypeOK, Added,
    AddWs, Register, Opens, registry, socket, serving, conn, call, history
<1>5. ASSUME NEW l \in Listener, NEW k \in Conn,
             Accept(l, k), AcceptTcp(l, k)
      PROVE  OnlyWs'
  BY <1>5, ListenerAssumption, NameAssumption DEF OnlyWs, Known, TypeOK, Added,
    Accept, AcceptTcp, registry, socket, serving, conn, call, history
<1>6. ASSUME NEW l \in Listener, NEW k \in Conn,
             Accept(l, k), AcceptWs(l, k)
      PROVE  OnlyWs'
  BY <1>6, ListenerAssumption, NameAssumption DEF OnlyWs, Known, TypeOK, Added,
    Accept, AcceptWs, registry, socket, serving, conn, call, history
<1>7. ASSUME NEW k \in Conn, NEW m \in Listener \cup {Nil},
             Request(k, m), Serves(m)
      PROVE  OnlyWs'
  BY <1>7, ListenerAssumption, NameAssumption DEF OnlyWs, Known, TypeOK, Added,
    Request, Serves, registry, socket, serving, conn, call, history
<1>8. ASSUME NEW l \in Listener, CloseSocket(l)
      PROVE  OnlyWs'
  BY <1>8, ListenerAssumption, NameAssumption DEF OnlyWs, Known, TypeOK, Added,
    CloseSocket, registry, socket, serving, conn, call, history
<1>9. ASSUME NEW l \in Listener, LoopEnds(l)
      PROVE  OnlyWs'
  BY <1>9, ListenerAssumption, NameAssumption DEF OnlyWs, Known, TypeOK, Added,
    LoopEnds, Done, registry, socket, serving, conn, call, history
<1>10. ASSUME NEW k \in Conn, AppendRead(k)
      PROVE  OnlyWs'
  BY <1>10, ListenerAssumption, NameAssumption DEF OnlyWs, Known, TypeOK, Added,
    AppendRead, Beside, Appending, OneAtATime, Recording, registry, socket,
    serving, conn, call, history
<1>11. ASSUME NEW k \in Conn, AppendWrite(k)
      PROVE  OnlyWs'
  BY <1>11, ListenerAssumption, NameAssumption DEF OnlyWs, Known, TypeOK,
    Added, AppendWrite, registry, socket, serving, conn, call, history
<1>12. ASSUME NEW k \in Conn, InitClient(k) \/ PeerLeaves(k)
      PROVE  OnlyWs'
  BY <1>12, ListenerAssumption, NameAssumption DEF OnlyWs, Known, TypeOK,
    Added, InitClient, PeerLeaves, Admit, Refuse, NoConnect, SessionEnds,
    ConnStep, registry, socket, serving, conn, call, history
<1>13. ASSUME NEW n \in Name, StopListener(n)
      PROVE  OnlyWs'
  BY <1>13, ListenerAssumption, NameAssumption DEF OnlyWs, Known, TypeOK,
    Added, StopListener, CallStep, registry, socket, serving, conn, call,
    history
<1>14. CASE Snapshot
  BY <1>14, ListenerAssumption, NameAssumption DEF OnlyWs, Known, TypeOK,
    Added, Snapshot, CallStep, registry, socket, serving, conn, call, history
<1>15. ASSUME NEW k \in Conn, CloseConn(k)
      PROVE  OnlyWs'
  BY <1>15, ListenerAssumption, NameAssumption DEF OnlyWs, Known, TypeOK,
    Added, CloseConn, CallStep, registry, socket, serving, conn, call, history
<1>16. CASE Delete
  BY <1>16, ListenerAssumption, NameAssumption DEF OnlyWs, Known, TypeOK,
    Added, Delete, Finished, CallStep, registry, socket, serving, conn, call,
    history
<1>17. CASE Stop
  BY <1>17, ListenerAssumption, NameAssumption DEF OnlyWs, Known, TypeOK,
    Added, Stop, Registered, CallStep, registry, socket, serving, conn, call,
    history
<1>18. CASE StopReturns
  BY <1>18, ListenerAssumption, NameAssumption DEF OnlyWs, Known, TypeOK,
    Added, StopReturns, WaitOver, CallStep, registry, socket, serving, conn,
    call, history
<1>19. QED
  BY <1>1, <1>2, <1>3, <1>4, <1>5, <1>6, <1>7, <1>8, <1>9, <1>10, <1>11, <1>12,
    <1>13, <1>14, <1>15, <1>16, <1>17, <1>18, HandlerServes DEF Next, Calls,
    AddListener, Loops, Accept, Appends

\* A record that was made alone stays in the slice.
LEMMA LastingStep ==
  ASSUME TypeOK, Known, OneAtATime, Lasting, [Next]_vars
  PROVE  Lasting'
<1>1. CASE UNCHANGED vars
  BY <1>1 DEF Lasting, Settled, Recorded, TypeOK, vars, registry, socket,
    serving, conn, call, history
<1>2. ASSUME NEW l \in Listener, NEW n \in Name, AddFails(l, n)
      PROVE  Lasting'
  BY <1>2 DEF Lasting, Settled, Recorded, TypeOK, AddFails, Register, registry,
    socket, serving, conn, call, history
<1>3. ASSUME NEW l \in Listener, NEW n \in Name, AddTcp(l, n)
      PROVE  Lasting'
  BY <1>3 DEF Lasting, Settled, Recorded, TypeOK, AddTcp, Register, Opens,
    registry, socket, serving, conn, call, history
<1>4. ASSUME NEW l \in Listener, NEW n \in Name, NEW p \in Path,
             AddWs(l, n, p)
      PROVE  Lasting'
  BY <1>4 DEF Lasting, Settled, Recorded, TypeOK, AddWs, Register, Opens,
    registry, socket, serving, conn, call, history
<1>5. ASSUME NEW l \in Listener, NEW k \in Conn,
             Accept(l, k), AcceptTcp(l, k)
      PROVE  Lasting'
  BY <1>5 DEF Lasting, Settled, Recorded, TypeOK, Accept, AcceptTcp, Known,
    registry, socket, serving, conn, call, history
<1>6. ASSUME NEW l \in Listener, NEW k \in Conn,
             Accept(l, k), AcceptWs(l, k)
      PROVE  Lasting'
  BY <1>6 DEF Lasting, Settled, Recorded, TypeOK, Accept, AcceptWs,
    Known, registry, socket, serving, conn, call, history
<1>7. ASSUME NEW k \in Conn, NEW m \in Listener \cup {Nil},
             Request(k, m), Serves(m)
      PROVE  Lasting'
  BY <1>7 DEF Lasting, Settled, Recorded, TypeOK, Request, Serves,
    Known, registry, socket, serving, conn, call, history
<1>8. ASSUME NEW l \in Listener, CloseSocket(l)
      PROVE  Lasting'
  BY <1>8 DEF Lasting, Settled, Recorded, TypeOK, CloseSocket, registry,
    socket, serving, conn, call, history
<1>9. ASSUME NEW l \in Listener, LoopEnds(l)
      PROVE  Lasting'
  BY <1>9 DEF Lasting, Settled, Recorded, TypeOK, LoopEnds, Done, registry,
    socket, serving, conn, call, history
<1>10. ASSUME NEW k \in Conn, AppendRead(k)
      PROVE  Lasting'
<2>1. \A j \in Conn : Settled(j)' => Settled(j) /\ by'[j] = by[j]
  BY <1>10 DEF AppendRead, Settled, Recorded, TypeOK
<2>2. \A j \in Conn : at'[j] = "write" => j = k \/ at[j] = "write"
  BY <1>10 DEF AppendRead, TypeOK
<2>3. /\ seen'[k] = connections[by[k]]
      /\ \A j \in Conn \ {k} : seen'[j] = seen[j]
      /\ connections' = connections /\ by' = by
  BY <1>10 DEF AppendRead, TypeOK
<2>4. \A i, j \in Conn :
        at'[i] = "write" /\ at'[j] = "write" /\ by'[j] = by'[i] /\ i # j =>
          j \in overlapped'
  BY <1>10, <2>2 DEF AppendRead, Beside, Appending, Lasting, TypeOK
<2>5. QED
  BY <2>1, <2>2, <2>3, <2>4 DEF Lasting
<1>11. ASSUME NEW k \in Conn, AppendWrite(k)
      PROVE  Lasting'
<2>1. /\ \A j \in Conn :
           Settled(j)' => Settled(j) \/ (j = k /\ k \notin overlapped)
      /\ by' = by /\ overlapped' = overlapped
  BY <1>11 DEF AppendWrite, Settled, Recorded, TypeOK, conn, history
<2>2. \A j \in Conn :
        at'[j] = "write" => j # k /\ at[j] = "write" /\ seen'[j] = seen[j]
  BY <1>11 DEF AppendWrite, TypeOK
<2>3. by[k] \in Listener /\ at[k] = "write"
  BY <1>11 DEF Known, AppendWrite, TypeOK
<2>4. /\ connections'[by[k]] = seen[k] \cup {k}
      /\ \A m \in Listener \ {by[k]} : connections'[m] = connections[m]
  BY <1>11, <2>3 DEF AppendWrite, TypeOK
<2>5. ASSUME NEW j \in Conn, Settled(j)'
      PROVE  j \in connections'[by'[j]]
  <3>1. CASE j = k
    BY <2>1, <2>4, <3>1
  <3>2. CASE j # k /\ by[j] = by[k]
    BY <2>1, <2>3, <2>4, <2>5, <3>2 DEF Lasting
  <3>3. CASE j # k /\ by[j] # by[k]
    <4>1. by[j] \in Listener
      BY <2>1, <2>5, <3>3 DEF Settled, Recorded, TypeOK
    <4>2. QED
      BY <2>1, <2>4, <2>5, <3>3, <4>1 DEF Lasting
  <3>4. QED
    BY <3>1, <3>2, <3>3
<2>6. ASSUME NEW i \in Conn, NEW j \in Conn,
             at'[i] = "write", Settled(j)', by'[j] = by'[i]
      PROVE  j \in seen'[i]
  BY <2>1, <2>2, <2>3, <2>6 DEF Lasting
<2>7. QED
  BY <2>1, <2>2, <2>5, <2>6 DEF Lasting
<1>12. ASSUME NEW k \in Conn, InitClient(k) \/ PeerLeaves(k)
      PROVE  Lasting'
<2>1. /\ UNCHANGED <<connections, by, seen, overlapped>>
      /\ \A j \in Conn : j # k => at'[j] = at[j]
  BY <1>12 DEF TypeOK, InitClient, PeerLeaves, Admit, Refuse, NoConnect,
    SessionEnds, ConnStep, history
<2>2. at'[k] # "write" /\ (by[k] # Nil => Recorded(k))
  BY <1>12 DEF Recorded, TypeOK, Known, InitClient, PeerLeaves, Admit, Refuse,
    NoConnect, SessionEnds, ConnStep
<2>3. ASSUME NEW j \in Conn, Settled(j)'
      PROVE  Settled(j)
  BY <2>1, <2>2, <2>3 DEF Settled, Recorded
<2>4. QED
  BY <2>1, <2>2, <2>3 DEF Lasting, Settled, Recorded
<1>13. ASSUME NEW n \in Name, StopListener(n)
      PROVE  Lasting'
  BY <1>13 DEF Lasting, Settled, Recorded, TypeOK, StopListener, CallStep,
    registry, socket, serving, conn, call, history
<1>14. CASE Snapshot
  BY <1>14 DEF Lasting, Settled, Recorded, TypeOK, Snapshot, CallStep,
    registry, socket, serving, conn, call, history
<1>15. ASSUME NEW k \in Conn, CloseConn(k)
      PROVE  Lasting'
  BY <1>15 DEF Lasting, Settled, Recorded, TypeOK, CloseConn, CallStep,
    registry, socket, serving, conn, call, history
<1>16. CASE Delete
  BY <1>16 DEF Lasting, Settled, Recorded, TypeOK, Delete, Finished, CallStep,
    registry, socket, serving, conn, call, history
<1>17. CASE Stop
  BY <1>17 DEF Lasting, Settled, Recorded, TypeOK, Stop, Registered, CallStep,
    registry, socket, serving, conn, call, history
<1>18. CASE StopReturns
  BY <1>18 DEF Lasting, Settled, Recorded, TypeOK, StopReturns, WaitOver,
    CallStep, registry, socket, serving, conn, call, history
<1>19. QED
  BY <1>1, <1>2, <1>3, <1>4, <1>5, <1>6, <1>7, <1>8, <1>9, <1>10, <1>11, <1>12,
    <1>13, <1>14, <1>15, <1>16, <1>17, <1>18, HandlerServes DEF Next, Calls,
    AddListener, Loops, Accept, Appends

\* StopListener disconnects the clients it found.
LEMMA OwingStep ==
  ASSUME TypeOK, Known, Lasting, Owing, [Next]_vars
  PROVE  Owing'
<1>1. CASE UNCHANGED vars
  BY <1>1 DEF Owing, Recorded, TypeOK, Up, vars, registry, socket, serving,
    conn, call, history
<1>2. ASSUME NEW l \in Listener, NEW n \in Name, AddFails(l, n)
      PROVE  Owing'
  BY <1>2 DEF Owing, Recorded, TypeOK, Up, AddFails, Register, registry,
    socket, serving, conn, call, history
<1>3. ASSUME NEW l \in Listener, NEW n \in Name, AddTcp(l, n)
      PROVE  Owing'
  BY <1>3 DEF Owing, Recorded, TypeOK, Up, AddTcp, Register, Opens, registry,
    socket, serving, conn, call, history
<1>4. ASSUME NEW l \in Listener, NEW n \in Name, NEW p \in Path,
             AddWs(l, n, p)
      PROVE  Owing'
  BY <1>4 DEF Owing, Recorded, TypeOK, Up, AddWs, Register, Opens, registry,
    socket, serving, conn, call, history
<1>5. ASSUME NEW l \in Listener, NEW k \in Conn,
             Accept(l, k), AcceptTcp(l, k)
      PROVE  Owing'
  BY <1>5 DEF Owing, Recorded, TypeOK, Up, Accept, AcceptTcp, Known, registry,
    socket, serving, conn, call, history
<1>6. ASSUME NEW l \in Listener, NEW k \in Conn,
             Accept(l, k), AcceptWs(l, k)
      PROVE  Owing'
  BY <1>6 DEF Owing, Recorded, TypeOK, Up, Accept, AcceptWs, Known,
    registry, socket, serving, conn, call, history
<1>7. ASSUME NEW k \in Conn, NEW m \in Listener \cup {Nil},
             Request(k, m), Serves(m)
      PROVE  Owing'
  BY <1>7 DEF Owing, Recorded, TypeOK, Up, Request, Serves, Known,
    registry, socket, serving, conn, call, history
<1>8. ASSUME NEW l \in Listener, CloseSocket(l)
      PROVE  Owing'
  BY <1>8 DEF Owing, Recorded, TypeOK, Up, CloseSocket, registry, socket,
    serving, conn, call, history
<1>9. ASSUME NEW l \in Listener, LoopEnds(l)
      PROVE  Owing'
  BY <1>9 DEF Owing, Recorded, TypeOK, Up, LoopEnds, Done, registry, socket,
    serving, conn, call, history
<1>10. ASSUME NEW k \in Conn, AppendRead(k)
      PROVE  Owing'
  BY <1>10 DEF Owing, Recorded, TypeOK, Up, AppendRead, Beside, Appending,
    registry, socket, serving, conn, call, history
<1>11. ASSUME NEW k \in Conn, AppendWrite(k)
      PROVE  Owing'
  BY <1>11 DEF Owing, Recorded, TypeOK, Up, AppendWrite, registry, socket,
    serving, conn, call, history
<1>12. ASSUME NEW k \in Conn, InitClient(k) \/ PeerLeaves(k)
      PROVE  Owing'
  BY <1>12 DEF Owing, Recorded, TypeOK, Up, InitClient, PeerLeaves, Admit,
    Refuse, NoConnect, SessionEnds, ConnStep, registry, socket, serving, conn,
    call, history
<1>13. ASSUME NEW n \in Name, StopListener(n)
      PROVE  Owing'
<2>1. owed' \subseteq Held(target') /\ caller' = "range"
  BY <1>13 DEF StopListener, CallStep
<2>2. at' = at /\ by' = by
  BY <1>13 DEF StopListener, CallStep
<2>3. QED
  BY <2>1, <2>2 DEF Owing, Held, Recorded
<1>14. CASE Snapshot
<2>1. ASSUME NEW k \in owed, k \in alive, k \notin overlapped
      PROVE  k \in connections[target]
  <3>1. k \in Conn /\ Recorded(k) /\ by[k] = target
    BY <1>14, <2>1 DEF Owing, Snapshot, CallStep, TypeOK
  <3>2. QED
    BY <2>1, <3>1 DEF Lasting, Settled
<2>2. QED
  BY <1>14, <2>1 DEF Snapshot, CallStep, Owing, Recorded
<1>15. ASSUME NEW k \in Conn, CloseConn(k)
      PROVE  Owing'
  BY <1>15 DEF Owing, Recorded, TypeOK, Up, CloseConn, CallStep, registry,
    socket, serving, conn, call, history
<1>16. CASE Delete
  BY <1>16 DEF Owing, Recorded, TypeOK, Up, Delete, Finished, CallStep,
    registry, socket, serving, conn, call, history
<1>17. CASE Stop
  BY <1>17 DEF Owing, Recorded, TypeOK, Up, Stop, Registered, CallStep,
    registry, socket, serving, conn, call, history
<1>18. CASE StopReturns
  BY <1>18 DEF Owing, Recorded, TypeOK, Up, StopReturns, WaitOver, CallStep,
    registry, socket, serving, conn, call, history
<1>19. QED
  BY <1>1, <1>2, <1>3, <1>4, <1>5, <1>6, <1>7, <1>8, <1>9, <1>10, <1>11, <1>12,
    <1>13, <1>14, <1>15, <1>16, <1>17, <1>18, HandlerServes DEF Next, Calls,
    AddListener, Loops, Accept, Appends

-----------------------------------------------------------------------------
(* The theorems.                                                           *)

\* Nothing is added, accepted or owed at the start.
LEMMA InitInv == Init => Inv
<1>1. SUFFICES ASSUME Init
              PROVE  Inv
  OBVIOUS
<1>2. TypeOK
  BY <1>1 DEF Init, TypeOK
<1>3. Known /\ NoneAfterStop /\ OneAtATime /\ OnlyWs
  BY <1>1 DEF Init, Known, Added, NoneAfterStop, OneAtATime, Recording, OnlyWs
<1>4. WaitGroupCounts
  BY <1>1, FS_EmptySet DEF Init, WaitGroupCounts, Running
<1>5. Lasting /\ Owing
  BY <1>1 DEF Init, Lasting, Owing, Settled, Recorded
<1>6. QED
  BY <1>2, <1>3, <1>4, <1>5 DEF Inv

\* Every step preserves the invariant.
LEMMA InvStep == Inv /\ [Next]_vars => Inv'
<1>1. SUFFICES ASSUME Inv, [Next]_vars
              PROVE  Inv'
  OBVIOUS
<1>2. /\ TypeOK /\ Known /\ WaitGroupCounts /\ NoneAfterStop /\ OneAtATime
      /\ OnlyWs /\ Lasting /\ Owing
  BY <1>1 DEF Inv
<1>3. TypeOK' /\ Known' /\ WaitGroupCounts'
  BY <1>1, <1>2, TypeStep, KnownStep, CountsStep
<1>4. NoneAfterStop' /\ OneAtATime' /\ OnlyWs'
  BY <1>1, <1>2, NoneAfterStopStep, OneAtATimeStep, OnlyWsStep
<1>5. Lasting' /\ Owing'
  BY <1>1, <1>2, LastingStep, OwingStep
<1>6. QED
  BY <1>3, <1>4, <1>5 DEF Inv

\* The invariant holds in every state of every execution.
THEOREM Invariance == Spec => []Inv
BY InitInv, InvStep, PTL DEF Spec

\* The shape of the state, for any listeners, names, paths and connections
\* (server.go:24-29, 51-119).
THEOREM TypeCorrect == Spec => []TypeOK
<1>1. Inv => TypeOK
  BY DEF Inv
<1>2. QED
  BY Invariance, <1>1, PTL

\* listenersWaitGroup is the number of accepting goroutines (server.go:67-119).
THEOREM CountIsRight == Spec => []WaitGroupCounts
<1>1. Inv => WaitGroupCounts
  BY DEF Inv
<1>2. QED
  BY Invariance, <1>1, PTL

\* When Stop has returned nothing accepts connections (server.go:135-141).
THEOREM StopStopsAll == Spec => []NoneAfterStop
<1>1. Inv => NoneAfterStop
  BY DEF Inv
<1>2. QED
  BY Invariance, <1>1, PTL

\* StopListener disconnects every client it found recorded, but for those of a
\* WebSocket listener whose records overlapped (server.go:88, 115, 123-133).
THEOREM StopIsThorough == Spec => []StopDisconnects
<1>1. Inv => StopDisconnects
  BY DEF Inv, StopDisconnects, Owing, OnlyWs
<1>2. QED
  BY Invariance, <1>1, PTL
=============================================================================
