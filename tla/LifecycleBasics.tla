--------------------------- MODULE LifecycleBasics ---------------------------
(***************************************************************************)
(* Machine-checked proofs about Lifecycle, for every set of connections    *)
(* and identifiers, every queue depth and every kind of traffic. This      *)
(* module: types, the order of the goroutines, whose sessions are whose,   *)
(* and the count each WaitGroup keeps.                                     *)
(***************************************************************************)
EXTENDS LifecycleInv, FiniteSetTheorems, TLAPS

\* Every variable starts in its type.
LEMMA TypeInit == Init => TypeOK
<1> SUFFICES ASSUME Init PROVE TypeOK
  OBVIOUS
<1>1. cp \in [Conn -> [id : ClientId, clean : BOOLEAN, timed : BOOLEAN]]
  BY FlagAssumption DEF Init
<1>2. on \in [Goroutine -> Conn] /\ pc \in [Goroutine -> Label]
  BY DEF Init, Goroutine, Label
<1>3. prio \in [Conn -> 0 .. QDepth]
  BY QDepthAssumption DEF Init
<1> QED BY <1>1, <1>2, <1>3 DEF Init, TypeOK, Panics

\* Every step keeps every variable in its type.
LEMMA TypeNext == TypeOK /\ [Next]_vars => TypeOK'
<1> SUFFICES ASSUME TypeOK, [Next]_vars PROVE TypeOK'
  OBVIOUS
<1>1. CASE UNCHANGED vars
  BY <1>1 DEF vars, TypeOK, registry, flags, binding, session, queues, seen,
     fault
<1>2. ASSUME NEW k \in Conn, InitStep(k) PROVE TypeOK'
  <2>1. CASE InitTakeover(k)
    <3>1. takeOver' \in [Conn -> BOOLEAN]
      BY <2>1 DEF InitTakeover, TypeOK, Goto, flags
    <3>2. client' \in [Conn -> Conn]
      <4>1. clients[Id(k)] \in Conn
        BY <2>1 DEF Known, InitTakeover, TypeOK, Id
      <4> QED BY <2>1, <4>1 DEF InitTakeover, TypeOK
    <3>3. pc' \in [Goroutine -> Label]
      BY <2>1 DEF InitTakeover, TypeOK, Goto, Goroutine, Role, Label
    <3>4. UNCHANGED <<registry, state, clean, timed, cur, chan, session,
        queues, seen, fault, wg, on>>
      BY <2>1 DEF InitTakeover, Goto, flags, binding
    <3> QED BY <3>1, <3>2, <3>3, <3>4
      DEF TypeOK, registry, session, queues, seen, fault
  <2>2. CASE InitResume(k)
    <3>1. client' \in [Conn -> Conn]
      <4>1. clients[Id(k)] \in Conn
        BY <2>2 DEF Known, InitResume, Resumes, TypeOK, Id
      <4> QED BY <2>2, <4>1 DEF InitResume, Resumes, TypeOK
    <3>2. cur' \in [Conn -> Conn]
      BY <2>2 DEF InitResume, Resumes, TypeOK, binding
    <3>3. chan' \in [Conn -> Conn]
      BY <2>2 DEF InitResume, Resumes, TypeOK, binding
    <3>4. wg' \in [Conn -> Int]
      <4>1. clients[Id(k)] \in Conn
        BY <2>2 DEF Known, InitResume, Resumes, TypeOK, Id
      <4> QED BY <2>2, <4>1 DEF InitResume, Resumes, TypeOK
    <3>5. pc' \in [Goroutine -> Label]
      BY <2>2 DEF InitResume, Resumes, TypeOK, Goroutine, Role, Label
    <3>6. UNCHANGED <<registry, flags, session, queues, seen, fault, on>>
      BY <2>2 DEF InitResume, Resumes, binding
    <3> QED BY <3>1, <3>2, <3>3, <3>4, <3>5, <3>6
      DEF TypeOK, registry, flags, session, queues, seen, fault
  <2>3. CASE InitNew(k)
    <3>1. clients' \in [ClientId -> Conn \cup {Nil}]
      BY <2>3 DEF InitNew, TypeOK, registry
    <3>2. wg' \in [Conn -> Int]
      BY <2>3 DEF InitNew, TypeOK
    <3>3. pc' \in [Goroutine -> Label]
      BY <2>3 DEF InitNew, TypeOK, Goroutine, Role, Label
    <3>4. UNCHANGED <<cp, store, subs, flags, binding, session, queues, seen,
        fault, on>>
      BY <2>3 DEF InitNew, registry
    <3> QED BY <3>1, <3>2, <3>3, <3>4
      DEF TypeOK, flags, binding, session, queues, seen, fault
  <2>4. CASE TakeoverOnce(k)
    <3>1. stopped' \subseteq Conn
      BY <2>4 DEF TakeoverOnce, TypeOK, Goto, Crash, session
    <3>2. once' \in [Conn -> {"fresh", "running", "done"}]
      <4>1. cur[client[k]] \in Conn
        BY DEF TypeOK
      <4> QED BY <2>4, <4>1 DEF TakeoverOnce, TypeOK, Crash, session
    <3>3. panic' \in Panics
      BY <2>4 DEF TakeoverOnce, TypeOK, Goto, Crash, Panics, fault
    <3>4. victim' \in Conn \cup {Nil}
      BY <2>4 DEF TakeoverOnce, TypeOK, Goto, Crash, fault
    <3>5. pc' \in [Goroutine -> Label]
      BY <2>4 DEF TakeoverOnce, TypeOK, Goto, Crash, Goroutine, Role, Label
    <3>6. UNCHANGED <<registry, flags, binding, queues, seen, wg, on>>
      BY <2>4 DEF TakeoverOnce, Goto, Crash, session, fault
    <3> QED BY <3>1, <3>2, <3>3, <3>4, <3>5, <3>6
      DEF TypeOK, registry, flags, binding, queues, seen
  <2>5. CASE TakeoverDrain(k)
    BY <2>5 DEF TakeoverDrain, TypeOK, Goto, Goroutine, Role, Label, registry,
        flags, binding, session, queues, seen, fault
  <2>6. CASE TakeoverInstall(k)
    <3>1. cur' \in [Conn -> Conn]
      BY <2>6 DEF TakeoverInstall, TypeOK, binding
    <3>2. wg' \in [Conn -> Int]
      BY <2>6 DEF TakeoverInstall, TypeOK
    <3>3. pc' \in [Goroutine -> Label]
      BY <2>6 DEF TakeoverInstall, TypeOK, Goroutine, Role, Label
    <3>4. UNCHANGED <<registry, flags, client, chan, session, queues, seen,
        fault, on>>
      BY <2>6 DEF TakeoverInstall, binding
    <3> QED BY <3>1, <3>2, <3>3, <3>4
      DEF TypeOK, registry, flags, session, queues, seen, fault
  <2>7. CASE ServeWait(k)
    BY <2>7 DEF ServeWait, TypeOK, Goto, Goroutine, Role, Label, registry,
        flags, binding, session, queues, seen, fault
  <2>8. CASE ServeDone(k)
    BY <2>8 DEF ServeDone, TypeOK, Goto, Done, Goroutine, Role, Label,
        registry, flags, binding, session, queues, seen, fault
  <2> QED BY <1>2, <2>1, <2>2, <2>3, <2>4, <2>5, <2>6, <2>7, <2>8 DEF InitStep
<1>3. ASSUME NEW k \in Conn, StartStep(k) PROVE TypeOK'
  <2>1. CASE StartOpen(k)
    <3>1. store' \subseteq ClientId
      <4>1. Id(client[k]) \in ClientId
        BY DEF Id, TypeOK
      <4> QED BY <2>1, <4>1 DEF StartOpen, TypeOK
    <3>2. clean' \in [Conn -> BOOLEAN]
      BY <2>1 DEF StartOpen, TypeOK, Goto, flags
    <3>3. timed' \in [Conn -> BOOLEAN]
      BY <2>1 DEF StartOpen, TypeOK, Goto, flags
    <3>4. pc' \in [Goroutine -> Label]
      BY <2>1 DEF StartOpen, TypeOK, Goto, Goroutine, Role, Label
    <3>5. UNCHANGED <<cp, clients, subs, state, takeOver, binding, session,
        queues, seen, fault, wg, on>>
      BY <2>1 DEF StartOpen, Goto, registry, flags
    <3> QED BY <3>1, <3>2, <3>3, <3>4, <3>5
      DEF TypeOK, binding, session, queues, seen, fault
  <2>2. CASE StartReplay(k)
    <3>1. panic' \in Panics
      BY <2>2 DEF StartReplay, TypeOK, Crash, Panics, fault
    <3>2. victim' \in Conn \cup {Nil}
      BY <2>2 DEF StartReplay, TypeOK, Crash, fault
    <3>3. pc' \in [Goroutine -> Label]
      BY <2>2 DEF StartReplay, TypeOK, Goto, Crash, Goroutine, Role, Label
    <3>4. on' \in [Goroutine -> Conn]
      <4>1. chan[client[k]] \in Conn
        BY DEF TypeOK
      <4> QED BY <2>2, <4>1 DEF StartReplay, TypeOK, Crash
    <3>5. UNCHANGED <<registry, flags, binding, wg, session, queues, seen>>
      BY <2>2 DEF StartReplay, Crash
    <3> QED BY <3>1, <3>2, <3>3, <3>4, <3>5
      DEF TypeOK, registry, flags, binding, session, queues, seen
  <2>3. CASE StartSpawn(k)
    <3>1. wg' \in [Conn -> Int]
      BY <2>3 DEF StartSpawn, TypeOK
    <3>2. pc' \in [Goroutine -> Label]
      BY <2>3 DEF StartSpawn, TypeOK, Goroutine, Role, Label
    <3>3. UNCHANGED <<registry, flags, binding, session, queues, seen, fault,
        on>>
      BY <2>3 DEF StartSpawn
    <3> QED BY <3>1, <3>2, <3>3
      DEF TypeOK, registry, flags, binding, session, queues, seen, fault
  <2>4. CASE StartConnected(k)
    BY <2>4 DEF StartConnected, TypeOK, Goto, Goroutine, Role, Label, registry,
        flags, binding, session, queues, seen, fault
  <2>5. CASE StartTimer(k)
    <3>1. wg' \in [Conn -> Int]
      BY <2>5 DEF StartTimer, TypeOK, Goto
    <3>2. pc' \in [Goroutine -> Label]
      BY <2>5 DEF StartTimer, TypeOK, Goto, Goroutine, Role, Label
    <3>3. UNCHANGED <<registry, flags, binding, session, queues, seen, fault,
        on>>
      BY <2>5 DEF StartTimer, Goto
    <3> QED BY <3>1, <3>2, <3>3
      DEF TypeOK, registry, flags, binding, session, queues, seen, fault
  <2>6. CASE StartBlocked(k) \/ StartConnack(k)
    <3>1. panic' \in Panics
      BY <2>6 DEF StartBlocked, StartConnack, TypeOK, Crash, Panics, fault
    <3>2. victim' \in Conn \cup {Nil}
      BY <2>6 DEF StartBlocked, StartConnack, TypeOK, Crash, fault
    <3>3. pc' \in [Goroutine -> Label]
      BY <2>6 DEF StartBlocked, StartConnack, TypeOK, Goto, Crash, Goroutine,
         Role, Label
    <3>4. UNCHANGED <<registry, flags, binding, wg, session, queues, seen, on>>
      BY <2>6 DEF StartBlocked, StartConnack, Crash
    <3> QED BY <3>1, <3>2, <3>3, <3>4
      DEF TypeOK, registry, flags, binding, session, queues, seen
  <2> QED BY <1>3, <2>1, <2>2, <2>3, <2>4, <2>5, <2>6 DEF StartStep
<1>4. ASSUME NEW k \in Conn, RecvStep(k) PROVE TypeOK'
  <2>1. CASE RecvCheck(k)
    <3>1. wg' \in [Conn -> Int]
      BY <2>1 DEF RecvCheck, TypeOK, Goto, Done
    <3>2. pc' \in [Goroutine -> Label]
      BY <2>1 DEF RecvCheck, TypeOK, Goto, Done, Goroutine, Role, Label
    <3>3. on' \in [Goroutine -> Conn]
      <4>1. cur[client[k]] \in Conn
        BY DEF TypeOK
      <4>2. <<k, "recv">> \in Goroutine
        BY DEF Goroutine, Role
      <4> QED BY <2>1, <4>1, <4>2 DEF RecvCheck, TypeOK
    <3>4. UNCHANGED <<registry, flags, binding, session, queues, seen, fault>>
      BY <2>1 DEF RecvCheck, Goto, Done
    <3> QED BY <3>1, <3>2, <3>3, <3>4
      DEF TypeOK, registry, flags, binding, session, queues, seen, fault
  <2>2. CASE RecvFail(k)
    <3>1. wg' \in [Conn -> Int]
      BY <2>2 DEF RecvFail, TypeOK, Done
    <3>2. pc' \in [Goroutine -> Label]
      BY <2>2 DEF RecvFail, TypeOK, Done, Goroutine, Role, Label
    <3>3. UNCHANGED <<registry, flags, binding, session, queues, seen, fault,
        on>>
      BY <2>2 DEF RecvFail, Done
    <3> QED BY <3>1, <3>2, <3>3
      DEF TypeOK, registry, flags, binding, session, queues, seen, fault
  <2>3. CASE RecvDisconnect(k)
    <3>1. bye' \subseteq Conn
      BY <2>3 DEF RecvDisconnect, TypeOK, Done, seen
    <3>2. wg' \in [Conn -> Int]
      BY <2>3 DEF RecvDisconnect, TypeOK, Done
    <3>3. pc' \in [Goroutine -> Label]
      BY <2>3 DEF RecvDisconnect, TypeOK, Done, Goroutine, Role, Label
    <3>4. UNCHANGED <<registry, flags, binding, session, queues, wills, fault,
        on>>
      BY <2>3 DEF RecvDisconnect, Done, seen
    <3> QED BY <3>1, <3>2, <3>3, <3>4
      DEF TypeOK, registry, flags, binding, session, queues, fault
  <2>4. CASE RecvFlow(k)
    <3>1. prio' \in [Conn -> 0 .. QDepth]
      <4> DEFINE c == chan[client[k]]
      <4>1. c \in Conn
        BY DEF TypeOK, Goroutine, Role
      <4>2. CASE prio' = prio
        BY <4>2 DEF TypeOK
      <4>3. CASE prio[c] < QDepth /\ prio' = [prio EXCEPT ![c] = @ + 1]
        BY <4>1, <4>3, QDepthAssumption DEF TypeOK
      <4> QED BY <2>4, <4>1, <4>2, <4>3 DEF RecvFlow, Crash, queues, TypeOK
    <3>2. panic' \in Panics
      BY <2>4 DEF RecvFlow, TypeOK, Goto, Crash, Panics, fault
    <3>3. victim' \in Conn \cup {Nil}
      BY <2>4 DEF RecvFlow, TypeOK, Goto, Crash, fault
    <3>4. pc' \in [Goroutine -> Label]
      BY <2>4 DEF RecvFlow, TypeOK, Goto, Crash, Goroutine, Role, Label
    <3>5. UNCHANGED <<registry, flags, binding, session, chanClosed, sendChan,
        seen, wg, on>>
      BY <2>4 DEF RecvFlow, Goto, Crash, queues, fault
    <3> QED BY <3>1, <3>2, <3>3, <3>4, <3>5
      DEF TypeOK, registry, flags, binding, session, seen
  <2>5. CASE RecvRequest(k)
    <3>1. subs' \subseteq ClientId
      <4>1. Id(client[k]) \in ClientId
        BY DEF Id, TypeOK
      <4> QED BY <2>5, <4>1 DEF RecvRequest, TypeOK
    <3>2. pc' \in [Goroutine -> Label]
      BY <2>5 DEF RecvRequest, TypeOK, Goto, Goroutine, Role, Label
    <3>3. on' \in [Goroutine -> Conn]
      BY <2>5 DEF RecvRequest, TypeOK, Goto, Goroutine, Role
    <3>4. UNCHANGED <<cp, clients, store, flags, binding, session, queues,
        seen, fault, wg>>
      BY <2>5 DEF RecvRequest, Goto, registry
    <3> QED BY <3>1, <3>2, <3>3, <3>4
      DEF TypeOK, flags, binding, session, queues, seen, fault
  <2>6. CASE RecvReply(k)
    <3>1. prio' \in [Conn -> 0 .. QDepth]
      <4> DEFINE c == on[<<k, "recv">>]
      <4>1. c \in Conn
        BY DEF TypeOK, Goroutine, Role
      <4>2. CASE prio' = prio
        BY <4>2 DEF TypeOK
      <4>3. CASE prio[c] < QDepth /\ prio' = [prio EXCEPT ![c] = @ + 1]
        BY <4>1, <4>3, QDepthAssumption DEF TypeOK
      <4> QED BY <2>6, <4>1, <4>2, <4>3 DEF RecvReply, Crash, queues, TypeOK
    <3>2. panic' \in Panics
      BY <2>6 DEF RecvReply, TypeOK, Goto, Crash, Panics, fault
    <3>3. victim' \in Conn \cup {Nil}
      BY <2>6 DEF RecvReply, TypeOK, Goto, Crash, fault
    <3>4. pc' \in [Goroutine -> Label]
      BY <2>6 DEF RecvReply, TypeOK, Goto, Crash, Goroutine, Role, Label
    <3>5. UNCHANGED <<registry, flags, binding, session, chanClosed, sendChan,
        seen, wg, on>>
      BY <2>6 DEF RecvReply, Goto, Crash, queues, fault
    <3> QED BY <3>1, <3>2, <3>3, <3>4, <3>5
      DEF TypeOK, registry, flags, binding, session, seen
  <2>7. CASE RecvQuiet(k)
    BY <2>7 DEF RecvQuiet, TypeOK, Goto, Goroutine, Role, Label, registry,
        flags, binding, session, queues, seen, fault
  <2> QED BY <1>4, <2>1, <2>2, <2>3, <2>4, <2>5, <2>6, <2>7 DEF RecvStep
<1>5. ASSUME NEW k \in Conn, SendStep(k) PROVE TypeOK'
  <2>1. CASE SendEnter(k)
    BY <2>1 DEF SendEnter, TypeOK, Goto, Goroutine, Role, Label, registry,
        flags, binding, session, queues, seen, fault
  <2>2. CASE SendStop(k)
    BY <2>2 DEF SendStop, TypeOK, Goto, Done, Goroutine, Role, Label, registry,
        flags, binding, session, queues, seen, fault
  <2>3. CASE SendPacket(k)
    BY <2>3, QDepthAssumption DEF SendPacket, TypeOK, Goto, Goroutine, Role,
        Label, registry, flags, binding, session, queues, seen, fault
  <2> QED BY <1>5, <2>1, <2>2, <2>3 DEF SendStep
<1>6. ASSUME NEW k \in Conn, TimerStep(k) PROVE TypeOK'
  <2>1. CASE TimerEnter(k)
    BY <2>1 DEF TimerEnter, TypeOK, Goto, Goroutine, Role, Label, registry,
        flags, binding, session, queues, seen, fault
  <2>2. CASE TimerReset(k)
    BY <2>2 DEF TimerReset, TypeOK, Goto, Goroutine, Role, Label, registry,
        flags, binding, session, queues, seen, fault
  <2>3. CASE TimerExpire(k)
    <3>1. wg' \in [Conn -> Int]
      BY <2>3 DEF TimerExpire, TypeOK, Done
    <3>2. pc' \in [Goroutine -> Label]
      BY <2>3 DEF TimerExpire, TypeOK, Done, Goroutine, Role, Label
    <3>3. UNCHANGED <<registry, flags, binding, session, queues, seen, fault,
        on>>
      BY <2>3 DEF TimerExpire, Done
    <3> QED BY <3>1, <3>2, <3>3
      DEF TypeOK, registry, flags, binding, session, queues, seen, fault
  <2>4. CASE TimerStop(k)
    BY <2>4 DEF TimerStop, TypeOK, Goto, Done, Goroutine, Role, Label,
        registry, flags, binding, session, queues, seen, fault
  <2> QED BY <1>6, <2>1, <2>2, <2>3, <2>4 DEF TimerStep
<1>7. ASSUME NEW k \in Conn, Arrival(k) PROVE TypeOK'
  <2>1. CASE Connect(k)
    BY <2>1 DEF Connect, TypeOK, Goto, Goroutine, Role, Label, registry, flags,
        binding, session, queues, seen, fault
  <2>2. CASE Reject(k)
    BY <2>2 DEF Reject, TypeOK, Goto, Goroutine, Role, Label, registry, flags,
        binding, session, queues, seen, fault
  <2>3. CASE BadConnect(k)
    BY <2>3 DEF BadConnect, TypeOK, Crash, Goroutine, Role, Label, Panics,
        registry, flags, binding, session, queues, seen, fault
  <2> QED BY <1>7, <2>1, <2>2, <2>3 DEF Arrival
<1>8. ASSUME NEW k \in Conn, NEW w \in StopRole, StopStep(k, w) PROVE TypeOK'
  <2>1. CASE StopEntry(k, w)
    <3>1. panic' \in Panics
      BY <2>1 DEF StopEntry, TypeOK, Goto, Crash, Panics, fault
    <3>2. victim' \in Conn \cup {Nil}
      BY <2>1 DEF StopEntry, TypeOK, Goto, Crash, fault
    <3>3. pc' \in [Goroutine -> Label]
      BY <2>1 DEF StopEntry, TypeOK, Goto, Crash, Goroutine, Role, Label
    <3>4. UNCHANGED <<registry, flags, binding, session, queues, seen, wg, on>>
      BY <2>1 DEF StopEntry, Goto, Crash, fault
    <3> QED BY <3>1, <3>2, <3>3, <3>4
      DEF TypeOK, registry, flags, binding, session, queues, seen
  <2>2. CASE StopOnce(k, w)
    <3>1. once' \in [Conn -> {"fresh", "running", "done"}]
      <4>1. CASE once' = once
        BY <4>1 DEF TypeOK
      <4>2. CASE once' = [once EXCEPT ![cur[client[k]]] = "running"]
        BY <4>2 DEF TypeOK
      <4> QED BY <2>2, <4>1, <4>2 DEF StopOnce
    <3>2. pc' \in [Goroutine -> Label]
      BY <2>2 DEF StopOnce, TypeOK, Goto, Goroutine, Role, Label
    <3>3. on' \in [Goroutine -> Conn]
      <4>1. cur[client[k]] \in Conn
        BY DEF TypeOK
      <4>2. <<k, w>> \in Goroutine
        BY DEF Goroutine, Role, StopRole
      <4> QED BY <2>2, <4>1, <4>2 DEF StopOnce, TypeOK
    <3>4. UNCHANGED <<registry, flags, binding, stopped, queues, seen, fault,
        wg>>
      BY <2>2 DEF StopOnce, Goto, session
    <3> QED BY <3>1, <3>2, <3>3, <3>4
      DEF TypeOK, registry, flags, binding, queues, seen, fault
  <2>3. CASE StopClose(k, w)
    <3>1. stopped' \subseteq Conn
      BY <2>3 DEF StopClose, TypeOK, Goto, Crash, session
    <3>2. panic' \in Panics
      BY <2>3 DEF StopClose, TypeOK, Goto, Crash, Panics, fault
    <3>3. victim' \in Conn \cup {Nil}
      BY <2>3 DEF StopClose, TypeOK, Goto, Crash, fault
    <3>4. pc' \in [Goroutine -> Label]
      BY <2>3 DEF StopClose, TypeOK, Goto, Crash, Goroutine, Role, Label
    <3>5. UNCHANGED <<registry, flags, binding, once, queues, seen, wg, on>>
      BY <2>3 DEF StopClose, Goto, Crash, session, fault
    <3> QED BY <3>1, <3>2, <3>3, <3>4, <3>5
      DEF TypeOK, registry, flags, binding, queues, seen
  <2>4. CASE StopDrain(k, w)
    BY <2>4 DEF StopDrain, TypeOK, Goto, Goroutine, Role, Label, StopRole,
        registry, flags, binding, session, queues, seen, fault
  <2>5. CASE StopChannels(k, w)
    <3>1. once' \in [Conn -> {"fresh", "running", "done"}]
      BY <2>5 DEF StopChannels, TypeOK, Goto, Crash, session
    <3>2. chanClosed' \subseteq Conn
      BY <2>5 DEF StopChannels, TypeOK, Goto, Crash, queues
    <3>3. wills' \in [Conn -> Nat]
      <4>1. on[<<k, w>>] \in Conn
        BY DEF TypeOK, Goroutine, Role, StopRole
      <4>2. CASE wills' = wills
        BY <4>2 DEF TypeOK
      <4>3. CASE wills' = [wills EXCEPT ![on[<<k, w>>]] = @ + 1]
        BY <4>1, <4>3 DEF TypeOK
      <4> QED BY <2>5, <4>2, <4>3 DEF StopChannels, Crash, seen, TypeOK
    <3>4. panic' \in Panics
      BY <2>5 DEF StopChannels, TypeOK, Goto, Crash, Panics, fault
    <3>5. victim' \in Conn \cup {Nil}
      BY <2>5 DEF StopChannels, TypeOK, Goto, Crash, fault
    <3>6. pc' \in [Goroutine -> Label]
      BY <2>5 DEF StopChannels, TypeOK, Goto, Crash, Goroutine, Role, Label
    <3>7. UNCHANGED <<registry, flags, binding, stopped, prio, sendChan, bye,
        wg, on>>
      BY <2>5 DEF StopChannels, Goto, Crash, session, queues, seen, fault
    <3> QED BY <3>1, <3>2, <3>3, <3>4, <3>5, <3>6, <3>7
      DEF TypeOK, registry, flags, binding
  <2>6. CASE StopUnmap(k, w)
    BY <2>6 DEF StopUnmap, TypeOK, Goto, Goroutine, Role, Label, StopRole,
        registry, flags, binding, session, queues, seen, fault
  <2>7. CASE StopUnsubscribe(k, w)
    BY <2>7 DEF StopUnsubscribe, TypeOK, Goto, Goroutine, Role, Label,
        StopRole, registry, flags, binding, session, queues, seen, fault
  <2>8. CASE StopRelease(k, w)
    BY <2>8 DEF StopRelease, TypeOK, Goto, Goroutine, Role, Label, StopRole,
        registry, flags, binding, session, queues, seen, fault
  <2> QED BY <1>8, <2>1, <2>2, <2>3, <2>4, <2>5, <2>6, <2>7, <2>8 DEF StopStep
<1>9. ASSUME NEW k \in Conn, NEW o \in Conn, WaitReused(k, o) PROVE TypeOK'
  BY <1>9 DEF WaitReused, TypeOK, Crash, Panics, registry, flags, binding,
     session, queues, seen
<1> QED BY <1>1, <1>2, <1>3, <1>4, <1>5, <1>6, <1>7, <1>8, <1>9 DEF Next

-----------------------------------------------------------------------------

\* Every step keeps the order in which InitClient and Start begin a
\* connection's goroutines, and in which they end.
LEMMA OrderNext == TypeOK /\ Order /\ [Next]_vars => Order'
<1> SUFFICES ASSUME TypeOK, Order, [Next]_vars
             PROVE Order'
  OBVIOUS
<1>1. pc \in [Goroutine -> Label] /\ client \in [Conn -> Conn]
  BY DEF TypeOK
<1>a. CASE UNCHANGED vars
  BY <1>a, <1>1 DEF vars, Order, Holds, Goroutine, Role, registry, flags,
     binding, session, queues, seen, fault
<1>b. ASSUME NEW k \in Conn, InitStep(k) PROVE Order'
  <2>1. CASE InitTakeover(k)
    BY <2>1, <1>1 DEF InitTakeover, At, Goto, Order, Holds, Goroutine, Role,
       registry, session, queues, seen, fault
  <2>2. CASE InitResume(k)
    BY <2>2, <1>1 DEF InitResume, Resumes, At, Order, Holds, Goroutine, Role,
       registry,
       flags, session, queues, seen, fault
  <2>3. CASE InitNew(k)
    BY <2>3, <1>1 DEF InitNew, At, Order, Holds, Goroutine, Role, flags,
       binding, session, queues, seen, fault
  <2>4. CASE TakeoverOnce(k)
    <3>1. At(k, "init", "takeover") /\ UNCHANGED <<client>>
      BY <2>4 DEF TakeoverOnce, Crash, binding
    <3>2. CASE pc' = pc
      BY <3>1, <3>2, <1>1 DEF At, Order, Holds, Goroutine, Role
    <3>3. CASE Goto(k, "init", "drain")
      BY <3>1, <3>3, <1>1 DEF At, Goto, Order, Holds, Goroutine, Role
    <3>4. CASE Goto(k, "init", "reinstall")
      BY <3>1, <3>4, <1>1 DEF At, Goto, Order, Holds, Goroutine, Role
    <3> QED BY <2>4, <3>2, <3>3, <3>4 DEF TakeoverOnce, Crash
  <2>5. CASE TakeoverDrain(k)
    BY <2>5, <1>1 DEF TakeoverDrain, At, Goto, Order, Holds, Goroutine, Role,
       registry, flags, binding, queues, seen, fault
  <2>6. CASE TakeoverInstall(k)
    BY <2>6, <1>1 DEF TakeoverInstall, At, Order, Holds, Goroutine, Role,
       registry, flags, session, queues, seen, fault
  <2>7. CASE ServeWait(k)
    BY <2>7, <1>1 DEF ServeWait, At, Goto, Order, Holds, Goroutine, Role,
       registry, flags, binding, session, queues, seen, fault
  <2>8. CASE ServeDone(k)
    BY <2>8, <1>1 DEF ServeDone, At, Goto, Done, Order, Holds, Goroutine, Role,
       registry, flags, binding, session, queues, seen, fault
  <2> QED BY <1>b, <2>1, <2>2, <2>3, <2>4, <2>5, <2>6, <2>7, <2>8 DEF InitStep
<1>c. ASSUME NEW k \in Conn, StartStep(k) PROVE Order'
  <2>1. CASE StartOpen(k)
    <3>1. At(k, "start", "open") /\ UNCHANGED <<client>>
      BY <2>1 DEF StartOpen, binding
    <3>2. CASE Goto(k, "start", "connack")
      BY <3>1, <3>2, <1>1 DEF At, Goto, Order, Holds, Goroutine, Role
    <3>3. CASE Goto(k, "start", "replay")
      BY <3>1, <3>3, <1>1 DEF At, Goto, Order, Holds, Goroutine, Role
    <3> QED BY <2>1, <3>2, <3>3 DEF StartOpen
  <2>2. CASE StartReplay(k)
    <3>1. At(k, "start", "replay") /\ UNCHANGED <<client>>
      BY <2>2 DEF StartReplay, Crash, binding
    <3>2. CASE pc' = pc
      BY <3>1, <3>2, <1>1 DEF At, Order, Holds, Goroutine, Role
    <3>3. CASE Goto(k, "start", "connack")
      BY <3>1, <3>3, <1>1 DEF At, Goto, Order, Holds, Goroutine, Role
    <3>4. CASE Goto(k, "start", "blocked")
      BY <3>1, <3>4, <1>1 DEF At, Goto, Order, Holds, Goroutine, Role
    <3> QED BY <2>2, <3>2, <3>3, <3>4 DEF StartReplay, Crash
  <2>3. CASE StartSpawn(k)
    <3>1. At(k, "start", "spawn") /\ UNCHANGED <<client>>
      BY <2>3 DEF StartSpawn, binding
    <3>2. CASE pc' = [pc EXCEPT ![<<k, "start">>] = "state",
                               ![<<k, "recv">>] = "check",
                               ![<<k, "send">>] = "enter"]
      BY <3>1, <3>2, <1>1 DEF At, Order, Holds, Goroutine, Role
    <3> QED BY <2>3, <3>2 DEF StartSpawn
  <2>4. CASE StartConnected(k)
    BY <2>4, <1>1 DEF StartConnected, At, Goto, Order, Holds, Goroutine, Role,
       registry, binding, session, queues, seen, fault
  <2>5. CASE StartTimer(k)
    <3>1. At(k, "start", "timer") /\ UNCHANGED <<client>>
      BY <2>5 DEF StartTimer, binding
    <3>2. CASE pc' = [pc EXCEPT ![<<k, "start">>] = "done",
                               ![<<k, "timer">>] = "enter"]
      BY <3>1, <3>2, <1>1 DEF At, Order, Holds, Goroutine, Role
    <3>3. CASE Goto(k, "start", "done")
      BY <3>1, <3>3, <1>1 DEF At, Goto, Order, Holds, Goroutine, Role
    <3> QED BY <2>5, <3>2, <3>3 DEF StartTimer
  <2>6. CASE StartBlocked(k)
    <3>1. At(k, "start", "blocked") /\ UNCHANGED <<client>>
      BY <2>6 DEF StartBlocked, Crash, binding
    <3>2. CASE pc' = pc
      BY <3>1, <3>2, <1>1 DEF At, Order, Holds, Goroutine, Role
    <3>3. CASE Goto(k, "start", "connack")
      BY <3>1, <3>3, <1>1 DEF At, Goto, Order, Holds, Goroutine, Role
    <3> QED BY <2>6, <3>2, <3>3 DEF StartBlocked, Crash
  <2>7. CASE StartConnack(k)
    <3>1. At(k, "start", "connack") /\ UNCHANGED <<client>>
      BY <2>7 DEF StartConnack, Crash, binding
    <3>2. CASE pc' = pc
      BY <3>1, <3>2, <1>1 DEF At, Order, Holds, Goroutine, Role
    <3>3. CASE Goto(k, "start", "spawn")
      BY <3>1, <3>3, <1>1 DEF At, Goto, Order, Holds, Goroutine, Role
    <3> QED BY <2>7, <3>2, <3>3 DEF StartConnack, Crash
  <2> QED BY <1>c, <2>1, <2>2, <2>3, <2>4, <2>5, <2>6, <2>7 DEF StartStep
<1>d. ASSUME NEW k \in Conn, RecvStep(k) PROVE Order'
  <2>1. CASE RecvCheck(k)
    <3>1. At(k, "recv", "check") /\ UNCHANGED <<client>>
      BY <2>1 DEF RecvCheck, binding
    <3>2. CASE Goto(k, "recv", "done")
      BY <3>1, <3>2, <1>1 DEF At, Goto, Order, Holds, Goroutine, Role
    <3>3. CASE Goto(k, "recv", "read")
      BY <3>1, <3>3, <1>1 DEF At, Goto, Order, Holds, Goroutine, Role
    <3> QED BY <2>1, <3>2, <3>3 DEF RecvCheck
  <2>2. CASE RecvFail(k)
    BY <2>2, <1>1 DEF RecvFail, At, Done, Order, Holds, Goroutine, Role,
       registry, flags, binding, session, queues, seen, fault
  <2>3. CASE RecvDisconnect(k)
    BY <2>3, <1>1 DEF RecvDisconnect, At, Arrives, Done, Order, Holds,
       Goroutine, Role, registry, flags, binding, session, queues, fault
  <2>4. CASE RecvFlow(k)
    <3>1. At(k, "recv", "read") /\ UNCHANGED <<client>>
      BY <2>4 DEF RecvFlow, Arrives, Crash, binding
    <3>2. CASE pc' = pc
      BY <3>1, <3>2, <1>1 DEF At, Order, Holds, Goroutine, Role
    <3>3. CASE Goto(k, "recv", "check")
      BY <3>1, <3>3, <1>1 DEF At, Goto, Order, Holds, Goroutine, Role
    <3> QED BY <2>4, <3>2, <3>3 DEF RecvFlow, Arrives, Crash
  <2>5. CASE RecvRequest(k)
    BY <2>5, <1>1 DEF RecvRequest, At, Arrives, Goto, Order, Holds, Goroutine,
       Role, flags, binding, session, queues, seen, fault
  <2>6. CASE RecvReply(k)
    <3>1. At(k, "recv", "reply") /\ UNCHANGED <<client>>
      BY <2>6 DEF RecvReply, Crash, binding
    <3>2. CASE pc' = pc
      BY <3>1, <3>2, <1>1 DEF At, Order, Holds, Goroutine, Role
    <3>3. CASE Goto(k, "recv", "check")
      BY <3>1, <3>3, <1>1 DEF At, Goto, Order, Holds, Goroutine, Role
    <3> QED BY <2>6, <3>2, <3>3 DEF RecvReply, Crash
  <2>7. CASE RecvQuiet(k)
    BY <2>7, <1>1 DEF RecvQuiet, At, Arrives, Goto, Order, Holds, Goroutine,
       Role, registry, flags, binding, session, queues, seen, fault
  <2> QED BY <1>d, <2>1, <2>2, <2>3, <2>4, <2>5, <2>6, <2>7 DEF RecvStep
<1>e. ASSUME NEW k \in Conn, SendStep(k) PROVE Order'
  <2>1. CASE SendEnter(k)
    BY <2>1, <1>1 DEF SendEnter, At, Goto, Order, Holds, Goroutine, Role,
       registry, flags, binding, session, seen, fault
  <2>2. CASE SendStop(k)
    BY <2>2, <1>1 DEF SendStop, At, Goto, Done, Order, Holds, Goroutine, Role,
       registry, flags, binding, session, queues, seen, fault
  <2>3. CASE SendPacket(k)
    BY <2>3, <1>1 DEF SendPacket, At, Goto, Order, Holds, Goroutine, Role,
       registry, flags, binding, session, seen, fault
  <2> QED BY <1>e, <2>1, <2>2, <2>3 DEF SendStep
<1>f. ASSUME NEW k \in Conn, TimerStep(k) PROVE Order'
  <2>1. CASE TimerEnter(k)
    BY <2>1, <1>1 DEF TimerEnter, At, Goto, Order, Holds, Goroutine, Role,
       registry, flags, binding, session, queues, seen, fault
  <2>2. CASE TimerReset(k)
    BY <2>2, <1>1 DEF TimerReset, At, Goto, Order, Holds, Goroutine, Role,
       registry, flags, binding, session, queues, seen, fault
  <2>3. CASE TimerExpire(k)
    BY <2>3, <1>1 DEF TimerExpire, At, Done, Order, Holds, Goroutine, Role,
       registry, flags, binding, session, queues, seen, fault
  <2>4. CASE TimerStop(k)
    BY <2>4, <1>1 DEF TimerStop, At, Goto, Done, Order, Holds, Goroutine, Role,
       registry, flags, binding, session, queues, seen, fault
  <2> QED BY <1>f, <2>1, <2>2, <2>3, <2>4 DEF TimerStep
<1>g. ASSUME NEW k \in Conn, Arrival(k) PROVE Order'
  <2>1. CASE Connect(k)
    BY <2>1, <1>1 DEF Connect, At, Goto, Order, Holds, Goroutine, Role,
       registry, flags, binding, session, queues, seen, fault
  <2>2. CASE Reject(k)
    BY <2>2, <1>1 DEF Reject, At, Goto, Order, Holds, Goroutine, Role,
       registry, flags, binding, session, queues, seen, fault
  <2>3. CASE BadConnect(k)
    BY <2>3, <1>1 DEF BadConnect, At, Crash, Order, Holds, Goroutine, Role,
       registry, flags, binding, session, queues, seen
  <2> QED BY <1>g, <2>1, <2>2, <2>3 DEF Arrival
<1>h. ASSUME NEW k \in Conn, NEW w \in StopRole, StopStep(k, w) PROVE Order'
  <2>1. CASE StopEntry(k, w)
    <3>1. At(k, w, "entry") /\ UNCHANGED <<client>>
      BY <2>1 DEF StopEntry, Crash, binding
    <3>2. CASE pc' = pc
      BY <3>1, <3>2, <1>1 DEF At, Order, Holds, Goroutine, Role, StopRole
    <3>3. CASE Goto(k, w, "done")
      BY <3>1, <3>3, <1>1 DEF At, Goto, Order, Holds, Goroutine, Role, StopRole
    <3>4. CASE Goto(k, w, "once")
      BY <3>1, <3>4, <1>1 DEF At, Goto, Order, Holds, Goroutine, Role, StopRole
    <3> QED BY <2>1, <3>2, <3>3, <3>4 DEF StopEntry, Crash
  <2>2. CASE StopOnce(k, w)
    <3>1. At(k, w, "once") /\ UNCHANGED <<client>>
      BY <2>2 DEF StopOnce, binding
    <3>2. CASE Goto(k, w, "close")
      BY <3>1, <3>2, <1>1 DEF At, Goto, Order, Holds, Goroutine, Role, StopRole
    <3>3. CASE Goto(k, w, "done")
      BY <3>1, <3>3, <1>1 DEF At, Goto, Order, Holds, Goroutine, Role, StopRole
    <3> QED BY <2>2, <3>2, <3>3 DEF StopOnce
  <2>3. CASE StopClose(k, w)
    <3>1. At(k, w, "close") /\ UNCHANGED <<client>>
      BY <2>3 DEF StopClose, Crash, binding
    <3>2. CASE pc' = pc
      BY <3>1, <3>2, <1>1 DEF At, Order, Holds, Goroutine, Role, StopRole
    <3>3. CASE Goto(k, w, "drain")
      BY <3>1, <3>3, <1>1 DEF At, Goto, Order, Holds, Goroutine, Role, StopRole
    <3> QED BY <2>3, <3>2, <3>3 DEF StopClose, Crash
  <2>4. CASE StopDrain(k, w)
    BY <2>4, <1>1 DEF StopDrain, At, Goto, Order, Holds, Goroutine, Role,
       StopRole, registry, binding, session, queues, seen, fault
  <2>5. CASE StopChannels(k, w)
    <3>1. At(k, w, "channels") /\ UNCHANGED <<client>>
      BY <2>5 DEF StopChannels, Crash, binding
    <3>2. CASE pc' = pc
      BY <3>1, <3>2, <1>1 DEF At, Order, Holds, Goroutine, Role, StopRole
    <3>3. CASE Goto(k, w, "unmap")
      BY <3>1, <3>3, <1>1 DEF At, Goto, Order, Holds, Goroutine, Role, StopRole
    <3>4. CASE Goto(k, w, "done")
      BY <3>1, <3>4, <1>1 DEF At, Goto, Order, Holds, Goroutine, Role, StopRole
    <3> QED BY <2>5, <3>2, <3>3, <3>4 DEF StopChannels, Crash
  <2>6. CASE StopUnmap(k, w)
    BY <2>6, <1>1 DEF StopUnmap, At, Goto, Order, Holds, Goroutine, Role,
       StopRole, flags, binding, session, queues, seen, fault
  <2>7. CASE StopUnsubscribe(k, w)
    BY <2>7, <1>1 DEF StopUnsubscribe, At, Goto, Order, Holds, Goroutine, Role,
       StopRole, flags, binding, session, queues, seen, fault
  <2>8. CASE StopRelease(k, w)
    BY <2>8, <1>1 DEF StopRelease, At, Goto, Order, Holds, Goroutine, Role,
       StopRole, flags, binding, queues, seen, fault
  <2> QED BY <1>h, <2>1, <2>2, <2>3, <2>4, <2>5, <2>6, <2>7, <2>8 DEF StopStep
<1>i. ASSUME NEW k \in Conn, NEW o \in Conn, WaitReused(k, o)
      PROVE  Order'
  BY <1>i, <1>1 DEF WaitReused, Crash, Order, Holds, Goroutine, Role,
     registry, flags, binding, session, queues, seen
<1> QED BY <1>a, <1>b, <1>c, <1>d, <1>e, <1>f, <1>g, <1>h, <1>i DEF Next

-----------------------------------------------------------------------------

\* At most one InitClient is between Lock and Unlock.
LEMMA HolderNext == TypeOK /\ OneHolder /\ [Next]_vars => OneHolder'
<1> SUFFICES ASSUME TypeOK, OneHolder, [Next]_vars
             PROVE OneHolder'
  OBVIOUS
<1>1. pc \in [Goroutine -> Label]
  BY DEF TypeOK
<1>a. CASE UNCHANGED vars
  BY <1>a, <1>1 DEF vars, OneHolder, Holds, Goroutine, Role, registry, flags,
     binding, session, queues, seen, fault
<1>b. ASSUME NEW k \in Conn, InitStep(k) PROVE OneHolder'
  <2>1. CASE InitTakeover(k)
    BY <2>1, <1>1 DEF InitTakeover, At, Goto, OneHolder, Holds, Goroutine,
       Role, registry, session, queues, seen, fault, Locked
  <2>2. CASE InitResume(k)
    BY <2>2, <1>1 DEF InitResume, Resumes, At, OneHolder, Holds, Goroutine,
       Role,
       registry, flags, session, queues, seen, fault, Locked
  <2>3. CASE InitNew(k)
    BY <2>3, <1>1 DEF InitNew, At, OneHolder, Holds, Goroutine, Role, flags,
       binding, session, queues, seen, fault, Locked
  <2>4. CASE TakeoverOnce(k)
    <3>1. At(k, "init", "takeover") /\ UNCHANGED <<client>>
      BY <2>4 DEF TakeoverOnce, Crash, binding
    <3>2. CASE pc' = pc
      BY <3>1, <3>2, <1>1 DEF At, OneHolder, Holds, Goroutine, Role
    <3>3. CASE Goto(k, "init", "drain")
      BY <3>1, <3>3, <1>1 DEF At, Goto, OneHolder, Holds, Goroutine, Role
    <3>4. CASE Goto(k, "init", "reinstall")
      BY <3>1, <3>4, <1>1 DEF At, Goto, OneHolder, Holds, Goroutine, Role
    <3> QED BY <2>4, <3>2, <3>3, <3>4 DEF TakeoverOnce, Crash
  <2>5. CASE TakeoverDrain(k)
    BY <2>5, <1>1 DEF TakeoverDrain, At, Goto, OneHolder, Holds, Goroutine,
       Role, registry, flags, binding, queues, seen, fault
  <2>6. CASE TakeoverInstall(k)
    BY <2>6, <1>1 DEF TakeoverInstall, At, OneHolder, Holds, Goroutine, Role,
       registry, flags, session, queues, seen, fault
  <2>7. CASE ServeWait(k)
    BY <2>7, <1>1 DEF ServeWait, At, Goto, OneHolder, Holds, Goroutine, Role,
       registry, flags, binding, session, queues, seen, fault
  <2>8. CASE ServeDone(k)
    BY <2>8, <1>1 DEF ServeDone, At, Goto, Done, OneHolder, Holds, Goroutine,
       Role, registry, flags, binding, session, queues, seen, fault
  <2> QED BY <1>b, <2>1, <2>2, <2>3, <2>4, <2>5, <2>6, <2>7, <2>8 DEF InitStep
<1>c. ASSUME NEW k \in Conn, StartStep(k) PROVE OneHolder'
  <2>1. CASE StartOpen(k)
    <3>1. At(k, "start", "open") /\ UNCHANGED <<client>>
      BY <2>1 DEF StartOpen, binding
    <3>2. CASE Goto(k, "start", "connack")
      BY <3>1, <3>2, <1>1 DEF At, Goto, OneHolder, Holds, Goroutine, Role
    <3>3. CASE Goto(k, "start", "replay")
      BY <3>1, <3>3, <1>1 DEF At, Goto, OneHolder, Holds, Goroutine, Role
    <3> QED BY <2>1, <3>2, <3>3 DEF StartOpen
  <2>2. CASE StartReplay(k)
    <3>1. At(k, "start", "replay") /\ UNCHANGED <<client>>
      BY <2>2 DEF StartReplay, Crash, binding
    <3>2. CASE pc' = pc
      BY <3>1, <3>2, <1>1 DEF At, OneHolder, Holds, Goroutine, Role
    <3>3. CASE Goto(k, "start", "connack")
      BY <3>1, <3>3, <1>1 DEF At, Goto, OneHolder, Holds, Goroutine, Role
    <3>4. CASE Goto(k, "start", "blocked")
      BY <3>1, <3>4, <1>1 DEF At, Goto, OneHolder, Holds, Goroutine, Role
    <3> QED BY <2>2, <3>2, <3>3, <3>4 DEF StartReplay, Crash
  <2>3. CASE StartSpawn(k)
    <3>1. At(k, "start", "spawn") /\ UNCHANGED <<client>>
      BY <2>3 DEF StartSpawn, binding
    <3>2. CASE pc' = [pc EXCEPT ![<<k, "start">>] = "state",
                               ![<<k, "recv">>] = "check",
                               ![<<k, "send">>] = "enter"]
      BY <3>1, <3>2, <1>1 DEF At, OneHolder, Holds, Goroutine, Role
    <3> QED BY <2>3, <3>2 DEF StartSpawn
  <2>4. CASE StartConnected(k)
    BY <2>4, <1>1 DEF StartConnected, At, Goto, OneHolder, Holds, Goroutine,
       Role, registry, binding, session, queues, seen, fault
  <2>5. CASE StartTimer(k)
    <3>1. At(k, "start", "timer") /\ UNCHANGED <<client>>
      BY <2>5 DEF StartTimer, binding
    <3>2. CASE pc' = [pc EXCEPT ![<<k, "start">>] = "done",
                               ![<<k, "timer">>] = "enter"]
      BY <3>1, <3>2, <1>1 DEF At, OneHolder, Holds, Goroutine, Role
    <3>3. CASE Goto(k, "start", "done")
      BY <3>1, <3>3, <1>1 DEF At, Goto, OneHolder, Holds, Goroutine, Role
    <3> QED BY <2>5, <3>2, <3>3 DEF StartTimer
  <2>6. CASE StartBlocked(k)
    <3>1. At(k, "start", "blocked") /\ UNCHANGED <<client>>
      BY <2>6 DEF StartBlocked, Crash, binding
    <3>2. CASE pc' = pc
      BY <3>1, <3>2, <1>1 DEF At, OneHolder, Holds, Goroutine, Role
    <3>3. CASE Goto(k, "start", "connack")
      BY <3>1, <3>3, <1>1 DEF At, Goto, OneHolder, Holds, Goroutine, Role
    <3> QED BY <2>6, <3>2, <3>3 DEF StartBlocked, Crash
  <2>7. CASE StartConnack(k)
    <3>1. At(k, "start", "connack") /\ UNCHANGED <<client>>
      BY <2>7 DEF StartConnack, Crash, binding
    <3>2. CASE pc' = pc
      BY <3>1, <3>2, <1>1 DEF At, OneHolder, Holds, Goroutine, Role
    <3>3. CASE Goto(k, "start", "spawn")
      BY <3>1, <3>3, <1>1 DEF At, Goto, OneHolder, Holds, Goroutine, Role
    <3> QED BY <2>7, <3>2, <3>3 DEF StartConnack, Crash
  <2> QED BY <1>c, <2>1, <2>2, <2>3, <2>4, <2>5, <2>6, <2>7 DEF StartStep
<1>d. ASSUME NEW k \in Conn, RecvStep(k) PROVE OneHolder'
  <2>1. CASE RecvCheck(k)
    <3>1. At(k, "recv", "check") /\ UNCHANGED <<client>>
      BY <2>1 DEF RecvCheck, binding
    <3>2. CASE Goto(k, "recv", "done")
      BY <3>1, <3>2, <1>1 DEF At, Goto, OneHolder, Holds, Goroutine, Role
    <3>3. CASE Goto(k, "recv", "read")
      BY <3>1, <3>3, <1>1 DEF At, Goto, OneHolder, Holds, Goroutine, Role
    <3> QED BY <2>1, <3>2, <3>3 DEF RecvCheck
  <2>2. CASE RecvFail(k)
    BY <2>2, <1>1 DEF RecvFail, At, Done, OneHolder, Holds, Goroutine, Role,
       registry, flags, binding, session, queues, seen, fault
  <2>3. CASE RecvDisconnect(k)
    BY <2>3, <1>1 DEF RecvDisconnect, At, Arrives, Done, OneHolder, Holds,
       Goroutine, Role, registry, flags, binding, session, queues, fault
  <2>4. CASE RecvFlow(k)
    <3>1. At(k, "recv", "read") /\ UNCHANGED <<client>>
      BY <2>4 DEF RecvFlow, Arrives, Crash, binding
    <3>2. CASE pc' = pc
      BY <3>1, <3>2, <1>1 DEF At, OneHolder, Holds, Goroutine, Role
    <3>3. CASE Goto(k, "recv", "check")
      BY <3>1, <3>3, <1>1 DEF At, Goto, OneHolder, Holds, Goroutine, Role
    <3> QED BY <2>4, <3>2, <3>3 DEF RecvFlow, Arrives, Crash
  <2>5. CASE RecvRequest(k)
    BY <2>5, <1>1 DEF RecvRequest, At, Arrives, Goto, OneHolder, Holds,
       Goroutine, Role, flags, binding, session, queues, seen, fault
  <2>6. CASE RecvReply(k)
    <3>1. At(k, "recv", "reply") /\ UNCHANGED <<client>>
      BY <2>6 DEF RecvReply, Crash, binding
    <3>2. CASE pc' = pc
      BY <3>1, <3>2, <1>1 DEF At, OneHolder, Holds, Goroutine, Role
    <3>3. CASE Goto(k, "recv", "check")
      BY <3>1, <3>3, <1>1 DEF At, Goto, OneHolder, Holds, Goroutine, Role
    <3> QED BY <2>6, <3>2, <3>3 DEF RecvReply, Crash
  <2>7. CASE RecvQuiet(k)
    BY <2>7, <1>1 DEF RecvQuiet, At, Arrives, Goto, OneHolder, Holds,
       Goroutine, Role, registry, flags, binding, session, queues, seen, fault
  <2> QED BY <1>d, <2>1, <2>2, <2>3, <2>4, <2>5, <2>6, <2>7 DEF RecvStep
<1>e. ASSUME NEW k \in Conn, SendStep(k) PROVE OneHolder'
  <2>1. CASE SendEnter(k)
    BY <2>1, <1>1 DEF SendEnter, At, Goto, OneHolder, Holds, Goroutine, Role,
       registry, flags, binding, session, seen, fault
  <2>2. CASE SendStop(k)
    BY <2>2, <1>1 DEF SendStop, At, Goto, Done, OneHolder, Holds, Goroutine,
       Role, registry, flags, binding, session, queues, seen, fault
  <2>3. CASE SendPacket(k)
    BY <2>3, <1>1 DEF SendPacket, At, Goto, OneHolder, Holds, Goroutine, Role,
       registry, flags, binding, session, seen, fault
  <2> QED BY <1>e, <2>1, <2>2, <2>3 DEF SendStep
<1>f. ASSUME NEW k \in Conn, TimerStep(k) PROVE OneHolder'
  <2>1. CASE TimerEnter(k)
    BY <2>1, <1>1 DEF TimerEnter, At, Goto, OneHolder, Holds, Goroutine, Role,
       registry, flags, binding, session, queues, seen, fault
  <2>2. CASE TimerReset(k)
    BY <2>2, <1>1 DEF TimerReset, At, Goto, OneHolder, Holds, Goroutine, Role,
       registry, flags, binding, session, queues, seen, fault
  <2>3. CASE TimerExpire(k)
    BY <2>3, <1>1 DEF TimerExpire, At, Done, OneHolder, Holds, Goroutine, Role,
       registry, flags, binding, session, queues, seen, fault
  <2>4. CASE TimerStop(k)
    BY <2>4, <1>1 DEF TimerStop, At, Goto, Done, OneHolder, Holds, Goroutine,
       Role, registry, flags, binding, session, queues, seen, fault
  <2> QED BY <1>f, <2>1, <2>2, <2>3, <2>4 DEF TimerStep
<1>g. ASSUME NEW k \in Conn, Arrival(k) PROVE OneHolder'
  <2>1. CASE Connect(k)
    BY <2>1, <1>1 DEF Connect, At, Goto, OneHolder, Holds, Goroutine, Role,
       registry, flags, binding, session, queues, seen, fault
  <2>2. CASE Reject(k)
    BY <2>2, <1>1 DEF Reject, At, Goto, OneHolder, Holds, Goroutine, Role,
       registry, flags, binding, session, queues, seen, fault
  <2>3. CASE BadConnect(k)
    BY <2>3, <1>1 DEF BadConnect, At, Crash, OneHolder, Holds, Goroutine, Role,
       registry, flags, binding, session, queues, seen
  <2> QED BY <1>g, <2>1, <2>2, <2>3 DEF Arrival
<1>h. ASSUME NEW k \in Conn, NEW w \in StopRole, StopStep(k, w)
      PROVE  OneHolder'
  <2>1. CASE StopEntry(k, w)
    <3>1. At(k, w, "entry") /\ UNCHANGED <<client>>
      BY <2>1 DEF StopEntry, Crash, binding
    <3>2. CASE pc' = pc
      BY <3>1, <3>2, <1>1 DEF At, OneHolder, Holds, Goroutine, Role, StopRole
    <3>3. CASE Goto(k, w, "done")
      BY <3>1, <3>3, <1>1 DEF At, Goto, OneHolder, Holds, Goroutine, Role,
         StopRole
    <3>4. CASE Goto(k, w, "once")
      BY <3>1, <3>4, <1>1 DEF At, Goto, OneHolder, Holds, Goroutine, Role,
         StopRole
    <3> QED BY <2>1, <3>2, <3>3, <3>4 DEF StopEntry, Crash
  <2>2. CASE StopOnce(k, w)
    <3>1. At(k, w, "once") /\ UNCHANGED <<client>>
      BY <2>2 DEF StopOnce, binding
    <3>2. CASE Goto(k, w, "close")
      BY <3>1, <3>2, <1>1 DEF At, Goto, OneHolder, Holds, Goroutine, Role,
         StopRole
    <3>3. CASE Goto(k, w, "done")
      BY <3>1, <3>3, <1>1 DEF At, Goto, OneHolder, Holds, Goroutine, Role,
         StopRole
    <3> QED BY <2>2, <3>2, <3>3 DEF StopOnce
  <2>3. CASE StopClose(k, w)
    <3>1. At(k, w, "close") /\ UNCHANGED <<client>>
      BY <2>3 DEF StopClose, Crash, binding
    <3>2. CASE pc' = pc
      BY <3>1, <3>2, <1>1 DEF At, OneHolder, Holds, Goroutine, Role, StopRole
    <3>3. CASE Goto(k, w, "drain")
      BY <3>1, <3>3, <1>1 DEF At, Goto, OneHolder, Holds, Goroutine, Role,
         StopRole
    <3> QED BY <2>3, <3>2, <3>3 DEF StopClose, Crash
  <2>4. CASE StopDrain(k, w)
    BY <2>4, <1>1 DEF StopDrain, At, Goto, OneHolder, Holds, Goroutine, Role,
       StopRole, registry, binding, session, queues, seen, fault
  <2>5. CASE StopChannels(k, w)
    <3>1. At(k, w, "channels") /\ UNCHANGED <<client>>
      BY <2>5 DEF StopChannels, Crash, binding
    <3>2. CASE pc' = pc
      BY <3>1, <3>2, <1>1 DEF At, OneHolder, Holds, Goroutine, Role, StopRole
    <3>3. CASE Goto(k, w, "unmap")
      BY <3>1, <3>3, <1>1 DEF At, Goto, OneHolder, Holds, Goroutine, Role,
         StopRole
    <3>4. CASE Goto(k, w, "done")
      BY <3>1, <3>4, <1>1 DEF At, Goto, OneHolder, Holds, Goroutine, Role,
         StopRole
    <3> QED BY <2>5, <3>2, <3>3, <3>4 DEF StopChannels, Crash
  <2>6. CASE StopUnmap(k, w)
    BY <2>6, <1>1 DEF StopUnmap, At, Goto, OneHolder, Holds, Goroutine, Role,
       StopRole, flags, binding, session, queues, seen, fault
  <2>7. CASE StopUnsubscribe(k, w)
    BY <2>7, <1>1 DEF StopUnsubscribe, At, Goto, OneHolder, Holds, Goroutine,
       Role,
       StopRole, flags, binding, session, queues, seen, fault
  <2>8. CASE StopRelease(k, w)
    BY <2>8, <1>1 DEF StopRelease, At, Goto, OneHolder, Holds, Goroutine, Role,
       StopRole, flags, binding, queues, seen, fault
  <2> QED BY <1>h, <2>1, <2>2, <2>3, <2>4, <2>5, <2>6, <2>7, <2>8 DEF StopStep
<1>i. ASSUME NEW k \in Conn, NEW o \in Conn, WaitReused(k, o)
      PROVE  OneHolder'
  BY <1>i, <1>1 DEF WaitReused, Crash, OneHolder, Holds, Goroutine, Role,
     registry, flags, binding, session, queues, seen
<1> QED BY <1>a, <1>b, <1>c, <1>d, <1>e, <1>f, <1>g, <1>h, <1>i DEF Next

\* The object a connection runs on runs on itself, and its fields name
\* sessions and channels made for it.
LEMMA OwnSessions ==
  ASSUME TypeOK, Owned, NEW k \in Conn
  PROVE /\ client[client[k]] = client[k]
        /\ client[cur[client[k]]] = client[k]
        /\ client[chan[client[k]]] = client[k]
<1>1. client[client[k]] = client[k]
  BY DEF Owned, Created, TypeOK
<1> QED BY <1>1 DEF Owned, TypeOK

\* Every step keeps the objects, the sessions in their fields and the sessions
\* their goroutines read from them together.
LEMMA OwnedNext == TypeOK /\ Order /\ Owned /\ [Next]_vars => Owned'
<1> SUFFICES ASSUME TypeOK, Order, Owned, [Next]_vars
             PROVE Owned'
  OBVIOUS
<1>1. /\ pc \in [Goroutine -> Label] /\ client \in [Conn -> Conn]
      /\ cur \in [Conn -> Conn] /\ chan \in [Conn -> Conn]
      /\ on \in [Goroutine -> Conn]
      /\ clients \in [ClientId -> Conn \cup {Nil}]
  BY DEF TypeOK
<1>2. ASSUME NEW k \in Conn, NEW r \in Role, NEW s,
             on' = [on EXCEPT ![<<k, r>>] = s], client[s] = client[k],
             client' = client
      PROVE \A g \in Goroutine : client'[on'[g]] = client'[g[1]]
  BY <1>1, <1>2 DEF Owned, Goroutine
<1>3. ASSUME clients' = clients, client' = client, cur' = cur, chan' = chan,
             \A j \in Conn : pc'[<<j, "init">>] = pc[<<j, "init">>],
             \A g \in Goroutine : client'[on'[g]] = client'[g[1]]
      PROVE Owned'
  BY <1>1, <1>3 DEF Owned, Created, Holds
<1>a. CASE UNCHANGED vars
  BY <1>a, <1>1, ConnAssumption DEF vars, Owned, Created, Holds, Goroutine,
     Role, registry, flags, binding, session, queues, seen, fault
<1>b. ASSUME NEW k \in Conn, InitStep(k) PROVE Owned'
  <2>1. CASE InitTakeover(k)
    <3> DEFINE o == clients[Id(k)]
    <3>1. client[k] = k /\ pc[<<k, "init">>] = "lock"
      BY <2>1 DEF InitTakeover, At, Order
    <3>a. Id(k) \in ClientId /\ o # Nil
      BY <2>1 DEF InitTakeover, Known, TypeOK, Id
    <3>b. o \in Conn /\ Created(o)
      BY <1>1, <3>a DEF Owned
    <3>2. o \in Conn /\ o # k /\ Created(o)
      BY <3>1, <3>b DEF Created
    <3>3. \A j \in Conn \ {k} : client[j] # k
      BY <1>1, <3>1 DEF Owned, Created
    <3>4. client' = [client EXCEPT ![k] = o] /\ clients' = clients /\ on' = on
      BY <2>1 DEF InitTakeover, registry
    <3>5. cur' = cur /\ chan' = chan /\ Goto(k, "init", "takeover")
      BY <2>1 DEF InitTakeover
    <3>6. \A g \in Goroutine : client'[on'[g]] = client'[g[1]]
      BY <1>1, <3>1, <3>2, <3>3, <3>4 DEF Owned, Goroutine
    <3> HIDE DEF o
    <3>7. \A j \in Conn : Created(j) => Created(j)'
      BY <1>1, <3>1, <3>4, <3>5 DEF Created, Goto, Goroutine, Role
    <3>8. (\A id \in ClientId : clients[id] # Nil => Created(clients[id]))'
      BY <1>1, <3>4, <3>7 DEF Owned
    <3>9. (\A j \in Conn : client[j] # j => Created(client[j]))'
      BY <1>1, <3>2, <3>4, <3>7 DEF Owned
    <3>10. \A j \in Conn : Holds(j)' => client'[j] # j
      BY <1>1, <3>2, <3>4, <3>5 DEF Owned, Holds, Goto, Goroutine, Role
    <3>11. \A j \in Conn :
             client'[j] = j => client'[cur'[j]] = j /\ client'[chan'[j]] = j
      BY <1>1, <3>1, <3>2, <3>3, <3>4, <3>5 DEF Owned
    <3> QED BY <3>6, <3>8, <3>9, <3>10, <3>11 DEF Owned
  <2>2. CASE InitResume(k)
    <3> DEFINE o == clients[Id(k)]
    <3>1. client[k] = k /\ pc[<<k, "init">>] = "lock"
      BY <2>2 DEF InitResume, Resumes, At, Order
    <3>a. Id(k) \in ClientId /\ o # Nil
      BY <2>2 DEF InitResume, Resumes, Known, TypeOK, Id
    <3>b. o \in Conn /\ Created(o)
      BY <1>1, <3>a DEF Owned
    <3>2. o \in Conn /\ o # k /\ Created(o)
      BY <3>1, <3>b DEF Created
    <3>3. \A j \in Conn \ {k} : client[j] # k
      BY <1>1, <3>1 DEF Owned, Created
    <3>4. client' = [client EXCEPT ![k] = o] /\ clients' = clients /\ on' = on
      BY <2>2 DEF InitResume, Resumes, registry
    <3>5. /\ cur' = [cur EXCEPT ![o] = k] /\ chan' = [chan EXCEPT ![o] = k]
          /\ pc' = [pc EXCEPT ![<<k, "init">>] = "serve",
                              ![<<k, "start">>] = "open"]
      BY <2>2 DEF InitResume, Resumes
    <3>6. \A g \in Goroutine : client'[on'[g]] = client'[g[1]]
      BY <1>1, <3>1, <3>2, <3>3, <3>4 DEF Owned, Goroutine
    <3> HIDE DEF o
    <3>7. \A j \in Conn : Created(j) => Created(j)'
      BY <1>1, <3>1, <3>4, <3>5 DEF Created, Goroutine, Role
    <3>8. (\A id \in ClientId : clients[id] # Nil => Created(clients[id]))'
      BY <1>1, <3>4, <3>7 DEF Owned
    <3>9. (\A j \in Conn : client[j] # j => Created(client[j]))'
      BY <1>1, <3>2, <3>4, <3>7 DEF Owned
    <3>10. \A j \in Conn : Holds(j)' => client'[j] # j
      BY <1>1, <3>2, <3>4, <3>5 DEF Owned, Holds, Goroutine, Role
    <3>11. \A j \in Conn :
             client'[j] = j => client'[cur'[j]] = j /\ client'[chan'[j]] = j
      BY <1>1, <3>1, <3>2, <3>3, <3>4, <3>5 DEF Owned
    <3> QED BY <3>6, <3>8, <3>9, <3>10, <3>11 DEF Owned
  <2>3. CASE InitNew(k)
    <3>1. client[k] = k /\ pc[<<k, "init">>] = "lock"
      BY <2>3 DEF InitNew, At, Order
    <3>2. clients' = [clients EXCEPT ![Id(k)] = k]
      BY <2>3 DEF InitNew
    <3>3. UNCHANGED <<client, cur, chan, on>>
      BY <2>3 DEF InitNew, binding
    <3>4. pc' = [pc EXCEPT ![<<k, "init">>] = "serve",
                          ![<<k, "start">>] = "open"]
      BY <2>3 DEF InitNew
    <3>5. \A j \in Conn : Created(j) => Created(j)'
      BY <1>1, <3>1, <3>3, <3>4 DEF Created, Goroutine, Role
    <3>6. Created(k)'
      BY <1>1, <3>1, <3>3, <3>4 DEF Created, Goroutine, Role
    <3>7. (\A id \in ClientId : clients[id] # Nil => Created(clients[id]))'
      BY <1>1, <3>2, <3>5, <3>6 DEF Owned
    <3>8. (\A j \in Conn : client[j] # j => Created(client[j]))'
      BY <1>1, <3>3, <3>5 DEF Owned
    <3>9. \A j \in Conn : Holds(j)' => client'[j] # j
      BY <1>1, <3>3, <3>4 DEF Owned, Holds, Goroutine, Role
    <3> QED BY <3>3, <3>7, <3>8, <3>9 DEF Owned
  <2>4. CASE TakeoverOnce(k)
    <3>1. /\ At(k, "init", "takeover")
          /\ UNCHANGED <<clients, client, cur, chan, on>>
      BY <2>4 DEF TakeoverOnce, Crash, registry, binding
    <3>2. CASE pc' = pc
      BY <3>1, <3>2, <1>1 DEF At, Owned, Created, Holds, Goroutine, Role
    <3>3. CASE Goto(k, "init", "drain")
      BY <3>1, <3>3, <1>1 DEF At, Goto, Owned, Created, Holds, Goroutine, Role
    <3>4. CASE Goto(k, "init", "reinstall")
      BY <3>1, <3>4, <1>1 DEF At, Goto, Owned, Created, Holds, Goroutine, Role
    <3> QED BY <2>4, <3>2, <3>3, <3>4 DEF TakeoverOnce, Crash
  <2>5. CASE TakeoverDrain(k)
    BY <2>5, <1>1, ConnAssumption DEF TakeoverDrain, At, Goto, Owned, Created,
       Holds, Goroutine, Role, registry, flags, binding, queues, seen, fault
  <2>6. CASE TakeoverInstall(k)
    BY <2>6, <1>1, ConnAssumption DEF TakeoverInstall, At, Owned, Created,
       Holds, Goroutine, Role, registry, flags, session, queues, seen, fault
  <2>7. CASE ServeWait(k)
    <3>1. client[cur[client[k]]] = client[k]
      BY OwnSessions
    <3>2. on' = [on EXCEPT ![<<k, "init">>] = cur[client[k]]]
      BY <2>7 DEF ServeWait
    <3>3. UNCHANGED <<clients, client, cur, chan>>
      BY <2>7 DEF ServeWait, registry, binding
    <3>4. \A g \in Goroutine : client'[on'[g]] = client'[g[1]]
      BY <1>2, <3>1, <3>2, <3>3 DEF Role
    <3> QED BY <2>7, <1>1, <3>3, <3>4
      DEF ServeWait, At, Goto, Owned, Created, Holds, Goroutine, Role
  <2>8. CASE ServeDone(k)
    BY <2>8, <1>1, ConnAssumption DEF ServeDone, At, Goto, Done, Owned,
       Created, Holds, Goroutine, Role, registry, flags, binding, session,
       queues, seen, fault
  <2> QED BY <1>b, <2>1, <2>2, <2>3, <2>4, <2>5, <2>6, <2>7, <2>8 DEF InitStep
<1>c. ASSUME NEW k \in Conn, StartStep(k) PROVE Owned'
  <2>1. CASE StartOpen(k)
    <3>1. /\ At(k, "start", "open")
          /\ UNCHANGED <<clients, client, cur, chan, on>>
      BY <2>1 DEF StartOpen, registry, binding
    <3>2. CASE Goto(k, "start", "connack")
      BY <3>1, <3>2, <1>1 DEF At, Goto, Owned, Created, Holds, Goroutine, Role
    <3>3. CASE Goto(k, "start", "replay")
      BY <3>1, <3>3, <1>1 DEF At, Goto, Owned, Created, Holds, Goroutine, Role
    <3> QED BY <2>1, <3>2, <3>3 DEF StartOpen
  <2>2. CASE StartReplay(k)
    <3>1. client[chan[client[k]]] = client[k] /\ chan[client[k]] \in Conn
      BY <1>1, OwnSessions
    <3>2. on' = on \/ on' = [on EXCEPT ![<<k, "start">>] = chan[client[k]]]
      BY <2>2 DEF StartReplay, Crash
    <3>3. UNCHANGED <<clients, client, cur, chan>>
      BY <2>2 DEF StartReplay, Crash, registry, binding
    <3>4. \A j \in Conn : pc'[<<j, "init">>] = pc[<<j, "init">>]
      BY <2>2, <1>1 DEF StartReplay, Goto, Crash, Goroutine, Role
    <3>5. \A g \in Goroutine : client'[on'[g]] = client'[g[1]]
      <4>1. CASE on' = on
        BY <3>3, <4>1 DEF Owned
      <4>2. CASE on' = [on EXCEPT ![<<k, "start">>] = chan[client[k]]]
        BY <1>2, <3>1, <3>3, <4>2 DEF Role
      <4> QED BY <3>2, <4>1, <4>2
    <3> QED BY <1>3, <3>3, <3>4, <3>5
  <2>3. CASE StartSpawn(k)
    <3>1. /\ At(k, "start", "spawn")
          /\ UNCHANGED <<clients, client, cur, chan, on>>
      BY <2>3 DEF StartSpawn, registry, binding
    <3>2. CASE pc' = [pc EXCEPT ![<<k, "start">>] = "state",
                               ![<<k, "recv">>] = "check",
                               ![<<k, "send">>] = "enter"]
      BY <3>1, <3>2, <1>1 DEF At, Owned, Created, Holds, Goroutine, Role
    <3> QED BY <2>3, <3>2 DEF StartSpawn
  <2>4. CASE StartConnected(k)
    BY <2>4, <1>1, ConnAssumption DEF StartConnected, At, Goto, Owned, Created,
       Holds, Goroutine, Role, registry, binding, session, queues, seen, fault
  <2>5. CASE StartTimer(k)
    <3>1. /\ At(k, "start", "timer")
          /\ UNCHANGED <<clients, client, cur, chan, on>>
      BY <2>5 DEF StartTimer, registry, binding
    <3>2. CASE pc' = [pc EXCEPT ![<<k, "start">>] = "done",
                               ![<<k, "timer">>] = "enter"]
      BY <3>1, <3>2, <1>1 DEF At, Owned, Created, Holds, Goroutine, Role
    <3>3. CASE Goto(k, "start", "done")
      BY <3>1, <3>3, <1>1 DEF At, Goto, Owned, Created, Holds, Goroutine, Role
    <3> QED BY <2>5, <3>2, <3>3 DEF StartTimer
  <2>6. CASE StartBlocked(k)
    <3>1. /\ At(k, "start", "blocked")
          /\ UNCHANGED <<clients, client, cur, chan, on>>
      BY <2>6 DEF StartBlocked, Crash, registry, binding
    <3>2. CASE pc' = pc
      BY <3>1, <3>2, <1>1 DEF At, Owned, Created, Holds, Goroutine, Role
    <3>3. CASE Goto(k, "start", "connack")
      BY <3>1, <3>3, <1>1 DEF At, Goto, Owned, Created, Holds, Goroutine, Role
    <3> QED BY <2>6, <3>2, <3>3 DEF StartBlocked, Crash
  <2>7. CASE StartConnack(k)
    <3>1. /\ At(k, "start", "connack")
          /\ UNCHANGED <<clients, client, cur, chan, on>>
      BY <2>7 DEF StartConnack, Crash, registry, binding
    <3>2. CASE pc' = pc
      BY <3>1, <3>2, <1>1 DEF At, Owned, Created, Holds, Goroutine, Role
    <3>3. CASE Goto(k, "start", "spawn")
      BY <3>1, <3>3, <1>1 DEF At, Goto, Owned, Created, Holds, Goroutine, Role
    <3> QED BY <2>7, <3>2, <3>3 DEF StartConnack, Crash
  <2> QED BY <1>c, <2>1, <2>2, <2>3, <2>4, <2>5, <2>6, <2>7 DEF StartStep
<1>d. ASSUME NEW k \in Conn, RecvStep(k) PROVE Owned'
  <2>1. CASE RecvCheck(k)
    <3>1. client[cur[client[k]]] = client[k]
      BY OwnSessions
    <3>2. on' = on \/ on' = [on EXCEPT ![<<k, "recv">>] = cur[client[k]]]
      BY <2>1 DEF RecvCheck
    <3>3. UNCHANGED <<clients, client, cur, chan>>
      BY <2>1 DEF RecvCheck, registry, binding
    <3>4. \A j \in Conn : pc'[<<j, "init">>] = pc[<<j, "init">>]
      BY <2>1, <1>1 DEF RecvCheck, Goto, Goroutine, Role
    <3>5. \A g \in Goroutine : client'[on'[g]] = client'[g[1]]
      <4>1. CASE on' = on
        BY <3>3, <4>1 DEF Owned
      <4>2. CASE on' = [on EXCEPT ![<<k, "recv">>] = cur[client[k]]]
        BY <1>2, <3>1, <3>3, <4>2 DEF Role
      <4> QED BY <3>2, <4>1, <4>2
    <3> QED BY <1>3, <3>3, <3>4, <3>5
  <2>2. CASE RecvFail(k)
    BY <2>2, <1>1, ConnAssumption DEF RecvFail, At, Done, Owned, Created,
       Holds, Goroutine, Role, registry, flags, binding, session, queues, seen,
       fault
  <2>3. CASE RecvDisconnect(k)
    BY <2>3, <1>1, ConnAssumption DEF RecvDisconnect, At, Arrives, Done, Owned,
       Created, Holds, Goroutine, Role, registry, flags, binding, session,
       queues, fault
  <2>4. CASE RecvFlow(k)
    <3>1. At(k, "recv", "read") /\ UNCHANGED <<clients, client, cur, chan, on>>
      BY <2>4 DEF RecvFlow, Arrives, Crash, registry, binding
    <3>2. CASE pc' = pc
      BY <3>1, <3>2, <1>1 DEF At, Owned, Created, Holds, Goroutine, Role
    <3>3. CASE Goto(k, "recv", "check")
      BY <3>1, <3>3, <1>1 DEF At, Goto, Owned, Created, Holds, Goroutine, Role
    <3> QED BY <2>4, <3>2, <3>3 DEF RecvFlow, Arrives, Crash
  <2>5. CASE RecvRequest(k)
    <3>1. client[chan[client[k]]] = client[k]
      BY OwnSessions
    <3>2. on' = on \/ on' = [on EXCEPT ![<<k, "recv">>] = chan[client[k]]]
      BY <2>5 DEF RecvRequest
    <3>3. UNCHANGED <<clients, client, cur, chan>>
      BY <2>5 DEF RecvRequest, registry, binding
    <3>4. \A j \in Conn : pc'[<<j, "init">>] = pc[<<j, "init">>]
      BY <2>5, <1>1 DEF RecvRequest, Goto, Goroutine, Role
    <3>5. \A g \in Goroutine : client'[on'[g]] = client'[g[1]]
      <4>1. CASE on' = on
        BY <3>3, <4>1 DEF Owned
      <4>2. CASE on' = [on EXCEPT ![<<k, "recv">>] = chan[client[k]]]
        BY <1>2, <3>1, <3>3, <4>2 DEF Role
      <4> QED BY <3>2, <4>1, <4>2
    <3> QED BY <1>3, <3>3, <3>4, <3>5
  <2>6. CASE RecvReply(k)
    <3>1. /\ At(k, "recv", "reply")
          /\ UNCHANGED <<clients, client, cur, chan, on>>
      BY <2>6 DEF RecvReply, Crash, registry, binding
    <3>2. CASE pc' = pc
      BY <3>1, <3>2, <1>1 DEF At, Owned, Created, Holds, Goroutine, Role
    <3>3. CASE Goto(k, "recv", "check")
      BY <3>1, <3>3, <1>1 DEF At, Goto, Owned, Created, Holds, Goroutine, Role
    <3> QED BY <2>6, <3>2, <3>3 DEF RecvReply, Crash
  <2>7. CASE RecvQuiet(k)
    BY <2>7, <1>1, ConnAssumption DEF RecvQuiet, At, Arrives, Goto, Owned,
       Created, Holds, Goroutine, Role, registry, flags, binding, session,
       queues, seen, fault
  <2> QED BY <1>d, <2>1, <2>2, <2>3, <2>4, <2>5, <2>6, <2>7 DEF RecvStep
<1>e. ASSUME NEW k \in Conn, SendStep(k) PROVE Owned'
  <2>1. CASE SendEnter(k)
    <3>1. client[cur[client[k]]] = client[k]
      BY OwnSessions
    <3>2. on' = on \/ on' = [on EXCEPT ![<<k, "send">>] = cur[client[k]]]
      BY <2>1 DEF SendEnter
    <3>3. UNCHANGED <<clients, client, cur, chan>>
      BY <2>1 DEF SendEnter, registry, binding
    <3>4. \A j \in Conn : pc'[<<j, "init">>] = pc[<<j, "init">>]
      BY <2>1, <1>1 DEF SendEnter, Goto, Goroutine, Role
    <3>5. \A g \in Goroutine : client'[on'[g]] = client'[g[1]]
      <4>1. CASE on' = on
        BY <3>3, <4>1 DEF Owned
      <4>2. CASE on' = [on EXCEPT ![<<k, "send">>] = cur[client[k]]]
        BY <1>2, <3>1, <3>3, <4>2 DEF Role
      <4> QED BY <3>2, <4>1, <4>2
    <3> QED BY <1>3, <3>3, <3>4, <3>5
  <2>2. CASE SendStop(k)
    BY <2>2, <1>1, ConnAssumption DEF SendStop, At, Goto, Done, Owned, Created,
       Holds, Goroutine, Role, registry, flags, binding, session, queues, seen,
       fault
  <2>3. CASE SendPacket(k)
    BY <2>3, <1>1, ConnAssumption DEF SendPacket, At, Goto, Owned, Created,
       Holds, Goroutine, Role, registry, flags, binding, session, seen, fault
  <2> QED BY <1>e, <2>1, <2>2, <2>3 DEF SendStep
<1>f. ASSUME NEW k \in Conn, TimerStep(k) PROVE Owned'
  <2>1. CASE TimerEnter(k)
    <3>1. client[cur[client[k]]] = client[k]
      BY OwnSessions
    <3>2. on' = on \/ on' = [on EXCEPT ![<<k, "timer">>] = cur[client[k]]]
      BY <2>1 DEF TimerEnter
    <3>3. UNCHANGED <<clients, client, cur, chan>>
      BY <2>1 DEF TimerEnter, registry, binding
    <3>4. \A j \in Conn : pc'[<<j, "init">>] = pc[<<j, "init">>]
      BY <2>1, <1>1 DEF TimerEnter, Goto, Goroutine, Role
    <3>5. \A g \in Goroutine : client'[on'[g]] = client'[g[1]]
      <4>1. CASE on' = on
        BY <3>3, <4>1 DEF Owned
      <4>2. CASE on' = [on EXCEPT ![<<k, "timer">>] = cur[client[k]]]
        BY <1>2, <3>1, <3>3, <4>2 DEF Role
      <4> QED BY <3>2, <4>1, <4>2
    <3> QED BY <1>3, <3>3, <3>4, <3>5
  <2>2. CASE TimerReset(k)
    BY <2>2, <1>1, ConnAssumption DEF TimerReset, At, Goto, Owned, Created,
       Holds, Goroutine, Role, registry, flags, binding, session, queues, seen,
       fault
  <2>3. CASE TimerExpire(k)
    BY <2>3, <1>1, ConnAssumption DEF TimerExpire, At, Done, Owned, Created,
       Holds, Goroutine, Role, registry, flags, binding, session, queues, seen,
       fault
  <2>4. CASE TimerStop(k)
    BY <2>4, <1>1, ConnAssumption DEF TimerStop, At, Goto, Done, Owned,
       Created, Holds, Goroutine, Role, registry, flags, binding, session,
       queues, seen, fault
  <2> QED BY <1>f, <2>1, <2>2, <2>3, <2>4 DEF TimerStep
<1>g. ASSUME NEW k \in Conn, Arrival(k) PROVE Owned'
  <2>1. CASE Connect(k)
    BY <2>1, <1>1, ConnAssumption DEF Connect, At, Goto, Owned, Created, Holds,
       Goroutine, Role, registry, flags, binding, session, queues, seen, fault
  <2>2. CASE Reject(k)
    BY <2>2, <1>1, ConnAssumption DEF Reject, At, Goto, Owned, Created, Holds,
       Goroutine, Role, registry, flags, binding, session, queues, seen, fault
  <2>3. CASE BadConnect(k)
    BY <2>3, <1>1, ConnAssumption DEF BadConnect, At, Crash, Owned, Created,
       Holds, Goroutine, Role, registry, flags, binding, session, queues, seen
  <2> QED BY <1>g, <2>1, <2>2, <2>3 DEF Arrival
<1>h. ASSUME NEW k \in Conn, NEW w \in StopRole, StopStep(k, w) PROVE Owned'
  <2>1. CASE StopEntry(k, w)
    <3>1. At(k, w, "entry") /\ UNCHANGED <<clients, client, cur, chan, on>>
      BY <2>1 DEF StopEntry, Crash, registry, binding
    <3>2. CASE pc' = pc
      BY <3>1, <3>2, <1>1 DEF At, Owned, Created, Holds, Goroutine, Role,
         StopRole
    <3>3. CASE Goto(k, w, "done")
      BY <3>1, <3>3, <1>1 DEF At, Goto, Owned, Created, Holds, Goroutine, Role,
         StopRole
    <3>4. CASE Goto(k, w, "once")
      BY <3>1, <3>4, <1>1 DEF At, Goto, Owned, Created, Holds, Goroutine, Role,
         StopRole
    <3> QED BY <2>1, <3>2, <3>3, <3>4 DEF StopEntry, Crash
  <2>2. CASE StopOnce(k, w)
    <3>1. client[cur[client[k]]] = client[k]
      BY OwnSessions
    <3>2. on' = on \/ on' = [on EXCEPT ![<<k, w>>] = cur[client[k]]]
      BY <2>2 DEF StopOnce
    <3>3. UNCHANGED <<clients, client, cur, chan>>
      BY <2>2 DEF StopOnce, registry, binding
    <3>4. \A j \in Conn : pc'[<<j, "init">>] = pc[<<j, "init">>]
      BY <2>2, <1>1 DEF StopOnce, Goto, Goroutine, Role, StopRole
    <3>5. \A g \in Goroutine : client'[on'[g]] = client'[g[1]]
      <4>1. CASE on' = on
        BY <3>3, <4>1 DEF Owned
      <4>2. CASE on' = [on EXCEPT ![<<k, w>>] = cur[client[k]]]
        BY <1>2, <3>1, <3>3, <4>2 DEF Role, StopRole
      <4> QED BY <3>2, <4>1, <4>2
    <3> QED BY <1>3, <3>3, <3>4, <3>5
  <2>3. CASE StopClose(k, w)
    <3>1. At(k, w, "close") /\ UNCHANGED <<clients, client, cur, chan, on>>
      BY <2>3 DEF StopClose, Crash, registry, binding
    <3>2. CASE pc' = pc
      BY <3>1, <3>2, <1>1 DEF At, Owned, Created, Holds, Goroutine, Role,
         StopRole
    <3>3. CASE Goto(k, w, "drain")
      BY <3>1, <3>3, <1>1 DEF At, Goto, Owned, Created, Holds, Goroutine, Role,
         StopRole
    <3> QED BY <2>3, <3>2, <3>3 DEF StopClose, Crash
  <2>4. CASE StopDrain(k, w)
    BY <2>4, <1>1, ConnAssumption DEF StopDrain, At, Goto, Owned, Created,
       Holds, Goroutine, Role, StopRole, registry, binding, session, queues,
       seen, fault
  <2>5. CASE StopChannels(k, w)
    <3>1. At(k, w, "channels") /\ UNCHANGED <<clients, client, cur, chan, on>>
      BY <2>5 DEF StopChannels, Crash, registry, binding
    <3>2. CASE pc' = pc
      BY <3>1, <3>2, <1>1 DEF At, Owned, Created, Holds, Goroutine, Role,
         StopRole
    <3>3. CASE Goto(k, w, "unmap")
      BY <3>1, <3>3, <1>1 DEF At, Goto, Owned, Created, Holds, Goroutine, Role,
         StopRole
    <3>4. CASE Goto(k, w, "done")
      BY <3>1, <3>4, <1>1 DEF At, Goto, Owned, Created, Holds, Goroutine, Role,
         StopRole
    <3> QED BY <2>5, <3>2, <3>3, <3>4 DEF StopChannels, Crash
  <2>6. CASE StopUnmap(k, w)
    BY <2>6, <1>1, ConnAssumption DEF StopUnmap, At, Goto, Owned, Created,
       Holds, Goroutine, Role, StopRole, flags, binding, session, queues, seen,
       fault
  <2>7. CASE StopUnsubscribe(k, w)
    BY <2>7, <1>1, ConnAssumption DEF StopUnsubscribe, At, Goto, Owned,
       Created,
       Holds, Goroutine, Role, StopRole, flags, binding, session, queues,
       seen, fault
  <2>8. CASE StopRelease(k, w)
    BY <2>8, <1>1, ConnAssumption DEF StopRelease, At, Goto, Owned, Created,
       Holds, Goroutine, Role, StopRole, flags, binding, queues, seen, fault
  <2> QED BY <1>h, <2>1, <2>2, <2>3, <2>4, <2>5, <2>6, <2>7, <2>8 DEF StopStep
<1>i. ASSUME NEW k \in Conn, NEW o \in Conn, WaitReused(k, o)
      PROVE  Owned'
  BY <1>i, <1>1, ConnAssumption DEF WaitReused, Crash, Owned, Created,
     Holds, Goroutine, Role, registry, flags, binding, session, queues, seen
<1> QED BY <1>a, <1>b, <1>c, <1>d, <1>e, <1>f, <1>g, <1>h, <1>i DEF Next

-----------------------------------------------------------------------------

\* Only finitely many goroutines are counted.
LEMMA MembersFinite ==
  ASSUME NEW o PROVE IsFiniteSet(Members(o))
<1>1. IsFiniteSet(Goroutine)
  <2>1. IsFiniteSet(Role)
    <3>1. Role = {"init"} \cup {"start"} \cup {"recv"} \cup {"send"}
                 \cup {"timer"} \cup {"recvStop"} \cup {"timerStop"}
      BY DEF Role
    <3> QED BY <3>1, FS_Singleton, FS_Union
  <2> QED BY <2>1, ConnAssumption, FS_Product DEF Goroutine
<1> QED BY <1>1, FS_Subset DEF Members

\* A step that starts and ends no counted goroutine keeps the count.
LEMMA CountKept ==
  ASSUME WaitGroupCounts, wg' = wg,
         \A h \in Goroutine : Counted(h)' <=> Counted(h),
         \A h \in Goroutine : Counted(h) => client'[h[1]] = client[h[1]]
  PROVE  WaitGroupCounts'
<1>1. ASSUME NEW o \in Conn PROVE Members(o)' = Members(o)
  BY DEF Members
<1> QED BY <1>1 DEF WaitGroupCounts

\* A step that starts one, with wg.Add(1), keeps the count.
LEMMA CountJoin ==
  ASSUME TypeOK, WaitGroupCounts, NEW g \in Goroutine, NEW o \in Conn,
         ~Counted(g), Counted(g)', client'[g[1]] = o,
         \A h \in Goroutine \ {g} : Counted(h)' <=> Counted(h),
         \A h \in Goroutine : Counted(h) => client'[h[1]] = client[h[1]],
         wg' = [wg EXCEPT ![o] = @ + 1]
  PROVE  WaitGroupCounts'
<1>1. Members(o)' = Members(o) \cup {g} /\ g \notin Members(o)
  BY DEF Members
<1>2. ASSUME NEW p \in Conn, p # o PROVE Members(p)' = Members(p)
  BY <1>2 DEF Members
<1>3. Cardinality(Members(o)') = Cardinality(Members(o)) + 1
  BY <1>1, MembersFinite, FS_AddElement
<1> QED BY <1>2, <1>3 DEF WaitGroupCounts, TypeOK

\* A step that ends one, with wg.Done, keeps the count.
LEMMA CountLeave ==
  ASSUME TypeOK, WaitGroupCounts, NEW g \in Goroutine, NEW o \in Conn,
         Counted(g), ~Counted(g)', client[g[1]] = o, client' = client,
         \A h \in Goroutine \ {g} : Counted(h)' <=> Counted(h),
         Done(o)
  PROVE  WaitGroupCounts'
<1>1. Members(o)' = Members(o) \ {g} /\ g \in Members(o)
  BY DEF Members
<1>2. ASSUME NEW p \in Conn, p # o PROVE Members(p)' = Members(p)
  BY <1>2 DEF Members
<1>3. Cardinality(Members(o)') = Cardinality(Members(o)) - 1
  BY <1>1, MembersFinite, FS_RemoveElement
<1> QED BY <1>2, <1>3 DEF WaitGroupCounts, TypeOK, Done

\* Every Add comes with its goroutines and every Done with the end of one.
LEMMA CountNext ==
  TypeOK /\ Order /\ WaitGroupCounts /\ [Next]_vars => WaitGroupCounts'
<1> SUFFICES ASSUME TypeOK, Order, WaitGroupCounts, [Next]_vars
             PROVE WaitGroupCounts'
  OBVIOUS
<1>1. /\ pc \in [Goroutine -> Label] /\ client \in [Conn -> Conn]
      /\ wg \in [Conn -> Int]
  BY DEF TypeOK
<1>a. CASE UNCHANGED vars
  BY <1>a, <1>1 DEF vars, WaitGroupCounts, Members, Counted, registry, flags,
     binding, session, queues, seen, fault
<1>b. ASSUME NEW k \in Conn, InitStep(k) PROVE WaitGroupCounts'
  <2>1. CASE InitTakeover(k)
    <3>1. pc[<<k, "init">>] = "lock" /\ Goto(k, "init", "takeover") /\ wg' = wg
      BY <2>1 DEF InitTakeover, At
    <3>2. client' = [client EXCEPT ![k] = clients[Id(k)]]
      BY <2>1 DEF InitTakeover
    <3>3. \A h \in Goroutine : Counted(h) => h[1] # k
      <4>1. \A r \in {"recv", "send", "timer"} : pc[<<k, r>>] = "none"
        BY <3>1 DEF Order
      <4> QED BY <3>1, <4>1 DEF Counted, Goroutine
    <3>4. \A h \in Goroutine : Counted(h)' <=> Counted(h)
      BY <1>1, <3>1 DEF Goto, Counted, Goroutine, Role
    <3>5. \A h \in Goroutine : Counted(h) => client'[h[1]] = client[h[1]]
      BY <1>1, <3>2, <3>3 DEF Goroutine
    <3> QED BY <3>1, <3>4, <3>5, CountKept
  <2>2. CASE InitResume(k)
    <3> DEFINE o == clients[Id(k)]
    <3>1. o \in Conn /\ <<k, "init">> \in Goroutine
      BY <2>2, <1>1, ConnAssumption DEF InitResume, Resumes, Known, Id, TypeOK,
         Goroutine, Role
    <3>2. pc[<<k, "init">>] = "lock"
      BY <2>2 DEF InitResume, Resumes, At
    <3>3. /\ wg' = [wg EXCEPT ![o] = @ + 1]
          /\ pc' = [pc EXCEPT ![<<k, "init">>] = "serve",
                              ![<<k, "start">>] = "open"]
      BY <2>2 DEF InitResume, Resumes
    <3>4. client' = [client EXCEPT ![k] = o]
      BY <2>2 DEF InitResume, Resumes
    <3> HIDE DEF o
    <3>5. ~Counted(<<k, "init">>) /\ Counted(<<k, "init">>)'
      BY <1>1, <3>2, <3>3 DEF Counted, Goroutine, Role
    <3>6. \A h \in Goroutine \ {<<k, "init">>} : Counted(h)' <=> Counted(h)
      BY <1>1, <3>2, <3>3 DEF Counted, Goroutine, Role
    <3>7. \A h \in Goroutine : Counted(h) => h[1] # k
      <4>1. \A r \in {"recv", "send", "timer"} : pc[<<k, r>>] = "none"
        BY <3>2 DEF Order
      <4> QED BY <3>2, <4>1 DEF Counted, Goroutine
    <3>8. \A h \in Goroutine : Counted(h) => client'[h[1]] = client[h[1]]
      BY <1>1, <3>4, <3>7 DEF Goroutine
    <3> QED BY <1>1, <3>1, <3>3, <3>4, <3>5, <3>6, <3>8, CountJoin
  <2>3. CASE InitNew(k)
    <3> DEFINE o == k
    <3>1. o \in Conn /\ <<k, "init">> \in Goroutine
      BY <2>3, <1>1, ConnAssumption DEF InitNew, Known, Id, TypeOK, Goroutine,
         Role
    <3>2. pc[<<k, "init">>] = "lock"
      BY <2>3 DEF InitNew, At
    <3>3. /\ wg' = [wg EXCEPT ![o] = @ + 1]
          /\ pc' = [pc EXCEPT ![<<k, "init">>] = "serve",
                              ![<<k, "start">>] = "open"]
      BY <2>3 DEF InitNew
    <3>4. client' = client /\ client[k] = k
      BY <2>3, <3>2 DEF InitNew, binding, Order
    <3>5. ~Counted(<<k, "init">>) /\ Counted(<<k, "init">>)'
      BY <1>1, <3>2, <3>3 DEF Counted, Goroutine, Role
    <3>6. \A h \in Goroutine \ {<<k, "init">>} : Counted(h)' <=> Counted(h)
      BY <1>1, <3>2, <3>3 DEF Counted, Goroutine, Role
    <3> QED BY <1>1, <3>1, <3>3, <3>4, <3>5, <3>6, CountJoin
  <2>4. CASE TakeoverOnce(k)
    <3>1. wg' = wg /\ client' = client
      BY <2>4 DEF TakeoverOnce, Crash, binding
    <3>2. \A h \in Goroutine : Counted(h)' <=> Counted(h)
      <4>1. At(k, "init", "takeover")
        BY <2>4 DEF TakeoverOnce
      <4>2. CASE pc' = pc
        BY <1>1, <4>1, <4>2 DEF At, Counted, Goroutine, Role
      <4>3. CASE Goto(k, "init", "drain")
        BY <1>1, <4>1, <4>3 DEF At, Goto, Counted, Goroutine, Role
      <4>4. CASE Goto(k, "init", "reinstall")
        BY <1>1, <4>1, <4>4 DEF At, Goto, Counted, Goroutine, Role
      <4> QED BY <2>4, <4>2, <4>3, <4>4 DEF TakeoverOnce, Crash
    <3> QED BY <3>1, <3>2, CountKept
  <2>5. CASE TakeoverDrain(k)
    <3>1. wg' = wg /\ client' = client
      BY <2>5 DEF TakeoverDrain, binding
    <3>2. \A h \in Goroutine : Counted(h)' <=> Counted(h)
      BY <2>5, <1>1 DEF TakeoverDrain, At, Goto, Counted, Goroutine, Role
    <3> QED BY <3>1, <3>2, CountKept
  <2>6. CASE TakeoverInstall(k)
    <3> DEFINE o == client[k]
    <3>1. o \in Conn /\ <<k, "init">> \in Goroutine
      BY <2>6, <1>1, ConnAssumption DEF TakeoverInstall, Known, Id, TypeOK,
         Goroutine, Role
    <3>2. pc[<<k, "init">>] \in {"install", "reinstall"}
      BY <2>6 DEF TakeoverInstall, At
    <3>3. /\ wg' = [wg EXCEPT ![o] = @ + 1]
          /\ pc' = [pc EXCEPT ![<<k, "init">>] = "serve",
                              ![<<k, "start">>] = "open"]
      BY <2>6 DEF TakeoverInstall
    <3>4. client' = client
      BY <2>6 DEF TakeoverInstall
    <3>5. ~Counted(<<k, "init">>) /\ Counted(<<k, "init">>)'
      BY <1>1, <3>2, <3>3 DEF Counted, Goroutine, Role
    <3>6. \A h \in Goroutine \ {<<k, "init">>} : Counted(h)' <=> Counted(h)
      BY <1>1, <3>2, <3>3 DEF Counted, Goroutine, Role
    <3> QED BY <1>1, <3>1, <3>3, <3>4, <3>5, <3>6, CountJoin
  <2>7. CASE ServeWait(k)
    <3>1. wg' = wg /\ client' = client
      BY <2>7 DEF ServeWait, binding
    <3>2. \A h \in Goroutine : Counted(h)' <=> Counted(h)
      BY <2>7, <1>1 DEF ServeWait, At, Goto, Counted, Goroutine, Role
    <3> QED BY <3>1, <3>2, CountKept
  <2>8. CASE ServeDone(k)
    <3>1. client' = client /\ Done(client[k])
      BY <2>8 DEF ServeDone, binding
    <3>2. Counted(<<k, "init">>) /\ ~Counted(<<k, "init">>)'
      BY <2>8, <1>1 DEF ServeDone, At, Goto, Counted, Goroutine, Role
    <3>3. \A h \in Goroutine \ {<<k, "init">>} : Counted(h)' <=> Counted(h)
      BY <2>8, <1>1 DEF ServeDone, At, Goto, Counted, Goroutine, Role
    <3>4. <<k, "init">> \in Goroutine /\ client[k] \in Conn
      BY <1>1 DEF Goroutine, Role
    <3> QED BY <3>1, <3>2, <3>3, <3>4, CountLeave
  <2> QED BY <1>b, <2>1, <2>2, <2>3, <2>4, <2>5, <2>6, <2>7, <2>8 DEF InitStep
<1>c. ASSUME NEW k \in Conn, StartStep(k) PROVE WaitGroupCounts'
  <2>1. CASE StartOpen(k)
    <3>1. wg' = wg /\ client' = client
      BY <2>1 DEF StartOpen, binding
    <3>2. \A h \in Goroutine : Counted(h)' <=> Counted(h)
      <4>1. At(k, "start", "open")
        BY <2>1 DEF StartOpen
      <4>2. CASE Goto(k, "start", "connack")
        BY <1>1, <4>1, <4>2 DEF At, Goto, Counted, Goroutine, Role
      <4>3. CASE Goto(k, "start", "replay")
        BY <1>1, <4>1, <4>3 DEF At, Goto, Counted, Goroutine, Role
      <4> QED BY <2>1, <4>2, <4>3 DEF StartOpen
    <3> QED BY <3>1, <3>2, CountKept
  <2>2. CASE StartReplay(k)
    <3>1. wg' = wg /\ client' = client
      BY <2>2 DEF StartReplay, Crash, binding
    <3>2. \A h \in Goroutine : Counted(h)' <=> Counted(h)
      <4>1. At(k, "start", "replay")
        BY <2>2 DEF StartReplay
      <4>2. CASE pc' = pc
        BY <4>2 DEF Counted
      <4>3. CASE Goto(k, "start", "connack")
        BY <1>1, <4>1, <4>3 DEF At, Goto, Counted, Goroutine, Role
      <4>4. CASE Goto(k, "start", "blocked")
        BY <1>1, <4>1, <4>4 DEF At, Goto, Counted, Goroutine, Role
      <4> QED BY <2>2, <4>2, <4>3, <4>4 DEF StartReplay, Crash
    <3> QED BY <3>1, <3>2, CountKept
  <2>3. CASE StartSpawn(k)
    <3>1. At(k, "start", "spawn") /\ client' = client
      BY <2>3 DEF StartSpawn, binding
    <3>2. /\ wg' = [wg EXCEPT ![client[k]] = @ + 2]
          /\ pc' = [pc EXCEPT ![<<k, "start">>] = "state",
                              ![<<k, "recv">>] = "check",
                              ![<<k, "send">>] = "enter"]
      BY <2>3 DEF StartSpawn
    <3> DEFINE o == client[k]
               r == <<k, "recv">>
               s == <<k, "send">>
    <3>3. o \in Conn /\ r \in Goroutine /\ s \in Goroutine /\ r # s
      BY <1>1 DEF Goroutine, Role
    <3>4. pc[r] = "none" /\ pc[s] = "none"
      BY <3>1 DEF At, Order
    <3>5. \A h \in Goroutine \ {r, s} : Counted(h)' <=> Counted(h)
      BY <1>1, <3>1, <3>2 DEF At, Counted, Goroutine, Role
    <3>6. ~Counted(r) /\ ~Counted(s) /\ Counted(r)' /\ Counted(s)'
      BY <1>1, <3>2, <3>4 DEF Counted, Goroutine, Role
    <3>7. Members(o)' = (Members(o) \cup {r}) \cup {s}
      BY <3>1, <3>3, <3>5, <3>6 DEF Members
    <3>8. r \notin Members(o) /\ s \notin Members(o) \cup {r}
      BY <3>3, <3>6 DEF Members
    <3>9. Cardinality(Members(o)') = Cardinality(Members(o)) + 1 + 1
      <4> HIDE DEF o, r, s
      <4>1. IsFiniteSet(Members(o)) /\ IsFiniteSet(Members(o) \cup {r})
        BY MembersFinite, FS_AddElement
      <4>2. Cardinality(Members(o) \cup {r}) = Cardinality(Members(o)) + 1
        BY <3>8, <4>1, FS_AddElement
      <4>3. Cardinality((Members(o) \cup {r}) \cup {s})
              = Cardinality(Members(o) \cup {r}) + 1
        BY <3>8, <4>1, FS_AddElement
      <4> QED BY <3>7, <4>2, <4>3
    <3>10. ASSUME NEW p \in Conn, p # o PROVE Members(p)' = Members(p)
      BY <3>1, <3>5, <3>6, <3>10 DEF Members
    <3>11. wg[o] = Cardinality(Members(o)) /\ wg'[o] = wg[o] + 2
      BY <1>1, <3>2, <3>3 DEF WaitGroupCounts
    <3>12. \A p \in Conn : p # o => wg'[p] = wg[p]
      BY <1>1, <3>2
    <3>13. wg'[o] = Cardinality(Members(o)')
      BY <1>1, <3>3, <3>9, <3>11
    <3>14. ASSUME NEW p \in Conn PROVE wg'[p] = Cardinality(Members(p)')
      <4>1. CASE p = o
        BY <3>1, <3>13, <4>1 DEF Members
      <4>2. CASE p # o
        BY <3>10, <3>12, <4>2 DEF WaitGroupCounts
      <4> QED BY <4>1, <4>2
    <3> QED BY <3>14 DEF WaitGroupCounts
  <2>4. CASE StartConnected(k)
    <3>1. wg' = wg /\ client' = client
      BY <2>4 DEF StartConnected, binding
    <3>2. \A h \in Goroutine : Counted(h)' <=> Counted(h)
      BY <2>4, <1>1 DEF StartConnected, At, Goto, Counted, Goroutine, Role
    <3> QED BY <3>1, <3>2, CountKept
  <2>5. CASE StartTimer(k)
    <3>1. client' = client /\ At(k, "start", "timer")
      BY <2>5 DEF StartTimer, binding
    <3>2. <<k, "timer">> \in Goroutine /\ client[k] \in Conn
      BY <1>1 DEF Goroutine, Role
    <3>3. CASE /\ wg' = [wg EXCEPT ![client[k]] = @ + 1]
               /\ pc' = [pc EXCEPT ![<<k, "start">>] = "done",
                                   ![<<k, "timer">>] = "enter"]
      <4>1. ~Counted(<<k, "timer">>) /\ Counted(<<k, "timer">>)'
        BY <1>1, <3>1, <3>3 DEF At, Order, Counted, Goroutine, Role
      <4>2. \A h \in Goroutine \ {<<k, "timer">>} : Counted(h)' <=> Counted(h)
        BY <1>1, <3>1, <3>3 DEF At, Counted, Goroutine, Role
      <4> QED BY <3>1, <3>2, <3>3, <4>1, <4>2, CountJoin
    <3>4. CASE wg' = wg /\ Goto(k, "start", "done")
      <4>1. \A h \in Goroutine : Counted(h)' <=> Counted(h)
        BY <1>1, <3>1, <3>4 DEF At, Goto, Counted, Goroutine, Role
      <4> QED BY <3>1, <3>4, <4>1, CountKept
    <3> QED BY <2>5, <3>3, <3>4 DEF StartTimer
  <2>6. CASE StartBlocked(k)
    <3>1. wg' = wg /\ client' = client
      BY <2>6 DEF StartBlocked, Crash, binding
    <3>2. \A h \in Goroutine : Counted(h)' <=> Counted(h)
      <4>1. At(k, "start", "blocked")
        BY <2>6 DEF StartBlocked
      <4>2. CASE pc' = pc
        BY <4>2 DEF Counted
      <4>3. CASE Goto(k, "start", "connack")
        BY <1>1, <4>1, <4>3 DEF At, Goto, Counted, Goroutine, Role
      <4> QED BY <2>6, <4>2, <4>3 DEF StartBlocked, Crash
    <3> QED BY <3>1, <3>2, CountKept
  <2>7. CASE StartConnack(k)
    <3>1. wg' = wg /\ client' = client
      BY <2>7 DEF StartConnack, Crash, binding
    <3>2. \A h \in Goroutine : Counted(h)' <=> Counted(h)
      <4>1. At(k, "start", "connack")
        BY <2>7 DEF StartConnack
      <4>2. CASE pc' = pc
        BY <4>2 DEF Counted
      <4>3. CASE Goto(k, "start", "spawn")
        BY <1>1, <4>1, <4>3 DEF At, Goto, Counted, Goroutine, Role
      <4> QED BY <2>7, <4>2, <4>3 DEF StartConnack, Crash
    <3> QED BY <3>1, <3>2, CountKept
  <2> QED BY <1>c, <2>1, <2>2, <2>3, <2>4, <2>5, <2>6, <2>7 DEF StartStep
<1>d. ASSUME NEW k \in Conn, RecvStep(k) PROVE WaitGroupCounts'
  <2>1. CASE RecvCheck(k)
    <3>1. client' = client /\ At(k, "recv", "check")
      BY <2>1 DEF RecvCheck, binding
    <3>2. <<k, "recv">> \in Goroutine /\ client[k] \in Conn
      BY <1>1 DEF Goroutine, Role
    <3>3. CASE Done(client[k]) /\ Goto(k, "recv", "done")
      <4>1. Counted(<<k, "recv">>) /\ ~Counted(<<k, "recv">>)'
        BY <1>1, <3>1, <3>3 DEF At, Goto, Counted, Goroutine, Role
      <4>2. \A h \in Goroutine \ {<<k, "recv">>} : Counted(h)' <=> Counted(h)
        BY <1>1, <3>1, <3>3 DEF At, Goto, Counted, Goroutine, Role
      <4> QED BY <3>1, <3>2, <3>3, <4>1, <4>2, CountLeave
    <3>4. CASE wg' = wg /\ Goto(k, "recv", "read")
      <4>1. \A h \in Goroutine : Counted(h)' <=> Counted(h)
        BY <1>1, <3>1, <3>4 DEF At, Goto, Counted, Goroutine, Role
      <4> QED BY <3>1, <3>4, <4>1, CountKept
    <3> QED BY <2>1, <3>3, <3>4 DEF RecvCheck
  <2>2. CASE RecvFail(k)
    <3>1. client' = client /\ Done(client[k])
      BY <2>2 DEF RecvFail, binding
    <3>2. Counted(<<k, "recv">>) /\ ~Counted(<<k, "recv">>)'
      BY <2>2, <1>1 DEF RecvFail, At, Counted, Goroutine, Role
    <3>3. \A h \in Goroutine \ {<<k, "recv">>} : Counted(h)' <=> Counted(h)
      BY <2>2, <1>1 DEF RecvFail, At, Counted, Goroutine, Role
    <3>4. <<k, "recv">> \in Goroutine /\ client[k] \in Conn
      BY <1>1 DEF Goroutine, Role
    <3> QED BY <3>1, <3>2, <3>3, <3>4, CountLeave
  <2>3. CASE RecvDisconnect(k)
    <3>1. client' = client /\ Done(client[k])
      BY <2>3 DEF RecvDisconnect, binding
    <3>2. Counted(<<k, "recv">>) /\ ~Counted(<<k, "recv">>)'
      BY <2>3, <1>1 DEF RecvDisconnect, At, Arrives, Counted, Goroutine, Role
    <3>3. \A h \in Goroutine \ {<<k, "recv">>} : Counted(h)' <=> Counted(h)
      BY <2>3, <1>1 DEF RecvDisconnect, At, Arrives, Counted, Goroutine, Role
    <3>4. <<k, "recv">> \in Goroutine /\ client[k] \in Conn
      BY <1>1 DEF Goroutine, Role
    <3> QED BY <3>1, <3>2, <3>3, <3>4, CountLeave
  <2>4. CASE RecvFlow(k)
    <3>1. wg' = wg /\ client' = client
      BY <2>4 DEF RecvFlow, Crash, binding
    <3>2. \A h \in Goroutine : Counted(h)' <=> Counted(h)
      <4>1. At(k, "recv", "read")
        BY <2>4 DEF RecvFlow, Arrives
      <4>2. CASE pc' = pc
        BY <1>1, <4>1, <4>2 DEF At, Counted, Goroutine, Role
      <4>3. CASE Goto(k, "recv", "check")
        BY <1>1, <4>1, <4>3 DEF At, Goto, Counted, Goroutine, Role
      <4> QED BY <2>4, <4>2, <4>3 DEF RecvFlow, Crash
    <3> QED BY <3>1, <3>2, CountKept
  <2>5. CASE RecvRequest(k)
    <3>1. wg' = wg /\ client' = client
      BY <2>5 DEF RecvRequest, binding
    <3>2. \A h \in Goroutine : Counted(h)' <=> Counted(h)
      BY <2>5, <1>1 DEF RecvRequest, At, Arrives, Goto, Counted, Goroutine,
         Role
    <3> QED BY <3>1, <3>2, CountKept
  <2>6. CASE RecvReply(k)
    <3>1. wg' = wg /\ client' = client
      BY <2>6 DEF RecvReply, Crash, binding
    <3>2. \A h \in Goroutine : Counted(h)' <=> Counted(h)
      <4>1. At(k, "recv", "reply")
        BY <2>6 DEF RecvReply
      <4>2. CASE pc' = pc
        BY <1>1, <4>1, <4>2 DEF At, Counted, Goroutine, Role
      <4>3. CASE Goto(k, "recv", "check")
        BY <1>1, <4>1, <4>3 DEF At, Goto, Counted, Goroutine, Role
      <4> QED BY <2>6, <4>2, <4>3 DEF RecvReply, Crash
    <3> QED BY <3>1, <3>2, CountKept
  <2>7. CASE RecvQuiet(k)
    <3>1. wg' = wg /\ client' = client
      BY <2>7 DEF RecvQuiet, binding
    <3>2. \A h \in Goroutine : Counted(h)' <=> Counted(h)
      BY <2>7, <1>1 DEF RecvQuiet, At, Arrives, Goto, Counted, Goroutine, Role
    <3> QED BY <3>1, <3>2, CountKept
  <2> QED BY <1>d, <2>1, <2>2, <2>3, <2>4, <2>5, <2>6, <2>7 DEF RecvStep
<1>e. ASSUME NEW k \in Conn, SendStep(k) PROVE WaitGroupCounts'
  <2>1. CASE SendEnter(k)
    <3>1. wg' = wg /\ client' = client
      BY <2>1 DEF SendEnter, binding
    <3>2. \A h \in Goroutine : Counted(h)' <=> Counted(h)
      BY <2>1, <1>1 DEF SendEnter, At, Goto, Counted, Goroutine, Role
    <3> QED BY <3>1, <3>2, CountKept
  <2>2. CASE SendStop(k)
    <3>1. client' = client /\ Done(client[k])
      BY <2>2 DEF SendStop, binding
    <3>2. Counted(<<k, "send">>) /\ ~Counted(<<k, "send">>)'
      BY <2>2, <1>1 DEF SendStop, At, Goto, Counted, Goroutine, Role
    <3>3. \A h \in Goroutine \ {<<k, "send">>} : Counted(h)' <=> Counted(h)
      BY <2>2, <1>1 DEF SendStop, At, Goto, Counted, Goroutine, Role
    <3>4. <<k, "send">> \in Goroutine /\ client[k] \in Conn
      BY <1>1 DEF Goroutine, Role
    <3> QED BY <3>1, <3>2, <3>3, <3>4, CountLeave
  <2>3. CASE SendPacket(k)
    <3>1. wg' = wg /\ client' = client
      BY <2>3 DEF SendPacket, binding
    <3>2. \A h \in Goroutine : Counted(h)' <=> Counted(h)
      BY <2>3, <1>1 DEF SendPacket, At, Goto, Counted, Goroutine, Role
    <3> QED BY <3>1, <3>2, CountKept
  <2> QED BY <1>e, <2>1, <2>2, <2>3 DEF SendStep
<1>f. ASSUME NEW k \in Conn, TimerStep(k) PROVE WaitGroupCounts'
  <2>1. CASE TimerEnter(k)
    <3>1. wg' = wg /\ client' = client
      BY <2>1 DEF TimerEnter, binding
    <3>2. \A h \in Goroutine : Counted(h)' <=> Counted(h)
      BY <2>1, <1>1 DEF TimerEnter, At, Goto, Counted, Goroutine, Role
    <3> QED BY <3>1, <3>2, CountKept
  <2>2. CASE TimerReset(k)
    <3>1. wg' = wg /\ client' = client
      BY <2>2 DEF TimerReset, binding
    <3>2. \A h \in Goroutine : Counted(h)' <=> Counted(h)
      BY <2>2, <1>1 DEF TimerReset, At, Goto, Counted, Goroutine, Role
    <3> QED BY <3>1, <3>2, CountKept
  <2>3. CASE TimerExpire(k)
    <3>1. client' = client /\ Done(client[k])
      BY <2>3 DEF TimerExpire, binding
    <3>2. Counted(<<k, "timer">>) /\ ~Counted(<<k, "timer">>)'
      BY <2>3, <1>1 DEF TimerExpire, At, Counted, Goroutine, Role
    <3>3. \A h \in Goroutine \ {<<k, "timer">>} : Counted(h)' <=> Counted(h)
      BY <2>3, <1>1 DEF TimerExpire, At, Counted, Goroutine, Role
    <3>4. <<k, "timer">> \in Goroutine /\ client[k] \in Conn
      BY <1>1 DEF Goroutine, Role
    <3> QED BY <3>1, <3>2, <3>3, <3>4, CountLeave
  <2>4. CASE TimerStop(k)
    <3>1. client' = client /\ Done(client[k])
      BY <2>4 DEF TimerStop, binding
    <3>2. Counted(<<k, "timer">>) /\ ~Counted(<<k, "timer">>)'
      BY <2>4, <1>1 DEF TimerStop, At, Goto, Counted, Goroutine, Role
    <3>3. \A h \in Goroutine \ {<<k, "timer">>} : Counted(h)' <=> Counted(h)
      BY <2>4, <1>1 DEF TimerStop, At, Goto, Counted, Goroutine, Role
    <3>4. <<k, "timer">> \in Goroutine /\ client[k] \in Conn
      BY <1>1 DEF Goroutine, Role
    <3> QED BY <3>1, <3>2, <3>3, <3>4, CountLeave
  <2> QED BY <1>f, <2>1, <2>2, <2>3, <2>4 DEF TimerStep
<1>g. ASSUME NEW k \in Conn, Arrival(k) PROVE WaitGroupCounts'
  <2>1. CASE Connect(k)
    <3>1. wg' = wg /\ client' = client
      BY <2>1 DEF Connect, binding
    <3>2. \A h \in Goroutine : Counted(h)' <=> Counted(h)
      BY <2>1, <1>1 DEF Connect, At, Goto, Counted, Goroutine, Role
    <3> QED BY <3>1, <3>2, CountKept
  <2>2. CASE Reject(k)
    <3>1. wg' = wg /\ client' = client
      BY <2>2 DEF Reject, binding
    <3>2. \A h \in Goroutine : Counted(h)' <=> Counted(h)
      BY <2>2, <1>1 DEF Reject, At, Goto, Counted, Goroutine, Role
    <3> QED BY <3>1, <3>2, CountKept
  <2>3. CASE BadConnect(k)
    <3>1. wg' = wg /\ client' = client
      BY <2>3 DEF BadConnect, Crash, binding
    <3>2. \A h \in Goroutine : Counted(h)' <=> Counted(h)
      BY <2>3, <1>1 DEF BadConnect, At, Crash, Counted, Goroutine, Role
    <3> QED BY <3>1, <3>2, CountKept
  <2> QED BY <1>g, <2>1, <2>2, <2>3 DEF Arrival
<1>h. ASSUME NEW k \in Conn, NEW w \in StopRole, StopStep(k, w)
      PROVE  WaitGroupCounts'
  <2>1. CASE StopEntry(k, w)
    <3>1. wg' = wg /\ client' = client
      BY <2>1 DEF StopEntry, Crash, binding
    <3>2. \A h \in Goroutine : Counted(h)' <=> Counted(h)
      <4>1. At(k, w, "entry")
        BY <2>1 DEF StopEntry
      <4>2. CASE pc' = pc
        BY <1>1, <4>1, <4>2 DEF At, Counted, Goroutine, Role, StopRole
      <4>3. CASE Goto(k, w, "done")
        BY <1>1, <4>1, <4>3 DEF At, Goto, Counted, Goroutine, Role, StopRole
      <4>4. CASE Goto(k, w, "once")
        BY <1>1, <4>1, <4>4 DEF At, Goto, Counted, Goroutine, Role, StopRole
      <4> QED BY <2>1, <4>2, <4>3, <4>4 DEF StopEntry, Crash
    <3> QED BY <3>1, <3>2, CountKept
  <2>2. CASE StopOnce(k, w)
    <3>1. wg' = wg /\ client' = client
      BY <2>2 DEF StopOnce, binding
    <3>2. \A h \in Goroutine : Counted(h)' <=> Counted(h)
      <4>1. At(k, w, "once")
        BY <2>2 DEF StopOnce
      <4>2. CASE Goto(k, w, "close")
        BY <1>1, <4>1, <4>2 DEF At, Goto, Counted, Goroutine, Role, StopRole
      <4>3. CASE Goto(k, w, "done")
        BY <1>1, <4>1, <4>3 DEF At, Goto, Counted, Goroutine, Role, StopRole
      <4> QED BY <2>2, <4>2, <4>3 DEF StopOnce
    <3> QED BY <3>1, <3>2, CountKept
  <2>3. CASE StopClose(k, w)
    <3>1. wg' = wg /\ client' = client
      BY <2>3 DEF StopClose, Crash, binding
    <3>2. \A h \in Goroutine : Counted(h)' <=> Counted(h)
      <4>1. At(k, w, "close")
        BY <2>3 DEF StopClose
      <4>2. CASE pc' = pc
        BY <1>1, <4>1, <4>2 DEF At, Counted, Goroutine, Role, StopRole
      <4>3. CASE Goto(k, w, "drain")
        BY <1>1, <4>1, <4>3 DEF At, Goto, Counted, Goroutine, Role, StopRole
      <4> QED BY <2>3, <4>2, <4>3 DEF StopClose, Crash
    <3> QED BY <3>1, <3>2, CountKept
  <2>4. CASE StopDrain(k, w)
    <3>1. wg' = wg /\ client' = client
      BY <2>4 DEF StopDrain, binding
    <3>2. \A h \in Goroutine : Counted(h)' <=> Counted(h)
      BY <2>4, <1>1 DEF StopDrain, At, Goto, Counted, Goroutine, Role,
         StopRole
    <3> QED BY <3>1, <3>2, CountKept
  <2>5. CASE StopChannels(k, w)
    <3>1. wg' = wg /\ client' = client
      BY <2>5 DEF StopChannels, Crash, binding
    <3>2. \A h \in Goroutine : Counted(h)' <=> Counted(h)
      <4>1. At(k, w, "channels")
        BY <2>5 DEF StopChannels
      <4>2. CASE pc' = pc
        BY <1>1, <4>1, <4>2 DEF At, Counted, Goroutine, Role, StopRole
      <4>3. CASE Goto(k, w, "unmap")
        BY <1>1, <4>1, <4>3 DEF At, Goto, Counted, Goroutine, Role, StopRole
      <4>4. CASE Goto(k, w, "done")
        BY <1>1, <4>1, <4>4 DEF At, Goto, Counted, Goroutine, Role, StopRole
      <4> QED BY <2>5, <4>2, <4>3, <4>4 DEF StopChannels, Crash
    <3> QED BY <3>1, <3>2, CountKept
  <2>6. CASE StopUnmap(k, w)
    <3>1. wg' = wg /\ client' = client
      BY <2>6 DEF StopUnmap, binding
    <3>2. \A h \in Goroutine : Counted(h)' <=> Counted(h)
      BY <2>6, <1>1 DEF StopUnmap, At, Goto, Counted, Goroutine, Role,
         StopRole
    <3> QED BY <3>1, <3>2, CountKept
  <2>7. CASE StopUnsubscribe(k, w)
    <3>1. wg' = wg /\ client' = client
      BY <2>7 DEF StopUnsubscribe, binding
    <3>2. \A h \in Goroutine : Counted(h)' <=> Counted(h)
      BY <2>7, <1>1 DEF StopUnsubscribe, At, Goto, Counted, Goroutine, Role,
         StopRole
    <3> QED BY <3>1, <3>2, CountKept
  <2>8. CASE StopRelease(k, w)
    <3>1. wg' = wg /\ client' = client
      BY <2>8 DEF StopRelease, binding
    <3>2. \A h \in Goroutine : Counted(h)' <=> Counted(h)
      BY <2>8, <1>1 DEF StopRelease, At, Goto, Counted, Goroutine, Role,
         StopRole
    <3> QED BY <3>1, <3>2, CountKept
  <2> QED BY <1>h, <2>1, <2>2, <2>3, <2>4, <2>5, <2>6, <2>7, <2>8 DEF StopStep
<1>i. ASSUME NEW k \in Conn, NEW o \in Conn, WaitReused(k, o)
      PROVE  WaitGroupCounts'
  <2>1. wg' = wg /\ client' = client
    BY <1>i DEF WaitReused, Crash, binding
  <2>2. \A h \in Goroutine : Counted(h)' <=> Counted(h)
    BY <1>i DEF WaitReused, Crash, Counted
  <2> QED BY <2>1, <2>2, CountKept
<1> QED BY <1>a, <1>b, <1>c, <1>d, <1>e, <1>f, <1>g, <1>h, <1>i DEF Next
==============================================================================
