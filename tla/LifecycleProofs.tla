--------------------------- MODULE LifecycleProofs ---------------------------
(***************************************************************************)
(* Machine-checked proofs about Lifecycle, continued: the bodies of the    *)
(* sync.Once, the teardown of a session, the theorems about connections    *)
(* and goroutines, and then what the client list, the subscriptions and    *)
(* the store hold under an identifier.                                     *)
(***************************************************************************)
EXTENDS LifecycleBasics

\* Receive and Send, once they have returned, do not run again.
DoneStays == \A j \in Conn : \A r \in {"recv", "send"} :
               pc[<<j, r>>] = "done" => pc'[<<j, r>>] = "done"

\* No step restarts Receive or Send.
LEMMA DoneLasts == TypeOK /\ Order /\ [Next]_vars => DoneStays
<1> SUFFICES ASSUME TypeOK, Order, [Next]_vars
             PROVE DoneStays
  OBVIOUS
<1>1. pc \in [Goroutine -> Label]
  BY DEF TypeOK
<1>a. CASE UNCHANGED vars
  BY <1>a, <1>1 DEF vars, DoneStays, Goroutine, Role, registry, flags,
     binding, session,
     queues, seen, fault
<1>b. ASSUME NEW k \in Conn, InitStep(k) PROVE DoneStays
  <2>1. CASE InitTakeover(k)
    BY <2>1, <1>1 DEF InitTakeover, At, Goto, DoneStays, Goroutine, Role,
       registry,
       session, queues, seen, fault
  <2>2. CASE InitResume(k)
    BY <2>2, <1>1 DEF InitResume, Resumes, At, DoneStays, Goroutine, Role,
       registry,
       flags,
       session, queues, seen, fault
  <2>3. CASE InitNew(k)
    BY <2>3, <1>1 DEF InitNew, At, DoneStays, Goroutine, Role, flags, binding,
       session,
       queues, seen, fault
  <2>4. CASE TakeoverOnce(k)
    <3>1. At(k, "init", "takeover")
      BY <2>4 DEF TakeoverOnce, Crash
    <3>2. CASE pc' = pc
      BY <3>1, <3>2, <1>1 DEF At, DoneStays, Goroutine, Role
    <3>3. CASE Goto(k, "init", "drain")
      BY <3>1, <3>3, <1>1 DEF At, Goto, DoneStays, Goroutine, Role
    <3>4. CASE Goto(k, "init", "reinstall")
      BY <3>1, <3>4, <1>1 DEF At, Goto, DoneStays, Goroutine, Role
    <3> QED BY <2>4, <3>2, <3>3, <3>4 DEF TakeoverOnce, Crash
  <2>5. CASE TakeoverDrain(k)
    BY <2>5, <1>1 DEF TakeoverDrain, At, Goto, DoneStays, Goroutine, Role,
       registry,
       flags, binding, queues, seen, fault
  <2>6. CASE TakeoverInstall(k)
    BY <2>6, <1>1 DEF TakeoverInstall, At, DoneStays, Goroutine, Role,
       registry, flags,
       session, queues, seen, fault
  <2>7. CASE ServeWait(k)
    BY <2>7, <1>1 DEF ServeWait, At, Goto, DoneStays, Goroutine, Role,
       registry, flags,
       binding, session, queues, seen, fault
  <2>8. CASE ServeDone(k)
    BY <2>8, <1>1 DEF ServeDone, At, Goto, Done, DoneStays, Goroutine, Role,
       registry,
       flags, binding, session, queues, seen, fault
  <2> QED BY <1>b, <2>1, <2>2, <2>3, <2>4, <2>5, <2>6, <2>7, <2>8 DEF InitStep
<1>c. ASSUME NEW k \in Conn, StartStep(k) PROVE DoneStays
  <2>1. CASE StartOpen(k)
    <3>1. At(k, "start", "open")
      BY <2>1 DEF StartOpen
    <3>2. CASE Goto(k, "start", "connack")
      BY <3>1, <3>2, <1>1 DEF At, Goto, DoneStays, Goroutine, Role
    <3>3. CASE Goto(k, "start", "replay")
      BY <3>1, <3>3, <1>1 DEF At, Goto, DoneStays, Goroutine, Role
    <3> QED BY <2>1, <3>2, <3>3 DEF StartOpen
  <2>2. CASE StartReplay(k)
    <3>1. At(k, "start", "replay")
      BY <2>2 DEF StartReplay, Crash
    <3>2. CASE pc' = pc
      BY <3>1, <3>2, <1>1 DEF At, DoneStays, Goroutine, Role
    <3>3. CASE Goto(k, "start", "connack")
      BY <3>1, <3>3, <1>1 DEF At, Goto, DoneStays, Goroutine, Role
    <3>4. CASE Goto(k, "start", "blocked")
      BY <3>1, <3>4, <1>1 DEF At, Goto, DoneStays, Goroutine, Role
    <3> QED BY <2>2, <3>2, <3>3, <3>4 DEF StartReplay, Crash
  <2>3. CASE StartSpawn(k)
    <3>1. At(k, "start", "spawn")
      BY <2>3 DEF StartSpawn
    <3>2. pc[<<k, "recv">>] = "none" /\ pc[<<k, "send">>] = "none"
      BY <3>1 DEF At, Order
    <3>3. CASE pc' = [pc EXCEPT ![<<k, "start">>] = "state",
                               ![<<k, "recv">>] = "check",
                               ![<<k, "send">>] = "enter"]
      BY <1>1, <3>2, <3>3 DEF DoneStays, Goroutine, Role
    <3> QED BY <2>3, <3>3 DEF StartSpawn
  <2>4. CASE StartConnected(k)
    BY <2>4, <1>1 DEF StartConnected, At, Goto, DoneStays, Goroutine, Role,
       registry,
       binding, session, queues, seen, fault
  <2>5. CASE StartTimer(k)
    <3>1. At(k, "start", "timer")
      BY <2>5 DEF StartTimer
    <3>2. CASE pc' = [pc EXCEPT ![<<k, "start">>] = "done",
                               ![<<k, "timer">>] = "enter"]
      BY <3>1, <3>2, <1>1 DEF At, DoneStays, Goroutine, Role
    <3>3. CASE Goto(k, "start", "done")
      BY <3>1, <3>3, <1>1 DEF At, Goto, DoneStays, Goroutine, Role
    <3> QED BY <2>5, <3>2, <3>3 DEF StartTimer
  <2>6. CASE StartBlocked(k)
    <3>1. At(k, "start", "blocked")
      BY <2>6 DEF StartBlocked, Crash
    <3>2. CASE pc' = pc
      BY <3>1, <3>2, <1>1 DEF At, DoneStays, Goroutine, Role
    <3>3. CASE Goto(k, "start", "connack")
      BY <3>1, <3>3, <1>1 DEF At, Goto, DoneStays, Goroutine, Role
    <3> QED BY <2>6, <3>2, <3>3 DEF StartBlocked, Crash
  <2>7. CASE StartConnack(k)
    <3>1. At(k, "start", "connack")
      BY <2>7 DEF StartConnack, Crash
    <3>2. CASE pc' = pc
      BY <3>1, <3>2, <1>1 DEF At, DoneStays, Goroutine, Role
    <3>3. CASE Goto(k, "start", "spawn")
      BY <3>1, <3>3, <1>1 DEF At, Goto, DoneStays, Goroutine, Role
    <3> QED BY <2>7, <3>2, <3>3 DEF StartConnack, Crash
  <2> QED BY <1>c, <2>1, <2>2, <2>3, <2>4, <2>5, <2>6, <2>7 DEF StartStep
<1>d. ASSUME NEW k \in Conn, RecvStep(k) PROVE DoneStays
  <2>1. CASE RecvCheck(k)
    <3>1. At(k, "recv", "check")
      BY <2>1 DEF RecvCheck
    <3>2. CASE Goto(k, "recv", "done")
      BY <3>1, <3>2, <1>1 DEF At, Goto, DoneStays, Goroutine, Role
    <3>3. CASE Goto(k, "recv", "read")
      BY <3>1, <3>3, <1>1 DEF At, Goto, DoneStays, Goroutine, Role
    <3> QED BY <2>1, <3>2, <3>3 DEF RecvCheck
  <2>2. CASE RecvFail(k)
    BY <2>2, <1>1 DEF RecvFail, At, Done, DoneStays, Goroutine, Role,
       registry, flags,
       binding, session, queues, seen, fault
  <2>3. CASE RecvDisconnect(k)
    BY <2>3, <1>1 DEF RecvDisconnect, At, Arrives, Done, DoneStays, Goroutine,
       Role,
       registry, flags, binding, session, queues, fault
  <2>4. CASE RecvFlow(k)
    <3>1. At(k, "recv", "read")
      BY <2>4 DEF RecvFlow, Arrives, Crash
    <3>2. CASE pc' = pc
      BY <3>1, <3>2, <1>1 DEF At, DoneStays, Goroutine, Role
    <3>3. CASE Goto(k, "recv", "check")
      BY <3>1, <3>3, <1>1 DEF At, Goto, DoneStays, Goroutine, Role
    <3> QED BY <2>4, <3>2, <3>3 DEF RecvFlow, Arrives, Crash
  <2>5. CASE RecvRequest(k)
    BY <2>5, <1>1 DEF RecvRequest, At, Arrives, Goto, DoneStays, Goroutine,
       Role, flags,
       binding, session, queues, seen, fault
  <2>6. CASE RecvReply(k)
    <3>1. At(k, "recv", "reply")
      BY <2>6 DEF RecvReply, Crash
    <3>2. CASE pc' = pc
      BY <3>1, <3>2, <1>1 DEF At, DoneStays, Goroutine, Role
    <3>3. CASE Goto(k, "recv", "check")
      BY <3>1, <3>3, <1>1 DEF At, Goto, DoneStays, Goroutine, Role
    <3> QED BY <2>6, <3>2, <3>3 DEF RecvReply, Crash
  <2>7. CASE RecvQuiet(k)
    BY <2>7, <1>1 DEF RecvQuiet, At, Arrives, Goto, DoneStays, Goroutine,
       Role, registry,
       flags, binding, session, queues, seen, fault
  <2> QED BY <1>d, <2>1, <2>2, <2>3, <2>4, <2>5, <2>6, <2>7 DEF RecvStep
<1>e. ASSUME NEW k \in Conn, SendStep(k) PROVE DoneStays
  <2>1. CASE SendEnter(k)
    BY <2>1, <1>1 DEF SendEnter, At, Goto, DoneStays, Goroutine, Role,
       registry, flags,
       binding, session, seen, fault
  <2>2. CASE SendStop(k)
    BY <2>2, <1>1 DEF SendStop, At, Goto, Done, DoneStays, Goroutine, Role,
       registry,
       flags, binding, session, queues, seen, fault
  <2>3. CASE SendPacket(k)
    BY <2>3, <1>1 DEF SendPacket, At, Goto, DoneStays, Goroutine, Role,
       registry, flags,
       binding, session, seen, fault
  <2> QED BY <1>e, <2>1, <2>2, <2>3 DEF SendStep
<1>f. ASSUME NEW k \in Conn, TimerStep(k) PROVE DoneStays
  <2>1. CASE TimerEnter(k)
    BY <2>1, <1>1 DEF TimerEnter, At, Goto, DoneStays, Goroutine, Role,
       registry, flags,
       binding, session, queues, seen, fault
  <2>2. CASE TimerReset(k)
    BY <2>2, <1>1 DEF TimerReset, At, Goto, DoneStays, Goroutine, Role,
       registry, flags,
       binding, session, queues, seen, fault
  <2>3. CASE TimerExpire(k)
    BY <2>3, <1>1 DEF TimerExpire, At, Done, DoneStays, Goroutine, Role,
       registry, flags,
       binding, session, queues, seen, fault
  <2>4. CASE TimerStop(k)
    BY <2>4, <1>1 DEF TimerStop, At, Goto, Done, DoneStays, Goroutine, Role,
       registry,
       flags, binding, session, queues, seen, fault
  <2> QED BY <1>f, <2>1, <2>2, <2>3, <2>4 DEF TimerStep
<1>g. ASSUME NEW k \in Conn, Arrival(k) PROVE DoneStays
  <2>1. CASE Connect(k)
    BY <2>1, <1>1 DEF Connect, At, Goto, DoneStays, Goroutine, Role, registry,
       flags,
       binding, session, queues, seen, fault
  <2>2. CASE Reject(k)
    BY <2>2, <1>1 DEF Reject, At, Goto, DoneStays, Goroutine, Role, registry,
       flags,
       binding, session, queues, seen, fault
  <2>3. CASE BadConnect(k)
    BY <2>3, <1>1 DEF BadConnect, At, Crash, DoneStays, Goroutine, Role,
       registry, flags,
       binding, session, queues, seen
  <2> QED BY <1>g, <2>1, <2>2, <2>3 DEF Arrival
<1>h. ASSUME NEW k \in Conn, NEW w \in StopRole, StopStep(k, w) PROVE DoneStays
  <2>1. CASE StopEntry(k, w)
    <3>1. At(k, w, "entry")
      BY <2>1 DEF StopEntry, Crash
    <3>2. CASE pc' = pc
      BY <3>1, <3>2, <1>1 DEF At, DoneStays, Goroutine, Role, StopRole
    <3>3. CASE Goto(k, w, "done")
      BY <3>1, <3>3, <1>1 DEF At, Goto, DoneStays, Goroutine, Role, StopRole
    <3>4. CASE Goto(k, w, "once")
      BY <3>1, <3>4, <1>1 DEF At, Goto, DoneStays, Goroutine, Role, StopRole
    <3> QED BY <2>1, <3>2, <3>3, <3>4 DEF StopEntry, Crash
  <2>2. CASE StopOnce(k, w)
    <3>1. At(k, w, "once")
      BY <2>2 DEF StopOnce
    <3>2. CASE Goto(k, w, "close")
      BY <3>1, <3>2, <1>1 DEF At, Goto, DoneStays, Goroutine, Role, StopRole
    <3>3. CASE Goto(k, w, "done")
      BY <3>1, <3>3, <1>1 DEF At, Goto, DoneStays, Goroutine, Role, StopRole
    <3> QED BY <2>2, <3>2, <3>3 DEF StopOnce
  <2>3. CASE StopClose(k, w)
    <3>1. At(k, w, "close")
      BY <2>3 DEF StopClose, Crash
    <3>2. CASE pc' = pc
      BY <3>1, <3>2, <1>1 DEF At, DoneStays, Goroutine, Role, StopRole
    <3>3. CASE Goto(k, w, "drain")
      BY <3>1, <3>3, <1>1 DEF At, Goto, DoneStays, Goroutine, Role, StopRole
    <3> QED BY <2>3, <3>2, <3>3 DEF StopClose, Crash
  <2>4. CASE StopDrain(k, w)
    BY <2>4, <1>1 DEF StopDrain, At, Goto, DoneStays, Goroutine, Role,
       StopRole, registry,
       binding, session, queues, seen, fault
  <2>5. CASE StopChannels(k, w)
    <3>1. At(k, w, "channels")
      BY <2>5 DEF StopChannels, Crash
    <3>2. CASE pc' = pc
      BY <3>1, <3>2, <1>1 DEF At, DoneStays, Goroutine, Role, StopRole
    <3>3. CASE Goto(k, w, "unmap")
      BY <3>1, <3>3, <1>1 DEF At, Goto, DoneStays, Goroutine, Role, StopRole
    <3>4. CASE Goto(k, w, "done")
      BY <3>1, <3>4, <1>1 DEF At, Goto, DoneStays, Goroutine, Role, StopRole
    <3> QED BY <2>5, <3>2, <3>3, <3>4 DEF StopChannels, Crash
  <2>6. CASE StopUnmap(k, w)
    BY <2>6, <1>1 DEF StopUnmap, At, Goto, DoneStays, Goroutine, Role,
       StopRole, flags,
       binding, session, queues, seen, fault
  <2>7. CASE StopUnsubscribe(k, w)
    BY <2>7, <1>1 DEF StopUnsubscribe, At, Goto, DoneStays, Goroutine, Role,
       StopRole, flags,
       binding, session, queues, seen, fault
  <2>8. CASE StopRelease(k, w)
    BY <2>8, <1>1 DEF StopRelease, At, Goto, DoneStays, Goroutine, Role,
       StopRole, flags,
       binding, queues, seen, fault
  <2> QED BY <1>h, <2>1, <2>2, <2>3, <2>4, <2>5, <2>6, <2>7, <2>8 DEF StopStep
<1>i. ASSUME NEW k \in Conn, NEW o \in Conn, WaitReused(k, o)
      PROVE  DoneStays
  BY <1>i, <1>1 DEF WaitReused, Crash, DoneStays, Goroutine, Role,
     registry, flags,
     binding, session, queues, seen
<1> QED BY <1>a, <1>b, <1>c, <1>d, <1>e, <1>f, <1>g, <1>h, <1>i DEF Next

\* What an object's fields say of the identity of its sessions changes only
\* when InitClient hands the object, or a new session, to a connection.
Rebinds ==
  \E k \in Conn : InitTakeover(k) \/ InitResume(k) \/ TakeoverInstall(k)

\* All other steps leave the objects' sessions alone.
LEMMA BindingKept == [Next]_vars => Rebinds \/ (client' = client /\ cur' = cur)
<1> SUFFICES ASSUME [Next]_vars, ~Rebinds
             PROVE  client' = client /\ cur' = cur
  OBVIOUS
<1>1. CASE UNCHANGED vars
  BY <1>1 DEF vars, binding
<1>2. ASSUME NEW k \in Conn, InitStep(k)
      PROVE  client' = client /\ cur' = cur
  BY <1>2 DEF InitStep, InitTakeover, InitResume, Resumes, InitNew,
     TakeoverOnce,
     TakeoverDrain, TakeoverInstall, ServeWait, ServeDone, Rebinds, Crash,
     binding
<1>3. ASSUME NEW k \in Conn, StartStep(k)
      PROVE  client' = client /\ cur' = cur
  BY <1>3 DEF StartStep, StartOpen, StartReplay, StartBlocked, StartConnack,
     StartSpawn, StartConnected, StartTimer, Rebinds, Crash, binding
<1>4. ASSUME NEW k \in Conn, RecvStep(k)
      PROVE  client' = client /\ cur' = cur
  BY <1>4 DEF RecvStep, RecvCheck, RecvFail, RecvDisconnect, RecvFlow,
     RecvRequest, RecvReply, RecvQuiet, Rebinds, Crash, binding
<1>5. ASSUME NEW k \in Conn, SendStep(k)
      PROVE  client' = client /\ cur' = cur
  BY <1>5 DEF SendStep, SendEnter, SendStop, SendPacket, Rebinds, Crash,
     binding
<1>6. ASSUME NEW k \in Conn, TimerStep(k)
      PROVE  client' = client /\ cur' = cur
  BY <1>6 DEF TimerStep, TimerEnter, TimerReset, TimerExpire, TimerStop,
     Rebinds, Crash, binding
<1>7. ASSUME NEW k \in Conn, Arrival(k)
      PROVE  client' = client /\ cur' = cur
  BY <1>7 DEF Arrival, Connect, Reject, BadConnect, Rebinds, Crash, binding
<1>8. ASSUME NEW k \in Conn, NEW w \in StopRole, StopStep(k, w)
      PROVE  client' = client /\ cur' = cur
  BY <1>8 DEF StopStep, StopEntry, StopOnce, StopClose, StopDrain,
     StopChannels, StopUnmap, StopUnsubscribe, StopRelease, Rebinds, Crash,
     binding
<1>9. ASSUME NEW k \in Conn, NEW o \in Conn, WaitReused(k, o)
      PROVE  client' = client /\ cur' = cur
  BY <1>9 DEF WaitReused, Crash, binding
<1> QED BY <1>1, <1>2, <1>3, <1>4, <1>5, <1>6, <1>7, <1>8, <1>9 DEF Next

\* An object that is shared stays shared.
LEMMA SoleLasts ==
  ASSUME TypeOK, Order, Owned, [Next]_vars, NEW p \in Conn, Sole(p)'
  PROVE  Sole(p)
<1>1. client \in [Conn -> Conn] /\ clients \in [ClientId -> Conn \cup {Nil}]
  BY DEF TypeOK
<1>2. CASE client' = client
  BY <1>2 DEF Sole
<1>3. ASSUME NEW k \in Conn, InitTakeover(k) \/ InitResume(k) PROVE Sole(p)
  <2>1. client' = [client EXCEPT ![k] = clients[Id(k)]]
    BY <1>3 DEF InitTakeover, InitResume, Resumes
  <2>2. client[k] = k /\ clients[Id(k)] # k /\ clients[Id(k)] \in Conn
    <3>1. Id(k) \in ClientId /\ clients[Id(k)] # Nil
      BY <1>3 DEF InitTakeover, InitResume, Resumes, Known, Id, TypeOK
    <3>2. pc[<<k, "init">>] = "lock"
      BY <1>3 DEF InitTakeover, InitResume, Resumes, At
    <3>3. Created(clients[Id(k)]) /\ clients[Id(k)] \in Conn
      BY <1>1, <3>1 DEF Owned
    <3> QED BY <3>2, <3>3 DEF Order, Created
  <2>3. p # k /\ p # clients[Id(k)]
    BY <1>1, <2>1, <2>2 DEF Sole
  <2> QED BY <1>1, <2>1, <2>2, <2>3 DEF Sole
<1>4. ASSUME NEW k \in Conn, TakeoverInstall(k) PROVE Sole(p)
  BY <1>2, <1>4 DEF TakeoverInstall
<1> QED BY <1>2, <1>3, <1>4, BindingKept DEF Rebinds

\* StopForTakeover's wait is entered by TakeoverOnce only.
DrainsFrom == \A j \in Conn : pc'[<<j, "init">>] = "drain" =>
                TakeoverOnce(j) \/ pc[<<j, "init">>] = "drain"

\* All other steps leave StopForTakeover's wait alone.
LEMMA DrainStarts == TypeOK /\ [Next]_vars => DrainsFrom
<1> SUFFICES ASSUME TypeOK, [Next]_vars
             PROVE DrainsFrom
  OBVIOUS
<1>1. pc \in [Goroutine -> Label]
  BY DEF TypeOK
<1>a. CASE UNCHANGED vars
  BY <1>a, <1>1 DEF vars, DrainsFrom, Goroutine, Role, registry, flags,
     binding, session, queues, seen, fault
<1>b. ASSUME NEW k \in Conn, InitStep(k) PROVE DrainsFrom
  <2>1. CASE InitTakeover(k)
    BY <2>1, <1>1 DEF InitTakeover, At, Goto, DrainsFrom, Goroutine, Role,
       registry, session, queues, seen, fault
  <2>2. CASE InitResume(k)
    BY <2>2, <1>1 DEF InitResume, Resumes, At, DrainsFrom, Goroutine, Role,
       registry,
       flags, session, queues, seen, fault
  <2>3. CASE InitNew(k)
    BY <2>3, <1>1 DEF InitNew, At, DrainsFrom, Goroutine, Role, flags, binding,
       session, queues, seen, fault
  <2>4. CASE TakeoverOnce(k)
    <3>1. \A j \in Conn \ {k} : pc'[<<j, "init">>] = pc[<<j, "init">>]
      BY <2>4, <1>1 DEF TakeoverOnce, Goto, Crash, Goroutine, Role
    <3> QED BY <2>4, <3>1 DEF DrainsFrom
  <2>5. CASE TakeoverDrain(k)
    BY <2>5, <1>1 DEF TakeoverDrain, At, Goto, DrainsFrom, Goroutine, Role,
       registry, flags, binding, queues, seen, fault
  <2>6. CASE TakeoverInstall(k)
    BY <2>6, <1>1 DEF TakeoverInstall, At, DrainsFrom, Goroutine, Role,
       registry, flags, session, queues, seen, fault
  <2>7. CASE ServeWait(k)
    BY <2>7, <1>1 DEF ServeWait, At, Goto, DrainsFrom, Goroutine, Role,
       registry, flags, binding, session, queues, seen, fault
  <2>8. CASE ServeDone(k)
    BY <2>8, <1>1 DEF ServeDone, At, Goto, Done, DrainsFrom, Goroutine, Role,
       registry, flags, binding, session, queues, seen, fault
  <2> QED BY <1>b, <2>1, <2>2, <2>3, <2>4, <2>5, <2>6, <2>7, <2>8 DEF InitStep
<1>c. ASSUME NEW k \in Conn, StartStep(k) PROVE DrainsFrom
  <2>1. CASE StartOpen(k)
    <3>1. At(k, "start", "open")
      BY <2>1 DEF StartOpen
    <3>2. CASE Goto(k, "start", "connack")
      BY <3>1, <3>2, <1>1 DEF At, Goto, DrainsFrom, Goroutine, Role
    <3>3. CASE Goto(k, "start", "replay")
      BY <3>1, <3>3, <1>1 DEF At, Goto, DrainsFrom, Goroutine, Role
    <3> QED BY <2>1, <3>2, <3>3 DEF StartOpen
  <2>2. CASE StartReplay(k)
    <3>1. At(k, "start", "replay")
      BY <2>2 DEF StartReplay, Crash
    <3>2. CASE pc' = pc
      BY <3>1, <3>2, <1>1 DEF At, DrainsFrom, Goroutine, Role
    <3>3. CASE Goto(k, "start", "connack")
      BY <3>1, <3>3, <1>1 DEF At, Goto, DrainsFrom, Goroutine, Role
    <3>4. CASE Goto(k, "start", "blocked")
      BY <3>1, <3>4, <1>1 DEF At, Goto, DrainsFrom, Goroutine, Role
    <3> QED BY <2>2, <3>2, <3>3, <3>4 DEF StartReplay, Crash
  <2>3. CASE StartSpawn(k)
    <3>1. At(k, "start", "spawn")
      BY <2>3 DEF StartSpawn
    <3>2. CASE pc' = [pc EXCEPT ![<<k, "start">>] = "state",
                               ![<<k, "recv">>] = "check",
                               ![<<k, "send">>] = "enter"]
      BY <3>1, <3>2, <1>1 DEF At, DrainsFrom, Goroutine, Role
    <3> QED BY <2>3, <3>2 DEF StartSpawn
  <2>4. CASE StartConnected(k)
    BY <2>4, <1>1 DEF StartConnected, At, Goto, DrainsFrom, Goroutine, Role,
       registry, binding, session, queues, seen, fault
  <2>5. CASE StartTimer(k)
    <3>1. At(k, "start", "timer")
      BY <2>5 DEF StartTimer
    <3>2. CASE pc' = [pc EXCEPT ![<<k, "start">>] = "done",
                               ![<<k, "timer">>] = "enter"]
      BY <3>1, <3>2, <1>1 DEF At, DrainsFrom, Goroutine, Role
    <3>3. CASE Goto(k, "start", "done")
      BY <3>1, <3>3, <1>1 DEF At, Goto, DrainsFrom, Goroutine, Role
    <3> QED BY <2>5, <3>2, <3>3 DEF StartTimer
  <2>6. CASE StartBlocked(k)
    <3>1. At(k, "start", "blocked")
      BY <2>6 DEF StartBlocked, Crash
    <3>2. CASE pc' = pc
      BY <3>1, <3>2, <1>1 DEF At, DrainsFrom, Goroutine, Role
    <3>3. CASE Goto(k, "start", "connack")
      BY <3>1, <3>3, <1>1 DEF At, Goto, DrainsFrom, Goroutine, Role
    <3> QED BY <2>6, <3>2, <3>3 DEF StartBlocked, Crash
  <2>7. CASE StartConnack(k)
    <3>1. At(k, "start", "connack")
      BY <2>7 DEF StartConnack, Crash
    <3>2. CASE pc' = pc
      BY <3>1, <3>2, <1>1 DEF At, DrainsFrom, Goroutine, Role
    <3>3. CASE Goto(k, "start", "spawn")
      BY <3>1, <3>3, <1>1 DEF At, Goto, DrainsFrom, Goroutine, Role
    <3> QED BY <2>7, <3>2, <3>3 DEF StartConnack, Crash
  <2> QED BY <1>c, <2>1, <2>2, <2>3, <2>4, <2>5, <2>6, <2>7 DEF StartStep
<1>d. ASSUME NEW k \in Conn, RecvStep(k) PROVE DrainsFrom
  <2>1. CASE RecvCheck(k)
    <3>1. At(k, "recv", "check")
      BY <2>1 DEF RecvCheck
    <3>2. CASE Goto(k, "recv", "done")
      BY <3>1, <3>2, <1>1 DEF At, Goto, DrainsFrom, Goroutine, Role
    <3>3. CASE Goto(k, "recv", "read")
      BY <3>1, <3>3, <1>1 DEF At, Goto, DrainsFrom, Goroutine, Role
    <3> QED BY <2>1, <3>2, <3>3 DEF RecvCheck
  <2>2. CASE RecvFail(k)
    BY <2>2, <1>1 DEF RecvFail, At, Done, DrainsFrom, Goroutine, Role,
       registry, flags, binding, session, queues, seen, fault
  <2>3. CASE RecvDisconnect(k)
    BY <2>3, <1>1 DEF RecvDisconnect, At, Arrives, Done, DrainsFrom, Goroutine,
       Role, registry, flags, binding, session, queues, fault
  <2>4. CASE RecvFlow(k)
    <3>1. At(k, "recv", "read")
      BY <2>4 DEF RecvFlow, Arrives, Crash
    <3>2. CASE pc' = pc
      BY <3>1, <3>2, <1>1 DEF At, DrainsFrom, Goroutine, Role
    <3>3. CASE Goto(k, "recv", "check")
      BY <3>1, <3>3, <1>1 DEF At, Goto, DrainsFrom, Goroutine, Role
    <3> QED BY <2>4, <3>2, <3>3 DEF RecvFlow, Arrives, Crash
  <2>5. CASE RecvRequest(k)
    BY <2>5, <1>1 DEF RecvRequest, At, Arrives, Goto, DrainsFrom, Goroutine,
       Role, flags, binding, session, queues, seen, fault
  <2>6. CASE RecvReply(k)
    <3>1. At(k, "recv", "reply")
      BY <2>6 DEF RecvReply, Crash
    <3>2. CASE pc' = pc
      BY <3>1, <3>2, <1>1 DEF At, DrainsFrom, Goroutine, Role
    <3>3. CASE Goto(k, "recv", "check")
      BY <3>1, <3>3, <1>1 DEF At, Goto, DrainsFrom, Goroutine, Role
    <3> QED BY <2>6, <3>2, <3>3 DEF RecvReply, Crash
  <2>7. CASE RecvQuiet(k)
    BY <2>7, <1>1 DEF RecvQuiet, At, Arrives, Goto, DrainsFrom, Goroutine,
       Role, registry, flags, binding, session, queues, seen, fault
  <2> QED BY <1>d, <2>1, <2>2, <2>3, <2>4, <2>5, <2>6, <2>7 DEF RecvStep
<1>e. ASSUME NEW k \in Conn, SendStep(k) PROVE DrainsFrom
  <2>1. CASE SendEnter(k)
    BY <2>1, <1>1 DEF SendEnter, At, Goto, DrainsFrom, Goroutine, Role,
       registry, flags, binding, session, seen, fault
  <2>2. CASE SendStop(k)
    BY <2>2, <1>1 DEF SendStop, At, Goto, Done, DrainsFrom, Goroutine, Role,
       registry, flags, binding, session, queues, seen, fault
  <2>3. CASE SendPacket(k)
    BY <2>3, <1>1 DEF SendPacket, At, Goto, DrainsFrom, Goroutine, Role,
       registry, flags, binding, session, seen, fault
  <2> QED BY <1>e, <2>1, <2>2, <2>3 DEF SendStep
<1>f. ASSUME NEW k \in Conn, TimerStep(k) PROVE DrainsFrom
  <2>1. CASE TimerEnter(k)
    BY <2>1, <1>1 DEF TimerEnter, At, Goto, DrainsFrom, Goroutine, Role,
       registry, flags, binding, session, queues, seen, fault
  <2>2. CASE TimerReset(k)
    BY <2>2, <1>1 DEF TimerReset, At, Goto, DrainsFrom, Goroutine, Role,
       registry, flags, binding, session, queues, seen, fault
  <2>3. CASE TimerExpire(k)
    BY <2>3, <1>1 DEF TimerExpire, At, Done, DrainsFrom, Goroutine, Role,
       registry, flags, binding, session, queues, seen, fault
  <2>4. CASE TimerStop(k)
    BY <2>4, <1>1 DEF TimerStop, At, Goto, Done, DrainsFrom, Goroutine, Role,
       registry, flags, binding, session, queues, seen, fault
  <2> QED BY <1>f, <2>1, <2>2, <2>3, <2>4 DEF TimerStep
<1>g. ASSUME NEW k \in Conn, Arrival(k) PROVE DrainsFrom
  <2>1. CASE Connect(k)
    BY <2>1, <1>1 DEF Connect, At, Goto, DrainsFrom, Goroutine, Role, registry,
       flags, binding, session, queues, seen, fault
  <2>2. CASE Reject(k)
    BY <2>2, <1>1 DEF Reject, At, Goto, DrainsFrom, Goroutine, Role, registry,
       flags, binding, session, queues, seen, fault
  <2>3. CASE BadConnect(k)
    BY <2>3, <1>1 DEF BadConnect, At, Crash, DrainsFrom, Goroutine, Role,
       registry, flags, binding, session, queues, seen
  <2> QED BY <1>g, <2>1, <2>2, <2>3 DEF Arrival
<1>h. ASSUME NEW k \in Conn, NEW w \in StopRole, StopStep(k, w)
      PROVE  DrainsFrom
  <2>1. CASE StopEntry(k, w)
    <3>1. At(k, w, "entry")
      BY <2>1 DEF StopEntry, Crash
    <3>2. CASE pc' = pc
      BY <3>1, <3>2, <1>1 DEF At, DrainsFrom, Goroutine, Role, StopRole
    <3>3. CASE Goto(k, w, "done")
      BY <3>1, <3>3, <1>1 DEF At, Goto, DrainsFrom, Goroutine, Role, StopRole
    <3>4. CASE Goto(k, w, "once")
      BY <3>1, <3>4, <1>1 DEF At, Goto, DrainsFrom, Goroutine, Role, StopRole
    <3> QED BY <2>1, <3>2, <3>3, <3>4 DEF StopEntry, Crash
  <2>2. CASE StopOnce(k, w)
    <3>1. At(k, w, "once")
      BY <2>2 DEF StopOnce
    <3>2. CASE Goto(k, w, "close")
      BY <3>1, <3>2, <1>1 DEF At, Goto, DrainsFrom, Goroutine, Role, StopRole
    <3>3. CASE Goto(k, w, "done")
      BY <3>1, <3>3, <1>1 DEF At, Goto, DrainsFrom, Goroutine, Role, StopRole
    <3> QED BY <2>2, <3>2, <3>3 DEF StopOnce
  <2>3. CASE StopClose(k, w)
    <3>1. At(k, w, "close")
      BY <2>3 DEF StopClose, Crash
    <3>2. CASE pc' = pc
      BY <3>1, <3>2, <1>1 DEF At, DrainsFrom, Goroutine, Role, StopRole
    <3>3. CASE Goto(k, w, "drain")
      BY <3>1, <3>3, <1>1 DEF At, Goto, DrainsFrom, Goroutine, Role, StopRole
    <3> QED BY <2>3, <3>2, <3>3 DEF StopClose, Crash
  <2>4. CASE StopDrain(k, w)
    BY <2>4, <1>1 DEF StopDrain, At, Goto, DrainsFrom, Goroutine, Role,
       StopRole, registry, binding, session, queues, seen, fault
  <2>5. CASE StopChannels(k, w)
    <3>1. At(k, w, "channels")
      BY <2>5 DEF StopChannels, Crash
    <3>2. CASE pc' = pc
      BY <3>1, <3>2, <1>1 DEF At, DrainsFrom, Goroutine, Role, StopRole
    <3>3. CASE Goto(k, w, "unmap")
      BY <3>1, <3>3, <1>1 DEF At, Goto, DrainsFrom, Goroutine, Role, StopRole
    <3>4. CASE Goto(k, w, "done")
      BY <3>1, <3>4, <1>1 DEF At, Goto, DrainsFrom, Goroutine, Role, StopRole
    <3> QED BY <2>5, <3>2, <3>3, <3>4 DEF StopChannels, Crash
  <2>6. CASE StopUnmap(k, w)
    BY <2>6, <1>1 DEF StopUnmap, At, Goto, DrainsFrom, Goroutine, Role,
       StopRole, flags, binding, session, queues, seen, fault
  <2>7. CASE StopUnsubscribe(k, w)
    BY <2>7, <1>1 DEF StopUnsubscribe, At, Goto, DrainsFrom, Goroutine, Role,
       StopRole, flags, binding, session, queues, seen, fault
  <2>8. CASE StopRelease(k, w)
    BY <2>8, <1>1 DEF StopRelease, At, Goto, DrainsFrom, Goroutine, Role,
       StopRole, flags, binding, queues, seen, fault
  <2> QED BY <1>h, <2>1, <2>2, <2>3, <2>4, <2>5, <2>6, <2>7, <2>8 DEF StopStep
<1>i. ASSUME NEW k \in Conn, NEW o \in Conn, WaitReused(k, o)
      PROVE  DrainsFrom
  BY <1>i, <1>1 DEF WaitReused, Crash, DrainsFrom, Goroutine, Role,
     registry, flags, binding, session, queues, seen
<1> QED BY <1>a, <1>b, <1>c, <1>d, <1>e, <1>f, <1>g, <1>h, <1>i DEF Next

\* The lock keeps the session StopForTakeover waits for in its object.
LEMMA DrainKept ==
  ASSUME TypeOK, OneHolder, [Next]_vars,
         NEW k \in Conn,
         pc[<<k, "init">>] = "drain", pc'[<<k, "init">>] = "drain"
  PROVE  cur'[client'[k]] = cur[client[k]]
<1>1. CASE client' = client /\ cur' = cur
  BY <1>1
<1>2. ASSUME NEW j \in Conn, InitTakeover(j) \/ InitResume(j) PROVE FALSE
  BY <1>2 DEF InitTakeover, InitResume, Resumes, Locked, Holds
<1>3. ASSUME NEW j \in Conn, TakeoverInstall(j) PROVE FALSE
  <2>1. Holds(j) /\ pc[<<j, "init">>] # "drain"
    BY <1>3 DEF TakeoverInstall, At, Holds
  <2> QED BY <2>1 DEF OneHolder, Holds
<1> QED BY <1>1, <1>2, <1>3, BindingKept DEF Rebinds

-----------------------------------------------------------------------------

\* A step outside the bodies of stopOnce, and away from what they protect.
Apart ==
  /\ UNCHANGED <<once, stopped, chanClosed, wills>>
  /\ \A g \in Stopper : /\ on'[g] = on[g]
                         /\ \/ pc'[g] = pc[g]
                            \/ ~InBody(g) /\ ~InBody(g)'

\* A step of such a body.
Teardown ==
  \E k \in Conn :
    \/ TakeoverOnce(k) \/ TakeoverDrain(k)
    \/ \E w \in StopRole :
         \/ StopOnce(k, w) \/ StopClose(k, w) \/ StopDrain(k, w)
         \/ StopChannels(k, w) \/ StopUnmap(k, w)
         \/ StopUnsubscribe(k, w) \/ StopRelease(k, w)

\* Every step is apart from the bodies or a step of one.
LEMMA ApartOrTeardown == TypeOK /\ Order /\ [Next]_vars => Apart \/ Teardown
<1> SUFFICES ASSUME TypeOK, Order, [Next]_vars
             PROVE Apart \/ Teardown
  OBVIOUS
<1>1. pc \in [Goroutine -> Label] /\ on \in [Goroutine -> Conn]
  BY DEF TypeOK
<1>a. CASE UNCHANGED vars
  BY <1>a, <1>1 DEF vars, Apart, InBody, Goroutine, Role, Stopper, StopRole,
     registry, flags, binding, session, queues, seen, fault
<1>b. ASSUME NEW k \in Conn, InitStep(k) PROVE Apart \/ Teardown
  <2>1. CASE InitTakeover(k)
    BY <2>1, <1>1 DEF InitTakeover, At, Goto, Apart, InBody, Goroutine, Role,
       Stopper, StopRole, registry, session, queues, seen, fault
  <2>2. CASE InitResume(k)
    BY <2>2, <1>1 DEF InitResume, Resumes, At, Apart, InBody, Goroutine, Role,
       Stopper,
       StopRole, registry, flags, session, queues, seen, fault
  <2>3. CASE InitNew(k)
    BY <2>3, <1>1 DEF InitNew, At, Apart, InBody, Goroutine, Role, Stopper,
       StopRole, flags, binding, session, queues, seen, fault
  <2>4. CASE TakeoverOnce(k)
    BY <2>4 DEF Teardown
  <2>5. CASE TakeoverDrain(k)
    BY <2>5 DEF Teardown
  <2>6. CASE TakeoverInstall(k)
    BY <2>6, <1>1 DEF TakeoverInstall, At, Apart, InBody, Goroutine, Role,
       Stopper, StopRole, registry, flags, session, queues, seen, fault
  <2>7. CASE ServeWait(k)
    <3>1. UNCHANGED <<once, stopped, chanClosed, wills>>
      BY <2>7 DEF ServeWait, session, queues, seen
    <3>2. \A g \in Stopper : on'[g] = on[g]
      BY <2>7, <1>1 DEF ServeWait, Goroutine, Role, Stopper, StopRole
    <3>3. \A g \in Stopper : pc'[g] = pc[g]
      BY <2>7, <1>1
      DEF ServeWait, Goto, Goroutine, Role, Stopper, StopRole
    <3> QED BY <3>1, <3>2, <3>3 DEF Apart
  <2>8. CASE ServeDone(k)
    BY <2>8, <1>1 DEF ServeDone, At, Goto, Done, Apart, InBody, Goroutine,
       Role, Stopper, StopRole, registry, flags, binding, session, queues,
       seen, fault
  <2> QED BY <1>b, <2>1, <2>2, <2>3, <2>4, <2>5, <2>6, <2>7, <2>8 DEF InitStep
<1>c. ASSUME NEW k \in Conn, StartStep(k) PROVE Apart \/ Teardown
  <2>1. CASE StartOpen(k)
    <3>1. /\ At(k, "start", "open")
          /\ UNCHANGED <<once, stopped, chanClosed, wills, on>>
      BY <2>1 DEF StartOpen, session, queues, seen
    <3>2. CASE Goto(k, "start", "connack")
      BY <3>1, <3>2, <1>1 DEF At, Goto, Apart, InBody, Goroutine, Role,
         Stopper, StopRole
    <3>3. CASE Goto(k, "start", "replay")
      BY <3>1, <3>3, <1>1 DEF At, Goto, Apart, InBody, Goroutine, Role,
         Stopper, StopRole
    <3> QED BY <2>1, <3>2, <3>3 DEF StartOpen
  <2>2. CASE StartReplay(k)
    <3>1. UNCHANGED <<once, stopped, chanClosed, wills>>
      BY <2>2 DEF StartReplay, Crash, session, queues, seen
    <3>2. \A g \in Stopper : on'[g] = on[g]
      BY <2>2, <1>1 DEF StartReplay, Crash, Goroutine, Role, Stopper, StopRole
    <3>3. \A g \in Stopper : pc'[g] = pc[g]
      BY <2>2, <1>1
      DEF StartReplay, Crash, Goto, Goroutine, Role, Stopper, StopRole
    <3> QED BY <3>1, <3>2, <3>3 DEF Apart
  <2>3. CASE StartSpawn(k)
    <3>1. /\ At(k, "start", "spawn")
          /\ UNCHANGED <<once, stopped, chanClosed, wills, on>>
      BY <2>3 DEF StartSpawn, session, queues, seen
    <3>2. CASE pc' = [pc EXCEPT ![<<k, "start">>] = "state",
                               ![<<k, "recv">>] = "check",
                               ![<<k, "send">>] = "enter"]
      BY <3>1, <3>2, <1>1 DEF At, Apart, InBody, Goroutine, Role, Stopper,
         StopRole
    <3> QED BY <2>3, <3>2 DEF StartSpawn
  <2>4. CASE StartConnected(k)
    BY <2>4, <1>1 DEF StartConnected, At, Goto, Apart, InBody, Goroutine, Role,
       Stopper, StopRole, registry, binding, session, queues, seen, fault
  <2>5. CASE StartTimer(k)
    <3>1. /\ At(k, "start", "timer")
          /\ UNCHANGED <<once, stopped, chanClosed, wills, on>>
      BY <2>5 DEF StartTimer, session, queues, seen
    <3>2. CASE pc' = [pc EXCEPT ![<<k, "start">>] = "done",
                               ![<<k, "timer">>] = "enter"]
      BY <3>1, <3>2, <1>1 DEF At, Apart, InBody, Goroutine, Role, Stopper,
         StopRole
    <3>3. CASE Goto(k, "start", "done")
      BY <3>1, <3>3, <1>1 DEF At, Goto, Apart, InBody, Goroutine, Role,
         Stopper, StopRole
    <3> QED BY <2>5, <3>2, <3>3 DEF StartTimer
  <2>6. CASE StartBlocked(k)
    <3>1. /\ At(k, "start", "blocked")
          /\ UNCHANGED <<once, stopped, chanClosed, wills, on>>
      BY <2>6 DEF StartBlocked, Crash, session, queues, seen
    <3>2. CASE pc' = pc
      BY <3>1, <3>2, <1>1 DEF At, Apart, InBody, Goroutine, Role, Stopper,
         StopRole
    <3>3. CASE Goto(k, "start", "connack")
      BY <3>1, <3>3, <1>1 DEF At, Goto, Apart, InBody, Goroutine, Role,
         Stopper, StopRole
    <3> QED BY <2>6, <3>2, <3>3 DEF StartBlocked, Crash
  <2>7. CASE StartConnack(k)
    <3>1. /\ At(k, "start", "connack")
          /\ UNCHANGED <<once, stopped, chanClosed, wills, on>>
      BY <2>7 DEF StartConnack, Crash, session, queues, seen
    <3>2. CASE pc' = pc
      BY <3>1, <3>2, <1>1 DEF At, Apart, InBody, Goroutine, Role, Stopper,
         StopRole
    <3>3. CASE Goto(k, "start", "spawn")
      BY <3>1, <3>3, <1>1 DEF At, Goto, Apart, InBody, Goroutine, Role,
         Stopper, StopRole
    <3> QED BY <2>7, <3>2, <3>3 DEF StartConnack, Crash
  <2> QED BY <1>c, <2>1, <2>2, <2>3, <2>4, <2>5, <2>6, <2>7 DEF StartStep
<1>d. ASSUME NEW k \in Conn, RecvStep(k) PROVE Apart \/ Teardown
  <2>1. CASE RecvCheck(k)
    <3>1. UNCHANGED <<once, stopped, chanClosed, wills>>
      BY <2>1 DEF RecvCheck, session, queues, seen
    <3>2. \A g \in Stopper : on'[g] = on[g]
      BY <2>1, <1>1 DEF RecvCheck, Goroutine, Role, Stopper, StopRole
    <3>3. \A g \in Stopper : pc'[g] = pc[g]
      BY <2>1, <1>1
      DEF RecvCheck, Goto, Goroutine, Role, Stopper, StopRole
    <3> QED BY <3>1, <3>2, <3>3 DEF Apart
  <2>2. CASE RecvFail(k)
    <3>1. UNCHANGED <<once, stopped, chanClosed, wills, on>>
      BY <2>2 DEF RecvFail, session, queues, seen
    <3>2. pc[<<k, "recvStop">>] = "none"
      BY <2>2 DEF RecvFail, Arrives, At, Order
    <3>3. pc' = [pc EXCEPT ![<<k, "recv">>] = "done",
                          ![<<k, "recvStop">>] = "entry"]
      BY <2>2 DEF RecvFail
    <3>4. \A g \in Stopper :
            g # <<k, "recvStop">> => pc'[g] = pc[g]
      BY <1>1, <3>3 DEF Goroutine, Role, Stopper, StopRole
    <3>5. ~InBody(<<k, "recvStop">>) /\ ~InBody(<<k, "recvStop">>)'
      BY <1>1, <3>2, <3>3 DEF InBody, ChannelsClosed, Goroutine, Role
    <3> QED BY <3>1, <3>4, <3>5 DEF Apart
  <2>3. CASE RecvDisconnect(k)
    <3>1. UNCHANGED <<once, stopped, chanClosed, wills, on>>
      BY <2>3 DEF RecvDisconnect, session, queues
    <3>2. pc[<<k, "recvStop">>] = "none"
      BY <2>3 DEF RecvDisconnect, Arrives, At, Order
    <3>3. pc' = [pc EXCEPT ![<<k, "recv">>] = "done",
                          ![<<k, "recvStop">>] = "entry"]
      BY <2>3 DEF RecvDisconnect
    <3>4. \A g \in Stopper :
            g # <<k, "recvStop">> => pc'[g] = pc[g]
      BY <1>1, <3>3 DEF Goroutine, Role, Stopper, StopRole
    <3>5. ~InBody(<<k, "recvStop">>) /\ ~InBody(<<k, "recvStop">>)'
      BY <1>1, <3>2, <3>3 DEF InBody, ChannelsClosed, Goroutine, Role
    <3> QED BY <3>1, <3>4, <3>5 DEF Apart
  <2>4. CASE RecvFlow(k)
    <3>1. /\ At(k, "recv", "read")
          /\ UNCHANGED <<once, stopped, chanClosed, wills, on>>
      BY <2>4 DEF RecvFlow, Arrives, Crash, session, queues, seen
    <3>2. CASE pc' = pc
      BY <3>1, <3>2, <1>1 DEF At, Apart, InBody, Goroutine, Role, Stopper,
         StopRole
    <3>3. CASE Goto(k, "recv", "check")
      BY <3>1, <3>3, <1>1 DEF At, Goto, Apart, InBody, Goroutine, Role,
         Stopper, StopRole
    <3> QED BY <2>4, <3>2, <3>3 DEF RecvFlow, Arrives, Crash
  <2>5. CASE RecvRequest(k)
    <3>1. UNCHANGED <<once, stopped, chanClosed, wills>>
      BY <2>5 DEF RecvRequest, session, queues, seen
    <3>2. \A g \in Stopper : on'[g] = on[g]
      BY <2>5, <1>1 DEF RecvRequest, Goroutine, Role, Stopper, StopRole
    <3>3. \A g \in Stopper : pc'[g] = pc[g]
      BY <2>5, <1>1
      DEF RecvRequest, Goto, Goroutine, Role, Stopper, StopRole
    <3> QED BY <3>1, <3>2, <3>3 DEF Apart
  <2>6. CASE RecvReply(k)
    <3>1. /\ At(k, "recv", "reply")
          /\ UNCHANGED <<once, stopped, chanClosed, wills, on>>
      BY <2>6 DEF RecvReply, Crash, session, queues, seen
    <3>2. CASE pc' = pc
      BY <3>1, <3>2, <1>1 DEF At, Apart, InBody, Goroutine, Role, Stopper,
         StopRole
    <3>3. CASE Goto(k, "recv", "check")
      BY <3>1, <3>3, <1>1 DEF At, Goto, Apart, InBody, Goroutine, Role,
         Stopper, StopRole
    <3> QED BY <2>6, <3>2, <3>3 DEF RecvReply, Crash
  <2>7. CASE RecvQuiet(k)
    BY <2>7, <1>1 DEF RecvQuiet, At, Arrives, Goto, Apart, InBody, Goroutine,
       Role, Stopper, StopRole, registry, flags, binding, session, queues,
       seen, fault
  <2> QED BY <1>d, <2>1, <2>2, <2>3, <2>4, <2>5, <2>6, <2>7 DEF RecvStep
<1>e. ASSUME NEW k \in Conn, SendStep(k) PROVE Apart \/ Teardown
  <2>1. CASE SendEnter(k)
    <3>1. UNCHANGED <<once, stopped, chanClosed, wills>>
      BY <2>1 DEF SendEnter, session, queues, seen
    <3>2. \A g \in Stopper : on'[g] = on[g]
      BY <2>1, <1>1 DEF SendEnter, Goroutine, Role, Stopper, StopRole
    <3>3. \A g \in Stopper : pc'[g] = pc[g]
      BY <2>1, <1>1
      DEF SendEnter, Goto, Goroutine, Role, Stopper, StopRole
    <3> QED BY <3>1, <3>2, <3>3 DEF Apart
  <2>2. CASE SendStop(k)
    BY <2>2, <1>1 DEF SendStop, At, Goto, Done, Apart, InBody, Goroutine, Role,
       Stopper, StopRole, registry, flags, binding, session, queues, seen,
       fault
  <2>3. CASE SendPacket(k)
    BY <2>3, <1>1 DEF SendPacket, At, Goto, Apart, InBody, Goroutine, Role,
       Stopper, StopRole, registry, flags, binding, session, seen, fault
  <2> QED BY <1>e, <2>1, <2>2, <2>3 DEF SendStep
<1>f. ASSUME NEW k \in Conn, TimerStep(k) PROVE Apart \/ Teardown
  <2>1. CASE TimerEnter(k)
    <3>1. UNCHANGED <<once, stopped, chanClosed, wills>>
      BY <2>1 DEF TimerEnter, session, queues, seen
    <3>2. \A g \in Stopper : on'[g] = on[g]
      BY <2>1, <1>1 DEF TimerEnter, Goroutine, Role, Stopper, StopRole
    <3>3. \A g \in Stopper : pc'[g] = pc[g]
      BY <2>1, <1>1
      DEF TimerEnter, Goto, Goroutine, Role, Stopper, StopRole
    <3> QED BY <3>1, <3>2, <3>3 DEF Apart
  <2>2. CASE TimerReset(k)
    BY <2>2, <1>1 DEF TimerReset, At, Goto, Apart, InBody, Goroutine, Role,
       Stopper, StopRole, registry, flags, binding, session, queues, seen,
       fault
  <2>3. CASE TimerExpire(k)
    <3>1. UNCHANGED <<once, stopped, chanClosed, wills, on>>
      BY <2>3 DEF TimerExpire, session, queues, seen
    <3>2. pc[<<k, "timerStop">>] = "none"
      BY <2>3 DEF TimerExpire, Arrives, At, Order
    <3>3. pc' = [pc EXCEPT ![<<k, "timer">>] = "done",
                          ![<<k, "timerStop">>] = "entry"]
      BY <2>3 DEF TimerExpire
    <3>4. \A g \in Stopper :
            g # <<k, "timerStop">> => pc'[g] = pc[g]
      BY <1>1, <3>3 DEF Goroutine, Role, Stopper, StopRole
    <3>5. ~InBody(<<k, "timerStop">>) /\ ~InBody(<<k, "timerStop">>)'
      BY <1>1, <3>2, <3>3 DEF InBody, ChannelsClosed, Goroutine, Role
    <3> QED BY <3>1, <3>4, <3>5 DEF Apart
  <2>4. CASE TimerStop(k)
    BY <2>4, <1>1 DEF TimerStop, At, Goto, Done, Apart, InBody, Goroutine,
       Role, Stopper, StopRole, registry, flags, binding, session, queues,
       seen, fault
  <2> QED BY <1>f, <2>1, <2>2, <2>3, <2>4 DEF TimerStep
<1>g. ASSUME NEW k \in Conn, Arrival(k) PROVE Apart \/ Teardown
  <2>1. CASE Connect(k)
    BY <2>1, <1>1 DEF Connect, At, Goto, Apart, InBody, Goroutine, Role,
       Stopper, StopRole, registry, flags, binding, session, queues, seen,
       fault
  <2>2. CASE Reject(k)
    BY <2>2, <1>1 DEF Reject, At, Goto, Apart, InBody, Goroutine, Role,
       Stopper, StopRole, registry, flags, binding, session, queues, seen,
       fault
  <2>3. CASE BadConnect(k)
    BY <2>3, <1>1 DEF BadConnect, At, Crash, Apart, InBody, Goroutine, Role,
       Stopper, StopRole, registry, flags, binding, session, queues, seen
  <2> QED BY <1>g, <2>1, <2>2, <2>3 DEF Arrival
<1>h. ASSUME NEW k \in Conn, NEW w \in StopRole, StopStep(k, w)
      PROVE  Apart \/ Teardown
  <2>1. CASE StopEntry(k, w)
    <3>1. /\ At(k, w, "entry")
          /\ UNCHANGED <<once, stopped, chanClosed, wills, on>>
      BY <2>1 DEF StopEntry, Crash, session, queues, seen
    <3>2. CASE pc' = pc
      BY <3>1, <3>2, <1>1 DEF At, Apart, InBody, Goroutine, Role, Stopper,
         StopRole
    <3>3. CASE Goto(k, w, "done")
      BY <3>1, <3>3, <1>1 DEF At, Goto, Apart, InBody, ChannelsClosed,
         Goroutine, Role,
         Stopper, StopRole
    <3>4. CASE Goto(k, w, "once")
      BY <3>1, <3>4, <1>1 DEF At, Goto, Apart, InBody, ChannelsClosed,
         Goroutine, Role,
         Stopper, StopRole
    <3> QED BY <2>1, <3>2, <3>3, <3>4 DEF StopEntry, Crash
  <2>2. CASE StopOnce(k, w)
    BY <2>2 DEF Teardown
  <2>3. CASE StopClose(k, w)
    BY <2>3 DEF Teardown
  <2>4. CASE StopDrain(k, w)
    BY <2>4 DEF Teardown
  <2>5. CASE StopChannels(k, w)
    BY <2>5 DEF Teardown
  <2>6. CASE StopUnmap(k, w)
    BY <2>6 DEF Teardown
  <2>7. CASE StopUnsubscribe(k, w)
    BY <2>7 DEF Teardown
  <2>8. CASE StopRelease(k, w)
    BY <2>8 DEF Teardown
  <2> QED BY <1>h, <2>1, <2>2, <2>3, <2>4, <2>5, <2>6, <2>7, <2>8 DEF StopStep
<1>i. ASSUME NEW k \in Conn, NEW o \in Conn, WaitReused(k, o)
      PROVE  Apart \/ Teardown
  BY <1>i, <1>1 DEF WaitReused, Crash, Apart, InBody, Goroutine, Role,
     Stopper, StopRole, registry, flags, binding, session, queues, seen
<1> QED BY <1>a, <1>b, <1>c, <1>d, <1>e, <1>f, <1>g, <1>h, <1>i DEF Next

\* A step that starts no body and completes no Once keeps OneBody.
LEMMA BodyKept ==
  ASSUME TypeOK, OneHolder, OneBody, [Next]_vars, once' = once,
         \A g \in Stopper : InBody(g)' => InBody(g) /\ on'[g] = on[g]
  PROVE  OneBody'
<1>1. \A g \in Stopper : InBody(g)' => once'[on'[g]] = "running"
  BY DEF OneBody
<1>2. \A g, h \in Stopper :
        InBody(g)' /\ InBody(h)' /\ on'[g] = on'[h] => g = h
  BY DEF OneBody
<1>3. ASSUME NEW k \in Conn, pc'[<<k, "init">>] = "drain"
      PROVE  /\ once'[cur'[client'[k]]] = "running"
             /\ \A g \in Stopper : InBody(g)' => on'[g] # cur'[client'[k]]
  <2>1. pc[<<k, "init">>] = "drain"
    <3>1. CASE TakeoverOnce(k)
      <4>1. pc[<<k, "init">>] = "takeover" /\ pc' # pc
        BY <1>3, <3>1 DEF TakeoverOnce, At
      <4>2. pc' # [pc EXCEPT ![<<k, "init">>] = "reinstall"]
        BY <1>3 DEF TypeOK, Goroutine, Role
      <4>3. once[cur[client[k]]] = "fresh"
            /\ once' = [once EXCEPT ![cur[client[k]]] = "running"]
        BY <3>1, <4>1, <4>2 DEF TakeoverOnce, Goto, Crash
      <4> QED BY <4>3 DEF TypeOK
    <3> QED BY <1>3, <3>1, DrainStarts DEF DrainsFrom
  <2>2. cur'[client'[k]] = cur[client[k]]
    BY <1>3, <2>1, DrainKept
  <2> QED BY <2>1, <2>2 DEF OneBody
<1> QED BY <1>1, <1>2, <1>3 DEF OneBody

\* Of all the Stops and takeovers that race for a sync.Once, one runs its body.
LEMMA BodyNext ==
  TypeOK /\ Order /\ OneHolder /\ OneBody /\ [Next]_vars => OneBody'
<1> SUFFICES ASSUME TypeOK, Order, OneHolder, OneBody, [Next]_vars
             PROVE  OneBody'
  OBVIOUS
<1>1. /\ pc \in [Goroutine -> Label] /\ on \in [Goroutine -> Conn]
      /\ once \in [Conn -> {"fresh", "running", "done"}]
      /\ cur \in [Conn -> Conn] /\ client \in [Conn -> Conn]
  BY DEF TypeOK
<1>2. CASE Apart
  BY <1>2, BodyKept DEF Apart, InBody, ChannelsClosed
<1>3. ASSUME NEW k \in Conn, TakeoverOnce(k) PROVE OneBody'
  <2> DEFINE s == cur[client[k]]
  <2>1. At(k, "init", "takeover") /\ on' = on
    BY <1>3 DEF TakeoverOnce, Crash
  <2>2. \A g \in Stopper : InBody(g)' <=> InBody(g)
    <3>1. CASE pc' = pc
      BY <3>1 DEF InBody, ChannelsClosed
    <3>2. CASE Goto(k, "init", "drain")
      BY <1>1, <3>2 DEF Goto, InBody, ChannelsClosed, Goroutine, Role,
         Stopper, StopRole
    <3>3. CASE Goto(k, "init", "reinstall")
      BY <1>1, <3>3 DEF Goto, InBody, ChannelsClosed, Goroutine, Role,
         Stopper, StopRole
    <3> QED BY <1>3, <3>1, <3>2, <3>3 DEF TakeoverOnce, Crash
  <2>3. CASE once' = once
    BY <2>1, <2>2, <2>3, BodyKept
  <2>4. CASE /\ once[s] = "fresh" /\ Goto(k, "init", "drain")
             /\ once' = [once EXCEPT ![s] = "running"]
             /\ client' = client /\ cur' = cur
    <3>1. \A g \in Stopper : InBody(g) => on[g] # s
      BY <2>4 DEF OneBody
    <3>2. \A g \in Stopper : InBody(g)' => once'[on'[g]] = "running"
      BY <1>1, <2>1, <2>2, <2>4, <3>1 DEF OneBody
    <3>3. \A g, h \in Stopper :
            InBody(g)' /\ InBody(h)' /\ on'[g] = on'[h] => g = h
      BY <2>1, <2>2 DEF OneBody
    <3>4. \A j \in Conn : pc'[<<j, "init">>] = "drain" => j = k
      BY <1>1, <2>1, <2>4 DEF At, Goto, OneHolder, Holds, Goroutine, Role
    <3>5. /\ once'[cur'[client'[k]]] = "running"
          /\ \A g \in Stopper : InBody(g)' => on'[g] # cur'[client'[k]]
      BY <1>1, <2>1, <2>2, <2>4, <3>1
    <3> QED BY <3>2, <3>3, <3>4, <3>5 DEF OneBody
  <2> QED BY <1>3, <2>3, <2>4 DEF TakeoverOnce, Crash, session, binding
<1>4. ASSUME NEW k \in Conn, TakeoverDrain(k) PROVE OneBody'
  <2> DEFINE s == cur[client[k]]
  <2>1. /\ At(k, "init", "drain") /\ Goto(k, "init", "install")
        /\ on' = on /\ once' = [once EXCEPT ![s] = "done"]
    BY <1>4 DEF TakeoverDrain
  <2>2. \A g \in Stopper : InBody(g)' <=> InBody(g)
    BY <1>1, <2>1 DEF Goto, InBody, ChannelsClosed, Goroutine, Role, Stopper,
       StopRole
  <2>3. \A g \in Stopper : InBody(g) => on[g] # s
    BY <2>1 DEF OneBody, At
  <2>4. \A g \in Stopper : InBody(g)' => once'[on'[g]] = "running"
    BY <1>1, <2>1, <2>2, <2>3 DEF OneBody
  <2>5. \A g, h \in Stopper :
          InBody(g)' /\ InBody(h)' /\ on'[g] = on'[h] => g = h
    BY <2>1, <2>2 DEF OneBody
  <2>6. \A j \in Conn : pc'[<<j, "init">>] # "drain"
    BY <1>1, <2>1 DEF At, Goto, OneHolder, Holds, Goroutine, Role
  <2> QED BY <2>4, <2>5, <2>6 DEF OneBody
<1>5. ASSUME NEW k \in Conn, NEW w \in StopRole, StopOnce(k, w) PROVE OneBody'
  <2> DEFINE s == cur[client[k]]
             g == <<k, w>>
  <2>1. g \in Stopper /\ g \in Goroutine /\ pc[g] = "once"
    BY <1>5 DEF StopOnce, At, Stopper, StopRole, Goroutine, Role
  <2>2. CASE once' = once /\ on' = on /\ Goto(k, w, "done")
    <3>1. \A h \in Stopper : InBody(h)' => InBody(h)
      BY <1>1, <2>2 DEF Goto, InBody, ChannelsClosed, Goroutine, Role,
         Stopper, StopRole
    <3> QED BY <2>2, <3>1, BodyKept
  <2>3. CASE /\ once[s] = "fresh" /\ once' = [once EXCEPT ![s] = "running"]
             /\ on' = [on EXCEPT ![g] = s] /\ Goto(k, w, "close")
             /\ client' = client /\ cur' = cur
    <3>1. \A h \in Stopper \ {g} : /\ InBody(h)' <=> InBody(h)
                                   /\ on'[h] = on[h]
      BY <1>1, <2>1, <2>3
      DEF Goto, InBody, ChannelsClosed, Goroutine, Role, Stopper, StopRole
    <3>2. on'[g] = s /\ once'[s] = "running" /\ s \in Conn
      BY <1>1, <2>1, <2>3
    <3>3. \A h \in Stopper : InBody(h) => on[h] # s
      BY <2>3 DEF OneBody
    <3>4. \A h \in Stopper : InBody(h)' => once'[on'[h]] = "running"
      BY <1>1, <2>3, <3>1, <3>2, <3>3 DEF OneBody
    <3>5. \A h, i \in Stopper :
            InBody(h)' /\ InBody(i)' /\ on'[h] = on'[i] => h = i
      BY <3>1, <3>2, <3>3 DEF OneBody
    <3>6. ASSUME NEW j \in Conn, pc'[<<j, "init">>] = "drain"
          PROVE  /\ once'[cur'[client'[j]]] = "running"
                 /\ \A h \in Stopper : InBody(h)' => on'[h] # cur'[client'[j]]
      <4>1. pc[<<j, "init">>] = "drain"
        BY <1>1, <2>3, <3>6 DEF Goto, Goroutine, Role, StopRole
      <4>2. cur[client[j]] # s
        BY <2>3, <4>1 DEF OneBody
      <4> QED BY <1>1, <2>3, <3>1, <3>2, <4>1, <4>2 DEF OneBody
    <3> QED BY <3>4, <3>5, <3>6 DEF OneBody
  <2> QED BY <1>5, <2>2, <2>3 DEF StopOnce, binding
<1>6. ASSUME NEW k \in Conn, NEW w \in StopRole,
             \/ StopClose(k, w) \/ StopDrain(k, w)
             \/ StopUnmap(k, w) \/ StopUnsubscribe(k, w)
      PROVE  OneBody'
  <2>1. once' = once /\ on' = on
    BY <1>6 DEF StopClose, StopDrain, StopUnmap, StopUnsubscribe, Crash,
       session
  <2>2. InBody(<<k, w>>)
    BY <1>6 DEF StopClose, StopDrain, StopUnmap, StopUnsubscribe, At, InBody,
       ChannelsClosed
  <2>3. \A h \in Stopper : h # <<k, w>> => pc'[h] = pc[h]
    <3>1. ASSUME NEW l, pc' = [pc EXCEPT ![<<k, w>>] = l]
          PROVE  \A h \in Stopper : h # <<k, w>> => pc'[h] = pc[h]
      BY <1>1, <3>1 DEF Goroutine, Role, Stopper, StopRole
    <3> QED BY <1>6, <3>1
      DEF StopClose, StopDrain, StopUnmap, StopUnsubscribe, Goto, Crash
  <2>4. \A h \in Stopper : InBody(h)' => InBody(h)
    BY <2>2, <2>3 DEF InBody, ChannelsClosed
  <2> QED BY <2>1, <2>4, BodyKept
<1>7. ASSUME NEW k \in Conn, NEW w \in StopRole,
             StopChannels(k, w) \/ StopRelease(k, w)
      PROVE  OneBody'
  <2> DEFINE g == <<k, w>>
  <2>1. g \in Stopper /\ g \in Goroutine /\ InBody(g) /\ on' = on
    BY <1>7 DEF StopChannels, StopRelease, Crash, At, InBody, ChannelsClosed,
      Stopper, StopRole, Goroutine, Role
  <2>2. CASE once' = once /\ (pc' = pc \/ Goto(k, w, "unmap"))
    <3>1. \A h \in Stopper : h # g => InBody(h)' = InBody(h)
      BY <1>1, <2>1, <2>2 DEF Goto, InBody, ChannelsClosed, Goroutine, Role,
         Stopper, StopRole
    <3> QED BY <2>1, <2>2, <3>1, BodyKept
  <2>3. CASE /\ once' = [once EXCEPT ![on[g]] = "done"] /\ Goto(k, w, "done")
             /\ client' = client /\ cur' = cur
    <3>1. \A h \in Stopper : InBody(h)' => InBody(h) /\ h # g
      BY <1>1, <2>1, <2>3 DEF Goto, InBody, ChannelsClosed, Goroutine, Role,
         Stopper, StopRole
    <3>2. \A h \in Stopper : InBody(h)' => once'[on'[h]] = "running"
      BY <1>1, <2>1, <2>3, <3>1 DEF OneBody
    <3>3. \A h, i \in Stopper :
            InBody(h)' /\ InBody(i)' /\ on'[h] = on'[i] => h = i
      BY <2>1, <3>1 DEF OneBody
    <3>4. ASSUME NEW j \in Conn, pc'[<<j, "init">>] = "drain"
          PROVE  /\ once'[cur'[client'[j]]] = "running"
                 /\ \A h \in Stopper : InBody(h)' => on'[h] # cur'[client'[j]]
      <4>1. pc[<<j, "init">>] = "drain"
        BY <1>1, <2>3, <3>4 DEF Goto, Goroutine, Role, StopRole
      <4>2. cur[client[j]] # on[g]
        BY <2>1, <4>1 DEF OneBody
      <4> QED BY <1>1, <2>1, <2>3, <3>1, <4>1, <4>2 DEF OneBody
    <3> QED BY <3>2, <3>3, <3>4 DEF OneBody
  <2>4. CASE StopChannels(k, w)
    BY <2>2, <2>3, <2>4 DEF StopChannels, Crash, session, binding
  <2>5. CASE StopRelease(k, w)
    BY <2>3, <2>5 DEF StopRelease, binding
  <2> QED BY <1>7, <2>4, <2>5
<1> QED BY <1>2, <1>3, <1>4, <1>5, <1>6, <1>7, ApartOrTeardown DEF Teardown

-----------------------------------------------------------------------------

\* A step that publishes no will and keeps its traces keeps WillInBody.
LEMMA WillKept ==
  ASSUME WillInBody, wills' = wills,
         \A s \in Conn : once[s] = "done" => once'[s] = "done",
         \A g \in Stopper :
           ChannelsClosed(g) => \/ ChannelsClosed(g)' /\ on'[g] = on[g]
                                \/ once'[on[g]] = "done"
  PROVE  WillInBody'
<1>1. ASSUME NEW s \in Conn, wills[s] > 0
      PROVE  \/ once'[s] = "done"
             \/ \E g \in Stopper : on'[g] = s /\ ChannelsClosed(g)'
  BY <1>1 DEF WillInBody
<1> QED BY <1>1 DEF WillInBody

\* The will of a session is published by the one body of its Once.
LEMMA WillNext ==
  TypeOK /\ Order /\ OneBody /\ WillInBody /\ [Next]_vars => WillInBody'
<1> SUFFICES ASSUME TypeOK, Order, OneBody, WillInBody, [Next]_vars
             PROVE  WillInBody'
  OBVIOUS
<1>1. /\ pc \in [Goroutine -> Label] /\ on \in [Goroutine -> Conn]
      /\ once \in [Conn -> {"fresh", "running", "done"}]
      /\ cur \in [Conn -> Conn] /\ client \in [Conn -> Conn]
      /\ wills \in [Conn -> Nat]
  BY DEF TypeOK
<1>2. CASE Apart
  BY <1>2, WillKept DEF Apart, InBody, ChannelsClosed
<1>3. ASSUME NEW k \in Conn, TakeoverOnce(k) \/ TakeoverDrain(k)
      PROVE  WillInBody'
  <2>1. wills' = wills /\ on' = on
    BY <1>3 DEF TakeoverOnce, TakeoverDrain, Crash, seen
  <2>2. \A g \in Stopper : pc'[g] = pc[g]
    <3>1. ASSUME NEW l, pc' = [pc EXCEPT ![<<k, "init">>] = l]
          PROVE  \A g \in Stopper : pc'[g] = pc[g]
      BY <1>1, <3>1 DEF Goroutine, Role, Stopper, StopRole
    <3> QED BY <1>3, <3>1 DEF TakeoverOnce, TakeoverDrain, Crash, Goto
  <2>3. \A s \in Conn : once[s] = "done" => once'[s] = "done"
    <3>1. CASE once' = once
      BY <3>1
    <3>2. CASE /\ once[cur[client[k]]] = "fresh"
               /\ once' = [once EXCEPT ![cur[client[k]]] = "running"]
      BY <1>1, <3>2
    <3>3. CASE once' = [once EXCEPT ![cur[client[k]]] = "done"]
      BY <1>1, <3>3
    <3> QED BY <1>3, <3>1, <3>2, <3>3
        DEF TakeoverOnce, TakeoverDrain, Crash, session
  <2> QED BY <2>1, <2>2, <2>3, WillKept DEF ChannelsClosed
<1>4. ASSUME NEW k \in Conn, NEW w \in StopRole, StopOnce(k, w)
      PROVE  WillInBody'
  <2>1. wills' = wills /\ pc[<<k, w>>] = "once"
    BY <1>4 DEF StopOnce, At, seen
  <2>2. \A g \in Stopper : g # <<k, w>> => pc'[g] = pc[g] /\ on'[g] = on[g]
    <3>1. ASSUME NEW l, pc' = [pc EXCEPT ![<<k, w>>] = l]
          PROVE  \A g \in Stopper : g # <<k, w>> => pc'[g] = pc[g]
      BY <1>1, <3>1 DEF Goroutine, Role, Stopper, StopRole
    <3>2. ASSUME NEW l, on' = [on EXCEPT ![<<k, w>>] = l]
          PROVE  \A g \in Stopper : g # <<k, w>> => on'[g] = on[g]
      BY <1>1, <3>2 DEF Goroutine, Role, Stopper, StopRole
    <3> QED BY <1>4, <3>1, <3>2 DEF StopOnce, Goto
  <2>3. \A s \in Conn : once[s] = "done" => once'[s] = "done"
    <3>1. CASE once' = once
      BY <3>1
    <3>2. CASE /\ once[cur[client[k]]] = "fresh"
               /\ once' = [once EXCEPT ![cur[client[k]]] = "running"]
      BY <1>1, <3>2
    <3> QED BY <1>4, <3>1, <3>2 DEF StopOnce
  <2> QED BY <2>1, <2>2, <2>3, WillKept DEF ChannelsClosed
<1>5. ASSUME NEW k \in Conn, NEW w \in StopRole,
             \/ StopClose(k, w) \/ StopDrain(k, w)
             \/ StopUnmap(k, w) \/ StopUnsubscribe(k, w)
      PROVE  WillInBody'
  <2>1. wills' = wills /\ once' = once /\ on' = on
    BY <1>5 DEF StopClose, StopDrain, StopUnmap, StopUnsubscribe, Crash,
       session, seen
  <2>2. \A g \in Stopper : g # <<k, w>> => pc'[g] = pc[g]
    <3>1. ASSUME NEW l, pc' = [pc EXCEPT ![<<k, w>>] = l]
          PROVE  \A g \in Stopper : g # <<k, w>> => pc'[g] = pc[g]
      BY <1>1, <3>1 DEF Goroutine, Role, Stopper, StopRole
    <3> QED BY <1>5, <3>1
      DEF StopClose, StopDrain, StopUnmap, StopUnsubscribe, Goto, Crash
  <2>3. ChannelsClosed(<<k, w>>) =>
          pc'[<<k, w>>] \in {"unsubscribe", "release"}
    <3>1. <<k, w>> \in Goroutine
      BY DEF Goroutine, Role, StopRole
    <3> QED BY <1>1, <1>5, <3>1 DEF StopClose, StopDrain, StopUnmap,
          StopUnsubscribe, At, Goto, ChannelsClosed
  <2> QED BY <2>1, <2>2, <2>3, WillKept DEF ChannelsClosed
<1>6. ASSUME NEW k \in Conn, NEW w \in StopRole, StopChannels(k, w)
      PROVE  WillInBody'
  <2> DEFINE g == <<k, w>>
             s == on[g]
  <2>1. /\ g \in Stopper /\ g \in Goroutine /\ s \in Conn
        /\ pc[g] = "channels" /\ on' = on
    BY <1>1, <1>6
    DEF StopChannels, Crash, At, Stopper, StopRole, Goroutine, Role
  <2>2. \A h \in Stopper : h # g => pc'[h] = pc[h]
    <3>1. ASSUME NEW l, pc' = [pc EXCEPT ![<<k, w>>] = l]
          PROVE  \A h \in Stopper : h # g => pc'[h] = pc[h]
      BY <1>1, <3>1 DEF Goroutine, Role, Stopper, StopRole
    <3> QED BY <1>6, <3>1 DEF StopChannels, Goto, Crash
  <2>3. wills[s] = 0
    <3>1. InBody(g) /\ once[s] = "running"
      BY <2>1 DEF InBody, OneBody
    <3>2. \A h \in Stopper : on[h] = s => ~ChannelsClosed(h)
      BY <2>1, <3>1 DEF OneBody, InBody, ChannelsClosed
    <3> QED BY <1>1, <2>1, <3>1, <3>2 DEF WillInBody
  <2>4. CASE Crash("closeClosed", client[k])
    BY <2>4, WillKept DEF Crash, session, seen, ChannelsClosed
  <2>5. CASE /\ wills' = [wills EXCEPT ![s] =
                           IF SendWill(k, w) THEN @ + 1 ELSE @]
             /\ \/ Goto(k, w, "unmap") /\ once' = once
                \/ Goto(k, w, "done") /\ once' = [once EXCEPT ![s] = "done"]
    <3>1. wills'[s] <= 1 /\ \A t \in Conn \ {s} : wills'[t] = wills[t]
      BY <1>1, <2>1, <2>3, <2>5
    <3>2. once'[s] = "done" \/ (on'[g] = s /\ ChannelsClosed(g)')
      BY <1>1, <2>1, <2>5 DEF Goto, ChannelsClosed
    <3>3. \A t \in Conn : once[t] = "done" => once'[t] = "done"
      BY <1>1, <2>1, <2>5
    <3>4. \A h \in Stopper : ChannelsClosed(h) => ChannelsClosed(h)'
      BY <2>1, <2>2 DEF ChannelsClosed
    <3>5. ASSUME NEW t \in Conn, t # s
          PROVE  /\ wills'[t] <= 1
                 /\ wills'[t] > 0 =>
                      \/ once'[t] = "done"
                      \/ \E h \in Stopper : on'[h] = t /\ ChannelsClosed(h)'
      BY <2>1, <3>1, <3>3, <3>4, <3>5 DEF WillInBody
    <3> QED BY <2>1, <3>1, <3>2, <3>5 DEF WillInBody
  <2> QED BY <1>6, <2>4, <2>5 DEF StopChannels
<1>7. ASSUME NEW k \in Conn, NEW w \in StopRole, StopRelease(k, w)
      PROVE  WillInBody'
  <2> DEFINE g == <<k, w>>
  <2>1. /\ wills' = wills /\ on' = on /\ Goto(k, w, "done")
        /\ once' = [once EXCEPT ![on[g]] = "done"]
    BY <1>7 DEF StopRelease, seen
  <2>2. g \in Goroutine
    BY DEF Goroutine, Role, StopRole
  <2>3. once'[on[g]] = "done"
    BY <1>1, <2>1, <2>2
  <2>4. \A h \in Stopper : h # g => pc'[h] = pc[h]
    BY <1>1, <2>1 DEF Goto, Goroutine, Role, Stopper, StopRole
  <2>5. \A s \in Conn : once[s] = "done" => once'[s] = "done"
    BY <1>1, <2>1, <2>2
  <2> QED BY <2>1, <2>3, <2>4, <2>5, WillKept DEF ChannelsClosed
<1> QED BY <1>2, <1>3, <1>4, <1>5, <1>6, <1>7, ApartOrTeardown DEF Teardown

-----------------------------------------------------------------------------

\* Whoever works on the session of an object nobody took over is one of its own
\* goroutines.
LEMMA SoleOwns ==
  ASSUME TypeOK, Owned, NEW o \in Conn, Sole(o)
  PROVE  /\ cur[o] = o /\ chan[o] = o
         /\ \A r \in Role : on[<<o, r>>] = o
         /\ \A k \in Conn : cur[client[k]] = o => k = o
         /\ \A k \in Conn : chan[client[k]] = o => k = o
         /\ \A k \in Conn, r \in Role : on[<<k, r>>] = o => k = o
         /\ ~Holds(o) /\ ~ConnNil(o)
<1>1. client[o] = o /\ \A k \in Conn : client[k] = o => k = o
  BY DEF Sole
<1>2. cur[o] = o /\ chan[o] = o
  BY <1>1 DEF Owned, TypeOK
<1>3. \A k \in Conn, r \in Role : /\ <<k, r>> \in Goroutine
                                  /\ on[<<k, r>>] \in Conn
                                  /\ client[on[<<k, r>>]] = client[k]
  BY DEF Owned, TypeOK, Goroutine
<1>4. \A k \in Conn : cur[client[k]] = o => k = o
  BY <1>1, OwnSessions
<1>5. \A k \in Conn : chan[client[k]] = o => k = o
  BY <1>1, OwnSessions
<1>6. ~Holds(o)
  BY <1>1 DEF Owned
<1>7. ~ConnNil(o)
  BY <1>1, <1>6 DEF ConnNil, Holds
<1> QED BY <1>1, <1>2, <1>3, <1>4, <1>5, <1>6, <1>7

\* A step that leaves the session alone leaves its teardown where it stands.
LEMMA SoleKept ==
  ASSUME TypeOK, Order, Owned, SoleTeardown, [Next]_vars,
         NEW o \in Conn, Sole(o)',
         o \in stopped' => o \in stopped,
         o \in chanClosed' => o \in chanClosed,
         once'[o] = once[o],
         \A w \in StopRole : \/ pc'[<<o, w>>] = pc[<<o, w>>]
                             \/ ~InBody(<<o, w>>) /\ ~InBody(<<o, w>>)'
                             \/ ~InBody(<<o, w>>) /\ pc'[<<o, w>>] = "close"
                             \/ /\ ChannelsClosed(<<o, w>>)
                                /\ ChannelsClosed(<<o, w>>)'
  PROVE  TornDown(o)'
<1>1. Sole(o) /\ TornDown(o)
  BY SoleLasts DEF SoleTeardown
<1>2. \A w \in StopRole :
        /\ InBody(<<o, w>>) /\ pc[<<o, w>>] # "close"
             => InBody(<<o, w>>)' /\ pc'[<<o, w>>] # "close"
        /\ ChannelsClosed(<<o, w>>)' <=> ChannelsClosed(<<o, w>>)
        /\ pc'[<<o, w>>] = "channels" => pc[<<o, w>>] = "channels"
  BY DEF InBody, ChannelsClosed
<1>3. \A r \in {"recv", "send"} :
        pc[<<o, r>>] = "done" => pc'[<<o, r>>] = "done"
  BY DoneLasts DEF DoneStays
<1> QED BY <1>1, <1>2, <1>3 DEF TornDown

\* A Stop closes what it closes in order, after the goroutines have returned.
LEMMA TeardownNext ==
  /\ TypeOK /\ Order /\ Owned /\ WaitGroupCounts /\ OneBody /\ SoleTeardown
  /\ [Next]_vars
  => SoleTeardown'
<1> SUFFICES ASSUME TypeOK, Order, Owned, WaitGroupCounts, OneBody,
                    SoleTeardown, [Next]_vars, NEW o \in Conn, Sole(o)'
             PROVE  TornDown(o)'
  BY DEF SoleTeardown
<1>1. /\ pc \in [Goroutine -> Label] /\ on \in [Goroutine -> Conn]
      /\ once \in [Conn -> {"fresh", "running", "done"}]
      /\ cur \in [Conn -> Conn] /\ client \in [Conn -> Conn]
  BY DEF TypeOK
<1>2. Sole(o) /\ TornDown(o)
  BY SoleLasts DEF SoleTeardown
<1>3. \A r \in {"recv", "send"} :
        pc[<<o, r>>] = "done" => pc'[<<o, r>>] = "done"
  BY DoneLasts DEF DoneStays
<1>4. CASE Apart
  <2>1. \A w \in StopRole : <<o, w>> \in Stopper
    BY DEF Stopper
  <2> QED BY <1>4, <2>1, SoleKept DEF Apart
<1>5. ASSUME NEW k \in Conn, TakeoverOnce(k) \/ TakeoverDrain(k)
      PROVE  TornDown(o)'
  <2> DEFINE s == cur[client[k]]
  <2>1. pc[<<k, "init">>] \in {"takeover", "drain"}
    BY <1>5 DEF TakeoverOnce, TakeoverDrain, At
  <2>2. s # o
    BY <1>2, <2>1, SoleOwns DEF Holds
  <2>3. \A w \in StopRole : pc'[<<o, w>>] = pc[<<o, w>>]
    <3>1. ASSUME NEW l, pc' = [pc EXCEPT ![<<k, "init">>] = l]
          PROVE  \A w \in StopRole : pc'[<<o, w>>] = pc[<<o, w>>]
      BY <1>1, <3>1 DEF Goroutine, Role, StopRole
    <3> QED BY <1>5, <3>1 DEF TakeoverOnce, TakeoverDrain, Crash, Goto
  <2>4. once'[o] = once[o]
    <3>1. ASSUME NEW l, once' = [once EXCEPT ![s] = l] PROVE once'[o] = once[o]
      BY <1>1, <2>2, <3>1
    <3> QED BY <1>5, <3>1 DEF TakeoverOnce, TakeoverDrain, Crash, session
  <2>5. stopped' \subseteq stopped \cup {s} /\ chanClosed' = chanClosed
    BY <1>5 DEF TakeoverOnce, TakeoverDrain, Crash, session, queues
  <2> QED BY <2>2, <2>3, <2>4, <2>5, SoleKept
<1>6. ASSUME NEW k \in Conn, NEW w \in StopRole, k # o,
             \/ StopOnce(k, w) \/ StopClose(k, w) \/ StopDrain(k, w)
             \/ StopChannels(k, w) \/ StopUnmap(k, w)
             \/ StopUnsubscribe(k, w) \/ StopRelease(k, w)
      PROVE  TornDown(o)'
  <2>1. cur[client[k]] # o /\ chan[client[k]] # o /\ on[<<k, w>>] # o
    BY <1>2, <1>6, SoleOwns DEF Role, StopRole
  <2>2. \A v \in StopRole : pc'[<<o, v>>] = pc[<<o, v>>]
    <3>1. ASSUME NEW l, pc' = [pc EXCEPT ![<<k, w>>] = l]
          PROVE  \A v \in StopRole : pc'[<<o, v>>] = pc[<<o, v>>]
      BY <1>1, <1>6, <3>1 DEF Goroutine, Role, StopRole
    <3> QED BY <1>6, <3>1 DEF StopOnce, StopClose, StopDrain, StopChannels,
          StopUnmap, StopUnsubscribe, StopRelease, Crash, Goto
  <2>3. once'[o] = once[o]
    <3>1. ASSUME NEW l, NEW s, s # o, once' = [once EXCEPT ![s] = l]
          PROVE  once'[o] = once[o]
      BY <1>1, <3>1
    <3> QED BY <1>6, <2>1, <3>1 DEF StopOnce, StopClose, StopDrain,
          StopChannels, StopUnmap, StopUnsubscribe, StopRelease, Crash, session
  <2>4. o \in stopped' => o \in stopped
    BY <1>6, <2>1 DEF StopOnce, StopClose, StopDrain, StopChannels, StopUnmap,
      StopUnsubscribe, StopRelease, Crash, session
  <2>5. o \in chanClosed' => o \in chanClosed
    BY <1>6, <2>1 DEF StopOnce, StopClose, StopDrain, StopChannels, StopUnmap,
      StopUnsubscribe, StopRelease, Crash, queues
  <2> QED BY <2>2, <2>3, <2>4, <2>5, SoleKept
<1>7. ASSUME NEW w \in StopRole,
             \/ StopOnce(o, w) \/ StopClose(o, w) \/ StopDrain(o, w)
             \/ StopChannels(o, w) \/ StopUnmap(o, w)
             \/ StopUnsubscribe(o, w) \/ StopRelease(o, w)
      PROVE  TornDown(o)'
  <2> DEFINE g == <<o, w>>
  <2>1. /\ client[o] = o /\ cur[client[o]] = o /\ chan[client[o]] = o
        /\ on[g] = o /\ g \in Goroutine /\ g \in Stopper
    BY <1>2, SoleOwns DEF Sole, Role, StopRole, Goroutine, Stopper
  <2>2. \A v \in StopRole : v # w => pc'[<<o, v>>] = pc[<<o, v>>]
    <3>1. ASSUME NEW l, pc' = [pc EXCEPT ![g] = l]
          PROVE  \A v \in StopRole : v # w => pc'[<<o, v>>] = pc[<<o, v>>]
      BY <1>1, <3>1 DEF Goroutine, Role, StopRole
    <3> QED BY <1>7, <3>1 DEF StopOnce, StopClose, StopDrain, StopChannels,
          StopUnmap, StopUnsubscribe, StopRelease, Crash, Goto
  <2>3. CASE Crash("closeClosed", client[o])
    BY <2>3, SoleKept DEF Crash, session, queues
  <2>4. CASE StopOnce(o, w)
    <3>1. pc[g] = "once" /\ UNCHANGED <<stopped, chanClosed>>
      BY <2>4 DEF StopOnce, At, queues
    <3>2. CASE once' = once /\ Goto(o, w, "done")
      <4>1. pc'[g] = "done"
        BY <1>1, <2>1, <3>2 DEF Goto
      <4> QED BY <2>2, <3>1, <3>2, <4>1, SoleKept DEF InBody, ChannelsClosed
    <3>3. CASE /\ once[o] = "fresh" /\ Goto(o, w, "close")
               /\ once' = [once EXCEPT ![o] = "running"]
      <4>1. pc'[g] = "close" /\ once'[o] = "running"
        BY <1>1, <2>1, <3>3 DEF Goto
      <4>2. \A v \in StopRole : ~ChannelsClosed(<<o, v>>) /\ ~InBody(<<o, v>>)
        <5>1. \A v \in StopRole : <<o, v>> \in Stopper /\ on[<<o, v>>] = o
          BY <1>2, SoleOwns DEF Role, StopRole, Stopper
        <5> QED BY <3>3, <5>1 DEF OneBody, ChannelsClosed, InBody
      <4>3. o \notin stopped' /\ o \notin chanClosed'
        BY <1>2, <3>1, <3>3, <4>2 DEF TornDown
      <4>4. \A v \in StopRole :
              pc'[<<o, v>>] # "channels" /\ ~ChannelsClosed(<<o, v>>)'
        BY <2>2, <4>1, <4>2 DEF InBody, ChannelsClosed
      <4> QED BY <4>1, <4>3, <4>4 DEF TornDown
    <3> QED BY <2>1, <2>4, <3>2, <3>3 DEF StopOnce
  <2>5. CASE StopClose(o, w) /\ ~Crash("closeClosed", client[o])
    <3>1. /\ pc[g] = "close" /\ Goto(o, w, "drain")
          /\ UNCHANGED <<chanClosed, once>>
      BY <2>5 DEF StopClose, At, queues
    <3>2. pc'[g] = "drain"
      BY <1>1, <2>1, <3>1 DEF Goto
    <3>3. \A v \in StopRole :
            /\ ChannelsClosed(<<o, v>>)' <=> ChannelsClosed(<<o, v>>)
            /\ pc'[<<o, v>>] = "channels" => pc[<<o, v>>] = "channels"
      BY <2>2, <3>1, <3>2 DEF ChannelsClosed
    <3>4. InBody(g)' /\ pc'[g] # "close"
      BY <3>2 DEF InBody
    <3> QED BY <1>2, <1>3, <3>1, <3>3, <3>4 DEF TornDown
  <2>6. CASE StopDrain(o, w)
    <3>1. /\ pc[g] = "drain" /\ Goto(o, w, "channels") /\ wg[o] = 0
          /\ UNCHANGED <<stopped, chanClosed, once>>
      BY <2>1, <2>6 DEF StopDrain, At, session, queues
    <3>2. pc'[g] = "channels"
      BY <1>1, <2>1, <3>1 DEF Goto
    <3>3. Members(o) = {}
      BY <3>1, MembersFinite, FS_EmptySet DEF WaitGroupCounts
    <3>4. \A r \in {"recv", "send"} : ~Counted(<<o, r>>)
      BY <2>1, <3>3 DEF Members, Goroutine, Role
    <3>5. pc[<<o, "recv">>] # "none" /\ pc[<<o, "send">>] # "none"
      <4>1. CASE w = "recvStop"
        BY <3>1, <4>1 DEF Order
      <4>2. CASE w = "timerStop"
        BY <3>1, <4>2 DEF Order
      <4> QED BY <4>1, <4>2 DEF StopRole
    <3>6. pc[<<o, "recv">>] = "done" /\ pc[<<o, "send">>] = "done"
      BY <3>4, <3>5 DEF Counted
    <3>7. InBody(g)' /\ pc'[g] # "close"
      BY <3>2 DEF InBody
    <3>8. \A v \in StopRole :
            ChannelsClosed(<<o, v>>)' <=> ChannelsClosed(<<o, v>>)
      BY <2>2, <3>1, <3>2 DEF ChannelsClosed
    <3> QED BY <1>2, <1>3, <3>1, <3>6, <3>7, <3>8 DEF TornDown
  <2>7. CASE StopChannels(o, w) /\ ~Crash("closeClosed", client[o])
    <3>1. pc[g] = "channels" /\ stopped' = stopped
      BY <2>7 DEF StopChannels, At
    <3>2. pc'[<<o, "recv">>] = "done" /\ pc'[<<o, "send">>] = "done"
      BY <1>2, <1>3, <3>1 DEF TornDown
    <3>3. \/ Goto(o, w, "unmap")
          \/ Goto(o, w, "done") /\ once' = [once EXCEPT ![on[g]] = "done"]
      BY <2>1, <2>7 DEF StopChannels
    <3>4. \/ pc'[g] = "unmap" \/ once'[o] = "done"
      BY <1>1, <2>1, <3>3 DEF Goto
    <3> QED BY <3>2, <3>4 DEF TornDown, ChannelsClosed, InBody
  <2>8. CASE StopUnmap(o, w) \/ StopUnsubscribe(o, w)
    <3>1. /\ ChannelsClosed(g)
          /\ Goto(o, w, "unsubscribe") \/ Goto(o, w, "release")
          /\ UNCHANGED <<stopped, chanClosed, once>>
      BY <2>8
      DEF StopUnmap, StopUnsubscribe, At, ChannelsClosed, session, queues
    <3>2. ChannelsClosed(g)'
      BY <1>1, <2>1, <3>1 DEF Goto, ChannelsClosed
    <3> QED BY <2>2, <3>1, <3>2, SoleKept
  <2>9. CASE StopRelease(o, w)
    <3>1. /\ pc[g] = "release" /\ stopped' = stopped
          /\ once' = [once EXCEPT ![on[g]] = "done"]
      BY <2>9 DEF StopRelease, At
    <3>2. once'[o] = "done"
      BY <1>1, <2>1, <3>1
    <3>3. pc'[<<o, "recv">>] = "done" /\ pc'[<<o, "send">>] = "done"
      BY <1>2, <1>3, <3>1 DEF TornDown, ChannelsClosed
    <3> QED BY <3>2, <3>3 DEF TornDown
  <2> QED BY <1>7, <2>3, <2>4, <2>5, <2>6, <2>7, <2>8, <2>9
<1> QED BY <1>4, <1>5, <1>6, <1>7, ApartOrTeardown DEF Teardown

-----------------------------------------------------------------------------

\* How goroutines move: nobody is admitted twice, the open step of Start is
\* StartOpen, StartConnected is on Start's way to its end, and StopUnmap and
\* StopUnsubscribe are on a clean Stop's.
Moves ==
  \A j \in Conn :
    /\ Admitted(j) => Admitted(j)'
    /\ Opened(j)' => Opened(j) \/ StartOpen(j)
    /\ pc'[<<j, "start">>] \in {"timer", "done"} =>
         pc[<<j, "start">>] \in {"timer", "done"} \/ StartConnected(j)
    /\ \A w \in StopRole :
         /\ pc'[<<j, w>>] \in {"unsubscribe", "release"} =>
              pc[<<j, w>>] \in {"unsubscribe", "release"} \/ StopUnmap(j, w)
         /\ pc'[<<j, w>>] = "release" =>
              pc[<<j, w>>] = "release" \/ StopUnsubscribe(j, w)

\* Every step moves them so.
LEMMA StepMoves == TypeOK /\ Order /\ [Next]_vars => Moves
<1> SUFFICES ASSUME TypeOK, Order, [Next]_vars
             PROVE Moves
  OBVIOUS
<1>1. pc \in [Goroutine -> Label]
  BY DEF TypeOK
<1>a. CASE UNCHANGED vars
  BY <1>a, <1>1 DEF vars, Moves, Admitted, Opened, Goroutine, Role, StopRole
<1>b. ASSUME NEW k \in Conn, InitStep(k) PROVE Moves
  <2>1. CASE InitTakeover(k)
    BY <2>1, <1>1 DEF InitTakeover, At, Goto, Moves, Admitted, Opened,
       Goroutine, Role, StopRole
  <2>2. CASE InitResume(k)
    BY <2>2, <1>1 DEF InitResume, Resumes, At, Moves, Admitted, Opened,
       Goroutine,
       Role, StopRole
  <2>3. CASE InitNew(k)
    BY <2>3, <1>1 DEF InitNew, At, Moves, Admitted, Opened, Goroutine, Role,
       StopRole
  <2>4. CASE TakeoverOnce(k)
    <3>1. At(k, "init", "takeover")
      BY <2>4 DEF TakeoverOnce, Crash
    <3>2. CASE pc' = pc
      BY <3>1, <3>2, <1>1 DEF At, Moves, Admitted, Opened, Goroutine, Role,
         StopRole
    <3>3. CASE Goto(k, "init", "drain")
      BY <3>1, <3>3, <1>1 DEF At, Goto, Moves, Admitted, Opened, Goroutine,
         Role, StopRole
    <3>4. CASE Goto(k, "init", "reinstall")
      BY <3>1, <3>4, <1>1 DEF At, Goto, Moves, Admitted, Opened, Goroutine,
         Role, StopRole
    <3> QED BY <2>4, <3>2, <3>3, <3>4 DEF TakeoverOnce, Crash
  <2>5. CASE TakeoverDrain(k)
    BY <2>5, <1>1 DEF TakeoverDrain, At, Goto, Moves, Admitted, Opened,
       Goroutine, Role, StopRole
  <2>6. CASE TakeoverInstall(k)
    BY <2>6, <1>1 DEF TakeoverInstall, At, Moves, Admitted, Opened,
       Goroutine, Role, StopRole
  <2>7. CASE ServeWait(k)
    BY <2>7, <1>1 DEF ServeWait, At, Goto, Moves, Admitted, Opened,
       Goroutine, Role, StopRole
  <2>8. CASE ServeDone(k)
    BY <2>8, <1>1 DEF ServeDone, At, Goto, Moves, Admitted, Opened,
       Goroutine, Role, StopRole
  <2> QED BY <1>b, <2>1, <2>2, <2>3, <2>4, <2>5, <2>6, <2>7, <2>8 DEF InitStep
<1>c. ASSUME NEW k \in Conn, StartStep(k) PROVE Moves
  <2>1. CASE StartOpen(k)
    <3>1. ASSUME NEW l \in {"connack", "replay"}, Goto(k, "start", l)
          PROVE  Moves
      <4>1. \A j \in Conn : \A r \in Role \ {"start"} :
              pc'[<<j, r>>] = pc[<<j, r>>]
        BY <3>1, <1>1 DEF Goto, Goroutine
      <4>2. \A j \in Conn \ {k} : pc'[<<j, "start">>] = pc[<<j, "start">>]
        BY <3>1, <1>1 DEF Goto, Goroutine, Role
      <4>3. pc'[<<k, "start">>] \in {"connack", "replay"}
        BY <3>1, <1>1 DEF Goto, Goroutine, Role
      <4> QED
        BY <2>1, <4>1, <4>2, <4>3 DEF Moves, Admitted, Opened, Role, StopRole
    <3> QED BY <2>1, <3>1 DEF StartOpen
  <2>2. CASE StartReplay(k)
    <3>1. At(k, "start", "replay")
      BY <2>2 DEF StartReplay, Crash
    <3>2. CASE pc' = pc
      BY <3>1, <3>2, <1>1 DEF At, Moves, Admitted, Opened, Goroutine, Role,
         StopRole
    <3>3. CASE Goto(k, "start", "connack")
      BY <3>1, <3>3, <1>1 DEF At, Goto, Moves, Admitted, Opened, Goroutine,
         Role, StopRole
    <3>4. CASE Goto(k, "start", "blocked")
      BY <3>1, <3>4, <1>1 DEF At, Goto, Moves, Admitted, Opened, Goroutine,
         Role, StopRole
    <3> QED BY <2>2, <3>2, <3>3, <3>4 DEF StartReplay, Crash
  <2>3. CASE StartSpawn(k)
    <3>1. At(k, "start", "spawn")
      BY <2>3 DEF StartSpawn
    <3>2. pc[<<k, "recv">>] = "none" /\ pc[<<k, "send">>] = "none"
      BY <3>1 DEF At, Order
    <3>3. CASE pc' = [pc EXCEPT ![<<k, "start">>] = "state",
                               ![<<k, "recv">>] = "check",
                               ![<<k, "send">>] = "enter"]
      BY <1>1, <3>1, <3>2, <3>3 DEF At, Moves, Admitted, Opened, Goroutine,
         Role, StopRole
    <3> QED BY <2>3, <3>3 DEF StartSpawn
  <2>4. CASE StartConnected(k)
    <3>1. pc[<<k, "start">>] = "state" /\ Goto(k, "start", "timer")
      BY <2>4 DEF StartConnected, At
    <3>2. \A j \in Conn, r \in Role :
            j # k \/ r # "start" => pc'[<<j, r>>] = pc[<<j, r>>]
      BY <3>1, <1>1 DEF Goto, Goroutine
    <3> QED
      BY <2>4, <3>1, <3>2 DEF Moves, Admitted, Opened, Role, StopRole
  <2>5. CASE StartTimer(k)
    <3>1. At(k, "start", "timer")
      BY <2>5 DEF StartTimer
    <3>2. CASE pc' = [pc EXCEPT ![<<k, "start">>] = "done",
                               ![<<k, "timer">>] = "enter"]
      BY <3>1, <3>2, <1>1 DEF At, Moves, Admitted, Opened, Goroutine, Role,
         StopRole
    <3>3. CASE Goto(k, "start", "done")
      BY <3>1, <3>3, <1>1 DEF At, Goto, Moves, Admitted, Opened, Goroutine,
         Role, StopRole
    <3> QED BY <2>5, <3>2, <3>3 DEF StartTimer
  <2>6. CASE StartBlocked(k)
    <3>1. At(k, "start", "blocked")
      BY <2>6 DEF StartBlocked, Crash
    <3>2. CASE pc' = pc
      BY <3>1, <3>2, <1>1 DEF At, Moves, Admitted, Opened, Goroutine, Role,
         StopRole
    <3>3. CASE Goto(k, "start", "connack")
      BY <3>1, <3>3, <1>1 DEF At, Goto, Moves, Admitted, Opened, Goroutine,
         Role, StopRole
    <3> QED BY <2>6, <3>2, <3>3 DEF StartBlocked, Crash
  <2>7. CASE StartConnack(k)
    <3>1. At(k, "start", "connack")
      BY <2>7 DEF StartConnack, Crash
    <3>2. CASE pc' = pc
      BY <3>1, <3>2, <1>1 DEF At, Moves, Admitted, Opened, Goroutine, Role,
         StopRole
    <3>3. CASE Goto(k, "start", "spawn")
      BY <3>1, <3>3, <1>1 DEF At, Goto, Moves, Admitted, Opened, Goroutine,
         Role, StopRole
    <3> QED BY <2>7, <3>2, <3>3 DEF StartConnack, Crash
  <2> QED BY <1>c, <2>1, <2>2, <2>3, <2>4, <2>5, <2>6, <2>7 DEF StartStep
<1>d. ASSUME NEW k \in Conn, RecvStep(k) PROVE Moves
  <2>1. CASE RecvCheck(k)
    <3>1. At(k, "recv", "check")
      BY <2>1 DEF RecvCheck
    <3>2. CASE Goto(k, "recv", "done")
      BY <3>1, <3>2, <1>1 DEF At, Goto, Moves, Admitted, Opened, Goroutine,
         Role, StopRole
    <3>3. CASE Goto(k, "recv", "read")
      BY <3>1, <3>3, <1>1 DEF At, Goto, Moves, Admitted, Opened, Goroutine,
         Role, StopRole
    <3> QED BY <2>1, <3>2, <3>3 DEF RecvCheck
  <2>2. CASE RecvFail(k)
    BY <2>2, <1>1 DEF RecvFail, At, Moves, Admitted, Opened, Goroutine,
       Role, StopRole
  <2>3. CASE RecvDisconnect(k)
    BY <2>3, <1>1 DEF RecvDisconnect, At, Arrives, Moves, Admitted, Opened,
       Goroutine, Role, StopRole
  <2>4. CASE RecvFlow(k)
    <3>1. At(k, "recv", "read")
      BY <2>4 DEF RecvFlow, Arrives, Crash
    <3>2. CASE pc' = pc
      BY <3>1, <3>2, <1>1 DEF At, Moves, Admitted, Opened, Goroutine, Role,
         StopRole
    <3>3. CASE Goto(k, "recv", "check")
      BY <3>1, <3>3, <1>1 DEF At, Goto, Moves, Admitted, Opened, Goroutine,
         Role, StopRole
    <3> QED BY <2>4, <3>2, <3>3 DEF RecvFlow, Arrives, Crash
  <2>5. CASE RecvRequest(k)
    BY <2>5, <1>1 DEF RecvRequest, At, Arrives, Goto, Moves, Admitted,
       Opened, Goroutine, Role, StopRole
  <2>6. CASE RecvReply(k)
    <3>1. At(k, "recv", "reply")
      BY <2>6 DEF RecvReply, Crash
    <3>2. CASE pc' = pc
      BY <3>1, <3>2, <1>1 DEF At, Moves, Admitted, Opened, Goroutine, Role,
         StopRole
    <3>3. CASE Goto(k, "recv", "check")
      BY <3>1, <3>3, <1>1 DEF At, Goto, Moves, Admitted, Opened, Goroutine,
         Role, StopRole
    <3> QED BY <2>6, <3>2, <3>3 DEF RecvReply, Crash
  <2>7. CASE RecvQuiet(k)
    BY <2>7, <1>1 DEF RecvQuiet, At, Arrives, Goto, Moves, Admitted, Opened,
       Goroutine, Role, StopRole
  <2> QED BY <1>d, <2>1, <2>2, <2>3, <2>4, <2>5, <2>6, <2>7 DEF RecvStep
<1>e. ASSUME NEW k \in Conn, SendStep(k) PROVE Moves
  <2>1. CASE SendEnter(k)
    BY <2>1, <1>1 DEF SendEnter, At, Goto, Moves, Admitted, Opened,
       Goroutine, Role, StopRole
  <2>2. CASE SendStop(k)
    BY <2>2, <1>1 DEF SendStop, At, Goto, Moves, Admitted, Opened,
       Goroutine, Role, StopRole
  <2>3. CASE SendPacket(k)
    BY <2>3, <1>1 DEF SendPacket, At, Goto, Moves, Admitted, Opened,
       Goroutine, Role, StopRole
  <2> QED BY <1>e, <2>1, <2>2, <2>3 DEF SendStep
<1>f. ASSUME NEW k \in Conn, TimerStep(k) PROVE Moves
  <2>1. CASE TimerEnter(k)
    BY <2>1, <1>1 DEF TimerEnter, At, Goto, Moves, Admitted, Opened,
       Goroutine, Role, StopRole
  <2>2. CASE TimerReset(k)
    BY <2>2, <1>1 DEF TimerReset, At, Goto, Moves, Admitted, Opened,
       Goroutine, Role, StopRole
  <2>3. CASE TimerExpire(k)
    BY <2>3, <1>1 DEF TimerExpire, At, Moves, Admitted, Opened, Goroutine,
       Role, StopRole
  <2>4. CASE TimerStop(k)
    BY <2>4, <1>1 DEF TimerStop, At, Goto, Moves, Admitted, Opened,
       Goroutine, Role, StopRole
  <2> QED BY <1>f, <2>1, <2>2, <2>3, <2>4 DEF TimerStep
<1>g. ASSUME NEW k \in Conn, Arrival(k) PROVE Moves
  <2>1. CASE Connect(k)
    BY <2>1, <1>1 DEF Connect, At, Goto, Moves, Admitted, Opened, Goroutine,
       Role, StopRole
  <2>2. CASE Reject(k)
    BY <2>2, <1>1 DEF Reject, At, Goto, Moves, Admitted, Opened, Goroutine,
       Role, StopRole
  <2>3. CASE BadConnect(k)
    BY <2>3, <1>1 DEF BadConnect, At, Crash, Moves, Admitted, Opened,
       Goroutine, Role, StopRole
  <2> QED BY <1>g, <2>1, <2>2, <2>3 DEF Arrival
<1>h. ASSUME NEW k \in Conn, NEW w \in StopRole, StopStep(k, w) PROVE Moves
  <2>1. CASE StopEntry(k, w)
    <3>1. At(k, w, "entry")
      BY <2>1 DEF StopEntry, Crash
    <3>2. CASE pc' = pc
      BY <3>1, <3>2, <1>1 DEF At, Moves, Admitted, Opened, Goroutine, Role,
         StopRole
    <3>3. CASE Goto(k, w, "done")
      BY <3>1, <3>3, <1>1 DEF At, Goto, Moves, Admitted, Opened, Goroutine,
         Role, StopRole
    <3>4. CASE Goto(k, w, "once")
      BY <3>1, <3>4, <1>1 DEF At, Goto, Moves, Admitted, Opened, Goroutine,
         Role, StopRole
    <3> QED BY <2>1, <3>2, <3>3, <3>4 DEF StopEntry, Crash
  <2>2. CASE StopOnce(k, w)
    <3>1. At(k, w, "once")
      BY <2>2 DEF StopOnce
    <3>2. CASE Goto(k, w, "close")
      BY <3>1, <3>2, <1>1 DEF At, Goto, Moves, Admitted, Opened, Goroutine,
         Role, StopRole
    <3>3. CASE Goto(k, w, "done")
      BY <3>1, <3>3, <1>1 DEF At, Goto, Moves, Admitted, Opened, Goroutine,
         Role, StopRole
    <3> QED BY <2>2, <3>2, <3>3 DEF StopOnce
  <2>3. CASE StopClose(k, w)
    <3>1. At(k, w, "close")
      BY <2>3 DEF StopClose, Crash
    <3>2. CASE pc' = pc
      BY <3>1, <3>2, <1>1 DEF At, Moves, Admitted, Opened, Goroutine, Role,
         StopRole
    <3>3. CASE Goto(k, w, "drain")
      BY <3>1, <3>3, <1>1 DEF At, Goto, Moves, Admitted, Opened, Goroutine,
         Role, StopRole
    <3> QED BY <2>3, <3>2, <3>3 DEF StopClose, Crash
  <2>4. CASE StopDrain(k, w)
    BY <2>4, <1>1 DEF StopDrain, At, Goto, Moves, Admitted, Opened,
       Goroutine, Role, StopRole
  <2>5. CASE StopChannels(k, w)
    <3>1. At(k, w, "channels")
      BY <2>5 DEF StopChannels, Crash
    <3>2. CASE pc' = pc
      BY <3>1, <3>2, <1>1 DEF At, Moves, Admitted, Opened, Goroutine, Role,
         StopRole
    <3>3. CASE Goto(k, w, "unmap")
      BY <3>1, <3>3, <1>1 DEF At, Goto, Moves, Admitted, Opened, Goroutine,
         Role, StopRole
    <3>4. CASE Goto(k, w, "done")
      BY <3>1, <3>4, <1>1 DEF At, Goto, Moves, Admitted, Opened, Goroutine,
         Role, StopRole
    <3> QED BY <2>5, <3>2, <3>3, <3>4 DEF StopChannels, Crash
  <2>6. CASE StopUnmap(k, w)
    <3>1. Goto(k, w, "unsubscribe")
      BY <2>6 DEF StopUnmap
    <3>2. \A j \in Conn, r \in Role :
            j # k \/ r # w => pc'[<<j, r>>] = pc[<<j, r>>]
      BY <3>1, <1>1 DEF Goto, Goroutine
    <3>3. pc'[<<k, w>>] = "unsubscribe"
      BY <3>1, <1>1 DEF Goto, Goroutine, Role, StopRole
    <3> QED
      BY <2>6, <3>2, <3>3 DEF Moves, Admitted, Opened, Role, StopRole
  <2>7. CASE StopUnsubscribe(k, w)
    <3>1. pc[<<k, w>>] = "unsubscribe" /\ Goto(k, w, "release")
      BY <2>7 DEF StopUnsubscribe, At
    <3>2. \A j \in Conn, r \in Role :
            j # k \/ r # w => pc'[<<j, r>>] = pc[<<j, r>>]
      BY <3>1, <1>1 DEF Goto, Goroutine
    <3> QED
      BY <2>7, <3>1, <3>2 DEF Moves, Admitted, Opened, Role, StopRole
  <2>8. CASE StopRelease(k, w)
    BY <2>8, <1>1 DEF StopRelease, At, Goto, Moves, Admitted, Opened,
       Goroutine, Role, StopRole
  <2> QED BY <1>h, <2>1, <2>2, <2>3, <2>4, <2>5, <2>6, <2>7, <2>8 DEF StopStep
<1>i. ASSUME NEW k \in Conn, NEW o \in Conn, WaitReused(k, o)
      PROVE  Moves
  BY <1>i, <1>1 DEF WaitReused, Crash, Moves, Admitted, Opened,
     Goroutine, Role, StopRole
<1> QED BY <1>a, <1>b, <1>c, <1>d, <1>e, <1>f, <1>g, <1>h, <1>i DEF Next

-----------------------------------------------------------------------------

\* Only the end of Start and the end of Stop's wait write a client's state.
LEMMA StateKept ==
  [Next]_vars => \/ state' = state
                 \/ \E k \in Conn : \/ StartConnected(k)
                                    \/ \E w \in StopRole : StopDrain(k, w)
<1> SUFFICES ASSUME [Next]_vars, \A k \in Conn : ~StartConnected(k),
                    \A k \in Conn, w \in StopRole : ~StopDrain(k, w)
             PROVE  state' = state
  OBVIOUS
<1>1. CASE UNCHANGED vars
  BY <1>1 DEF vars, flags
<1>2. ASSUME NEW k \in Conn, InitStep(k) PROVE state' = state
  BY <1>2 DEF InitStep, InitTakeover, InitResume, InitNew, TakeoverOnce,
     TakeoverDrain, TakeoverInstall, ServeWait, ServeDone, Crash, flags
<1>3. ASSUME NEW k \in Conn, StartStep(k) PROVE state' = state
  BY <1>3 DEF StartStep, StartOpen, StartReplay, StartBlocked, StartConnack,
     StartSpawn, StartTimer, Crash, flags
<1>4. ASSUME NEW k \in Conn, RecvStep(k) PROVE state' = state
  BY <1>4 DEF RecvStep, RecvCheck, RecvFail, RecvDisconnect, RecvFlow,
     RecvRequest, RecvReply, RecvQuiet, Crash, flags
<1>5. ASSUME NEW k \in Conn, SendStep(k) \/ TimerStep(k) \/ Arrival(k)
      PROVE  state' = state
  BY <1>5 DEF SendStep, SendEnter, SendStop, SendPacket, TimerStep, TimerEnter,
     TimerReset, TimerExpire, TimerStop, Arrival, Connect, Reject, BadConnect,
     Crash, flags
<1>6. ASSUME NEW k \in Conn, NEW w \in StopRole, StopStep(k, w)
      PROVE  state' = state
  BY <1>6 DEF StopStep, StopEntry, StopOnce, StopClose, StopChannels,
     StopUnmap, StopUnsubscribe, StopRelease, Crash, flags
<1>7. ASSUME NEW k \in Conn, NEW o \in Conn, WaitReused(k, o)
      PROVE  state' = state
  BY <1>7 DEF WaitReused, Crash, flags
<1> QED BY <1>1, <1>2, <1>3, <1>4, <1>5, <1>6, <1>7 DEF Next

\* Stop has waited, and its body is not over.
Drained(g) == pc[g] = "channels" \/ ChannelsClosed(g)

\* A Stop that has waited goes on to the end of its body, and a sync.Once that
\* is done stays so.
LEMMA TeardownLasts ==
  ASSUME TypeOK, Order, [Next]_vars
  PROVE  /\ \A s \in Conn : once[s] = "done" => once'[s] = "done"
         /\ \A g \in Stopper :
              Drained(g) => Drained(g)' \/ once'[on[g]] = "done"
<1> DEFINE Goal == /\ \A s \in Conn : once[s] = "done" => once'[s] = "done"
                   /\ \A g \in Stopper :
                        Drained(g) => Drained(g)' \/ once'[on[g]] = "done"
<1>1. /\ pc \in [Goroutine -> Label] /\ on \in [Goroutine -> Conn]
      /\ once \in [Conn -> {"fresh", "running", "done"}]
      /\ Stopper \subseteq Goroutine
  BY DEF TypeOK, Stopper, StopRole, Goroutine, Role
<1>2. CASE Apart
  BY <1>2 DEF Apart, Drained, InBody, ChannelsClosed
<1>3. ASSUME NEW k \in Conn, TakeoverOnce(k) \/ TakeoverDrain(k) PROVE Goal
  <2>1. \A g \in Stopper : pc'[g] = pc[g]
    <3>1. ASSUME NEW l, Goto(k, "init", l)
          PROVE  \A g \in Stopper : pc'[g] = pc[g]
      BY <1>1, <3>1 DEF Goto, Stopper, StopRole
    <3> QED BY <1>3, <3>1 DEF TakeoverOnce, TakeoverDrain, Crash
  <2>2. \/ once' = once
        \/ \E s \in Conn : /\ once[s] # "done"
                           /\ once' = [once EXCEPT ![s] = "running"]
        \/ \E s : once' = [once EXCEPT ![s] = "done"]
    <3>1. cur[client[k]] \in Conn
      BY DEF TypeOK
    <3> QED BY <1>3, <3>1 DEF TakeoverOnce, TakeoverDrain, Crash, session
  <2> QED BY <1>1, <2>1, <2>2 DEF Drained, ChannelsClosed
<1>4. ASSUME NEW k \in Conn, NEW w \in StopRole,
             \/ StopOnce(k, w) \/ StopClose(k, w) \/ StopDrain(k, w)
             \/ StopChannels(k, w) \/ StopUnmap(k, w)
             \/ StopUnsubscribe(k, w) \/ StopRelease(k, w)
      PROVE  Goal
  <2> DEFINE h == <<k, w>>
  <2>1. h \in Stopper /\ h \in Goroutine
    BY <1>1 DEF Stopper
  <2>2. \A g \in Stopper : g # h => pc'[g] = pc[g]
    <3>1. ASSUME NEW l, Goto(k, w, l)
          PROVE  \A g \in Stopper : g # h => pc'[g] = pc[g]
      BY <1>1, <3>1 DEF Goto
    <3> QED BY <1>4, <3>1 DEF StopOnce, StopClose, StopDrain, StopChannels,
            StopUnmap, StopUnsubscribe, StopRelease, Crash
  <2>3. \/ once' = once
        \/ \E s \in Conn : /\ once[s] # "done"
                           /\ once' = [once EXCEPT ![s] = "running"]
        \/ \E s : once' = [once EXCEPT ![s] = "done"]
    <3>1. cur[client[k]] \in Conn
      BY DEF TypeOK
    <3> QED BY <1>4, <3>1 DEF StopOnce, StopClose, StopDrain, StopChannels,
            StopUnmap, StopUnsubscribe, StopRelease, Crash, session
  <2>4. ASSUME Drained(h) PROVE Drained(h)' \/ once'[on[h]] = "done"
    <3>1. CASE pc' = pc
      BY <2>4, <3>1 DEF Drained, ChannelsClosed
    <3>2. CASE \E l \in {"unmap", "unsubscribe", "release"} : Goto(k, w, l)
      BY <1>1, <2>1, <3>2 DEF Goto, Drained, ChannelsClosed
    <3>3. CASE once' = [once EXCEPT ![on[h]] = "done"]
      BY <1>1, <2>1, <3>3
    <3> QED BY <1>4, <2>4, <3>1, <3>2, <3>3 DEF StopOnce, StopClose, StopDrain,
            StopChannels, StopUnmap, StopUnsubscribe, StopRelease, Crash,
            Drained, ChannelsClosed, At
  <2> QED BY <1>1, <2>2, <2>3, <2>4 DEF Drained, ChannelsClosed
<1> QED BY <1>2, <1>3, <1>4, ApartOrTeardown DEF Teardown

\* SoleConnected is kept: the end of Start makes the client CONNECTED, and what
\* makes it DISCONNECTED is a Stop that has waited.
LEMMA ConnectedNext ==
  TypeOK /\ Order /\ Owned /\ SoleConnected /\ [Next]_vars => SoleConnected'
<1> SUFFICES ASSUME TypeOK, Order, Owned, SoleConnected, [Next]_vars,
                    NEW o \in Conn, Sole(o)',
                    pc'[<<o, "start">>] \in {"timer", "done"},
                    once'[o] # "done",
                    \A w \in StopRole : ~Drained(<<o, w>>)'
             PROVE  state'[o] = "CONNECTED"
  BY DEF SoleConnected, Drained
<1>1. /\ Sole(o) /\ client[o] = o
      /\ \A w \in StopRole : <<o, w>> \in Stopper /\ on[<<o, w>>] = o
  BY SoleLasts, SoleOwns DEF Sole, Stopper, StopRole, Role
<1>2. once[o] # "done" /\ \A w \in StopRole : ~Drained(<<o, w>>)
  BY <1>1, TeardownLasts
<1>3. state \in [Conn -> {"DISCONNECTED", "CONNECTED"}]
  BY DEF TypeOK
<1>4. state[o] = "CONNECTED" \/ StartConnected(o)
  BY <1>1, <1>2, StepMoves DEF Moves, SoleConnected, Drained
<1>5. CASE state' = state
  <2>1. ASSUME StartConnected(o) PROVE state'[o] = "CONNECTED"
    BY <1>1, <1>3, <2>1 DEF StartConnected
  <2> QED BY <1>4, <1>5, <2>1
<1>6. ASSUME NEW k \in Conn, StartConnected(k) PROVE state'[o] = "CONNECTED"
  <2>1. CASE client[k] = o
    BY <1>3, <1>6, <2>1 DEF StartConnected
  <2>2. CASE client[k] # o
    <3>1. state'[o] = state[o]
      BY <1>3, <1>6, <2>2 DEF StartConnected
    <3>2. ASSUME StartConnected(o) PROVE state'[o] = "CONNECTED"
      BY <1>1, <1>3, <3>2 DEF StartConnected
    <3> QED BY <1>4, <3>1, <3>2
  <2> QED BY <2>1, <2>2
<1>7. ASSUME NEW k \in Conn, NEW w \in StopRole, StopDrain(k, w)
      PROVE  state'[o] = "CONNECTED"
  <2>1. client[k] # o
    <3>1. ASSUME client[k] = o PROVE FALSE
      <4>1. k = o
        BY <1>1, <3>1 DEF Sole
      <4>2. pc'[<<o, w>>] = "channels"
        BY <1>7, <4>1 DEF StopDrain, Goto, TypeOK, Goroutine, Role, StopRole
      <4> QED BY <4>2 DEF Drained
    <3> QED BY <3>1
  <2>2. state'[o] = state[o]
    BY <1>3, <1>7, <2>1 DEF StopDrain
  <2>3. ASSUME StartConnected(o) PROVE state'[o] = "CONNECTED"
    BY <1>1, <1>3, <2>3 DEF StartConnected
  <2> QED BY <1>4, <2>2, <2>3
<1> QED BY <1>5, <1>6, <1>7, StateKept

-----------------------------------------------------------------------------

\* The steps that can bring the process down.
Crashing ==
  \E k \in Conn :
    \/ BadConnect(k) \/ TakeoverOnce(k)
    \/ StartReplay(k) \/ StartBlocked(k) \/ StartConnack(k)
    \/ RecvFlow(k) \/ RecvReply(k)
    \/ \E w \in StopRole :
         StopEntry(k, w) \/ StopClose(k, w) \/ StopChannels(k, w)
    \/ \E o \in Conn : WaitReused(k, o)

\* No other step panics.
LEMMA FaultKept == [Next]_vars => Crashing \/ UNCHANGED fault
<1> SUFFICES ASSUME [Next]_vars, ~Crashing
             PROVE  UNCHANGED fault
  OBVIOUS
<1>1. CASE UNCHANGED vars
  BY <1>1 DEF vars
<1>2. ASSUME NEW k \in Conn, InitStep(k) PROVE UNCHANGED fault
  BY <1>2 DEF InitStep, InitTakeover, InitResume, Resumes, InitNew,
     TakeoverDrain,
     TakeoverInstall, ServeWait, ServeDone, Crashing, fault
<1>3. ASSUME NEW k \in Conn, StartStep(k) PROVE UNCHANGED fault
  BY <1>3 DEF StartStep, StartOpen, StartSpawn, StartConnected, StartTimer,
     Crashing, fault
<1>4. ASSUME NEW k \in Conn, RecvStep(k) PROVE UNCHANGED fault
  BY <1>4 DEF RecvStep, RecvCheck, RecvFail, RecvDisconnect, RecvRequest,
     RecvQuiet, Crashing, fault
<1>5. ASSUME NEW k \in Conn, SendStep(k) PROVE UNCHANGED fault
  BY <1>5 DEF SendStep, SendEnter, SendStop, SendPacket, Crashing, fault
<1>6. ASSUME NEW k \in Conn, TimerStep(k) PROVE UNCHANGED fault
  BY <1>6 DEF TimerStep, TimerEnter, TimerReset, TimerExpire, TimerStop,
     Crashing, fault
<1>7. ASSUME NEW k \in Conn, Arrival(k) PROVE UNCHANGED fault
  BY <1>7 DEF Arrival, Connect, Reject, Crashing, fault
<1>8. ASSUME NEW k \in Conn, NEW w \in StopRole, StopStep(k, w)
      PROVE  UNCHANGED fault
  BY <1>8 DEF StopStep, StopOnce, StopDrain, StopUnmap, StopUnsubscribe,
     StopRelease, Crashing, fault
<1>9. ASSUME NEW k \in Conn, NEW o \in Conn, WaitReused(k, o)
      PROVE  UNCHANGED fault
  BY <1>9 DEF Crashing
<1> QED BY <1>1, <1>2, <1>3, <1>4, <1>5, <1>6, <1>7, <1>8, <1>9 DEF Next

\* Whenever one of those steps panics, its object was taken over.
LEMMA PanicNext ==
  /\ TypeOK /\ Order /\ Owned /\ OneBody /\ SoleTeardown /\ SoleNeverPanics
  /\ [Next]_vars
  => SoleNeverPanics'
<1> SUFFICES ASSUME TypeOK, Order, Owned, OneBody, SoleTeardown,
                    SoleNeverPanics, [Next]_vars
             PROVE  SoleNeverPanics'
  OBVIOUS
<1>1. /\ client \in [Conn -> Conn] /\ victim \in Conn \cup {Nil}
      /\ pc \in [Goroutine -> Label]
  BY DEF TypeOK
<1>2. CASE UNCHANGED fault
  <2>1. CASE victim \in Conn
    BY <1>2, <2>1, SoleLasts DEF fault, SoleNeverPanics
  <2>2. CASE victim = Nil
    <3>1. Sole(victim)
      BY <1>1, <2>2, ConnAssumption DEF Sole
    <3> QED BY <1>2, <3>1 DEF fault, SoleNeverPanics
  <2> QED BY <1>1, <2>1, <2>2
<1>3. ASSUME NEW k \in Conn,
             NEW why \in {"closeClosed", "sendClosed", "nilConn"},
             Crash(why, client[k]), Sole(client[k]) => FALSE
      PROVE  SoleNeverPanics'
  <2>1. ~Sole(client[k])'
    BY <1>3 DEF Crash, binding, Sole
  <2> QED BY <1>3, <2>1 DEF Crash, binding, Sole, SoleNeverPanics
<1>4. ASSUME NEW k \in Conn, Sole(client[k])
      PROVE  /\ client[k] = k /\ cur[k] = k /\ chan[k] = k /\ TornDown(k)
             /\ \A r \in Role : on[<<k, r>>] = k
             /\ ~Holds(k) /\ ~ConnNil(k)
  <2>1. client[k] = k
    BY <1>1, <1>4 DEF Sole
  <2> QED BY <1>4, <2>1, SoleOwns DEF SoleTeardown
<1>5. ASSUME NEW k \in Conn, NEW w \in StopRole, InBody(<<k, w>>),
             Sole(client[k])
      PROVE  /\ once[k] = "running"
             /\ \A v \in StopRole : InBody(<<k, v>>) => v = w
  <2>1. \A v \in StopRole : <<k, v>> \in Stopper /\ on[<<k, v>>] = k
    BY <1>4, <1>5 DEF Role, StopRole, Stopper
  <2> QED BY <1>5, <2>1 DEF OneBody
<1>6. ASSUME NEW k \in Conn, BadConnect(k) PROVE SoleNeverPanics'
  BY <1>6 DEF BadConnect, Crash, SoleNeverPanics
<1>7. ASSUME NEW k \in Conn, TakeoverOnce(k) PROVE SoleNeverPanics'
  <2>1. CASE Crash("closeClosed", client[k])
    <3>1. Holds(k)
      BY <1>7 DEF TakeoverOnce, At, Holds
    <3> QED BY <1>3, <1>4, <2>1, <3>1
  <2> QED BY <1>2, <1>7, <2>1 DEF TakeoverOnce
<1>8. ASSUME NEW k \in Conn, StartConnack(k) PROVE SoleNeverPanics'
  <2>1. CASE ConnNil(client[k]) /\ Crash("nilConn", client[k])
    BY <1>3, <1>4, <2>1
  <2> QED BY <1>2, <1>8, <2>1 DEF StartConnack
<1>a. ASSUME NEW k \in Conn, pc[<<k, "start">>] \in {"replay", "blocked"},
             Sole(client[k]), k \in chanClosed
      PROVE  FALSE
  <2>1. pc[<<k, "recv">>] = "none"
    BY <1>a DEF Order
  <2> QED BY <1>4, <1>a, <2>1 DEF TornDown
<1>b. ASSUME NEW k \in Conn, StartReplay(k) PROVE SoleNeverPanics'
  <2>1. CASE Crash("nilStore", client[k])
    BY <2>1 DEF Crash, SoleNeverPanics
  <2>2. CASE chan[client[k]] \in chanClosed /\ Crash("sendClosed", client[k])
    <3>1. ASSUME Sole(client[k]) PROVE FALSE
      <4>1. k \in chanClosed /\ pc[<<k, "start">>] = "replay"
        BY <1>4, <1>b, <2>2, <3>1 DEF StartReplay, At
      <4> QED BY <1>a, <3>1, <4>1
    <3> QED BY <1>3, <2>2, <3>1
  <2> QED BY <1>2, <1>b, <2>1, <2>2 DEF StartReplay
<1>c. ASSUME NEW k \in Conn, StartBlocked(k) PROVE SoleNeverPanics'
  <2>1. CASE on[<<k, "start">>] \in chanClosed
             /\ Crash("sendClosed", client[k])
    <3>1. ASSUME Sole(client[k]) PROVE FALSE
      <4>1. k \in chanClosed /\ pc[<<k, "start">>] = "blocked"
        BY <1>4, <1>c, <2>1, <3>1 DEF StartBlocked, At, Role
      <4> QED BY <1>a, <3>1, <4>1
    <3> QED BY <1>3, <2>1, <3>1
  <2> QED BY <1>2, <1>c, <2>1 DEF StartBlocked
<1>d. ASSUME NEW k \in Conn, NEW o \in Conn, WaitReused(k, o)
      PROVE  SoleNeverPanics'
  BY <1>d DEF WaitReused, Crash, SoleNeverPanics
<1>9. ASSUME NEW k \in Conn, RecvFlow(k) PROVE SoleNeverPanics'
  <2>1. CASE Crash("nilStore", client[k])
    BY <2>1 DEF Crash, SoleNeverPanics
  <2>2. CASE chan[client[k]] \in chanClosed /\ Crash("sendClosed", client[k])
    <3>1. ASSUME Sole(client[k]) PROVE FALSE
      <4>1. k \in chanClosed /\ pc[<<k, "recv">>] = "read"
        BY <1>4, <1>9, <2>2, <3>1 DEF RecvFlow, Arrives, At
      <4> QED BY <1>4, <3>1, <4>1 DEF TornDown
    <3> QED BY <1>3, <2>2, <3>1
  <2> QED BY <1>2, <1>9, <2>1, <2>2 DEF RecvFlow
<1>10. ASSUME NEW k \in Conn, RecvReply(k) PROVE SoleNeverPanics'
  <2>1. CASE on[<<k, "recv">>] \in chanClosed /\ Crash("sendClosed", client[k])
    <3>1. ASSUME Sole(client[k]) PROVE FALSE
      <4>1. k \in chanClosed /\ pc[<<k, "recv">>] = "reply"
        BY <1>4, <1>10, <2>1, <3>1 DEF RecvReply, At, Role
      <4> QED BY <1>4, <3>1, <4>1 DEF TornDown
    <3> QED BY <1>3, <2>1, <3>1
  <2> QED BY <1>2, <1>10, <2>1 DEF RecvReply
<1>11. ASSUME NEW k \in Conn, NEW w \in StopRole, StopEntry(k, w)
       PROVE  SoleNeverPanics'
  <2>1. CASE ConnNil(client[k]) /\ Crash("nilConn", client[k])
    BY <1>3, <1>4, <2>1
  <2> QED BY <1>2, <1>11, <2>1 DEF StopEntry
<1>12. ASSUME NEW k \in Conn, NEW w \in StopRole, StopClose(k, w)
       PROVE  SoleNeverPanics'
  <2>1. CASE cur[client[k]] \in stopped /\ Crash("closeClosed", client[k])
    <3>1. ASSUME Sole(client[k]) PROVE FALSE
      <4>1. k \in stopped /\ pc[<<k, w>>] = "close" /\ InBody(<<k, w>>)
        BY <1>4, <1>12, <2>1, <3>1 DEF StopClose, At, InBody
      <4>2. /\ once[k] = "running"
            /\ \A v \in StopRole : InBody(<<k, v>>) => v = w
        BY <1>5, <3>1, <4>1
      <4>3. TornDown(k)
        BY <1>4, <3>1
      <4> QED BY <4>1, <4>2, <4>3 DEF TornDown
    <3> QED BY <1>3, <2>1, <3>1
  <2> QED BY <1>2, <1>12, <2>1 DEF StopClose
<1>13. ASSUME NEW k \in Conn, NEW w \in StopRole, StopChannels(k, w)
       PROVE  SoleNeverPanics'
  <2>1. CASE chan[client[k]] \in chanClosed /\ Crash("closeClosed", client[k])
    <3>1. ASSUME Sole(client[k]) PROVE FALSE
      <4>1. k \in chanClosed /\ pc[<<k, w>>] = "channels" /\ InBody(<<k, w>>)
        BY <1>4, <1>13, <2>1, <3>1 DEF StopChannels, At, InBody
      <4>2. /\ once[k] = "running"
            /\ \A v \in StopRole : InBody(<<k, v>>) => v = w
        BY <1>5, <3>1, <4>1
      <4>3. TornDown(k)
        BY <1>4, <3>1
      <4> QED BY <4>1, <4>2, <4>3 DEF TornDown, ChannelsClosed, InBody
    <3> QED BY <1>3, <2>1, <3>1
  <2> QED BY <1>2, <1>13, <2>1 DEF StopChannels
<1> QED BY <1>2, <1>6, <1>7, <1>8, <1>9, <1>10, <1>11, <1>12, <1>13, <1>b,
           <1>c, <1>d, FaultKept
    DEF Crashing

-----------------------------------------------------------------------------

\* After a panic nothing moves.
LEMMA DownStays == [Next]_vars /\ ~Up => UNCHANGED vars
<1> SUFFICES ASSUME [Next]_vars, ~Up PROVE UNCHANGED vars
  OBVIOUS
<1>1. ASSUME NEW k \in Conn, InitStep(k) PROVE FALSE
  BY <1>1 DEF InitStep, InitTakeover, InitResume, Resumes, InitNew,
     TakeoverOnce, TakeoverDrain, TakeoverInstall, ServeWait, ServeDone, At
<1>2. ASSUME NEW k \in Conn, StartStep(k) PROVE FALSE
  BY <1>2 DEF StartStep, StartOpen, StartReplay, StartBlocked, StartConnack,
     StartSpawn, StartConnected, StartTimer, At
<1>3. ASSUME NEW k \in Conn, RecvStep(k) PROVE FALSE
  BY <1>3 DEF RecvStep, RecvCheck, RecvFail, RecvDisconnect, RecvFlow,
     RecvRequest, RecvReply, RecvQuiet, Arrives, At
<1>4. ASSUME NEW k \in Conn, SendStep(k) \/ TimerStep(k) \/ Arrival(k)
      PROVE  FALSE
  BY <1>4 DEF SendStep, SendEnter, SendStop, SendPacket, TimerStep, TimerEnter,
     TimerReset, TimerExpire, TimerStop, Arrival, Connect, Reject, BadConnect,
     At
<1>5. ASSUME NEW k \in Conn, NEW w \in StopRole, StopStep(k, w) PROVE FALSE
  BY <1>5 DEF StopStep, StopEntry, StopOnce, StopClose, StopDrain,
     StopChannels, StopUnmap, StopUnsubscribe, StopRelease, At
<1>6. ASSUME NEW k \in Conn, NEW o \in Conn, WaitReused(k, o) PROVE FALSE
  BY <1>6 DEF WaitReused, AddsTo, Resumes, At
<1> QED BY <1>1, <1>2, <1>3, <1>4, <1>5, <1>6 DEF Next

\* An Add beside a Wait of an object that is not shared is that of its own late
\* Start: a CONNECT that resumes it would have found it CONNECTED.
LEMMA ReuseNext ==
  /\ TypeOK /\ Order /\ Owned /\ OneBody /\ SoleConnected
  /\ ReuseNeedsLateStart /\ [Next]_vars
  => ReuseNeedsLateStart'
<1> SUFFICES ASSUME TypeOK, Order, Owned, OneBody, SoleConnected,
                    ReuseNeedsLateStart, [Next]_vars
             PROVE  ReuseNeedsLateStart'
  OBVIOUS
<1>1. CASE ~Up
  <2>1. /\ panic' = panic /\ victim' = victim /\ pc' = pc /\ client' = client
    BY <1>1, DownStays DEF vars, binding, fault
  <2> QED BY <2>1 DEF ReuseNeedsLateStart, Sole
<1>2. CASE Up /\ UNCHANGED fault
  BY <1>2 DEF Up, fault, ReuseNeedsLateStart
<1>3. ASSUME NEW k \in Conn, NEW o \in Conn, WaitReused(k, o), Sole(o)
      PROVE  pc[<<o, "start">>] \in {"state", "timer"}
  <2>1. client[o] = o /\ \A j \in Conn : client[j] = o => j = o
    BY <1>3 DEF Sole
  <2>2. ~Holds(o) /\ \A w \in StopRole : on[<<o, w>>] = o
    BY <1>3, SoleOwns DEF Role, StopRole
  <2>3. PICK w \in StopRole : pc[<<o, w>>] = "drain"
    <3>1. PICK j \in Conn : \E r \in {"init"} \cup StopRole :
                              client[j] = o /\ pc[<<j, r>>] = "drain"
      BY <1>3 DEF WaitReused, Waited
    <3>2. j = o
      BY <2>1, <3>1
    <3>3. pc[<<o, "init">>] # "drain"
      BY <2>2 DEF Holds
    <3> QED BY <3>1, <3>2, <3>3
  <2>4. pc[<<o, "start">>] \in {"state", "timer", "done"}
    <3>1. pc[<<o, w>>] # "none"
      BY <2>3
    <3> QED BY <3>1 DEF Order, StopRole
  <2>5. /\ once[o] # "done"
        /\ \A v \in StopRole : /\ ~ChannelsClosed(<<o, v>>)
                               /\ pc[<<o, v>>] # "channels"
    <3>1. \A v \in StopRole : <<o, v>> \in Stopper
      BY DEF Stopper
    <3>2. InBody(<<o, w>>)
      BY <2>3 DEF InBody
    <3>3. once[o] = "running"
      BY <2>2, <3>1, <3>2 DEF OneBody
    <3>4. \A v \in StopRole : InBody(<<o, v>>) => v = w
      BY <2>2, <3>1, <3>2 DEF OneBody
    <3>5. ~ChannelsClosed(<<o, w>>) /\ pc[<<o, w>>] # "channels"
      BY <2>3 DEF ChannelsClosed
    <3> QED BY <3>3, <3>4, <3>5 DEF InBody
  <2>6. CASE Resumes(k) /\ o = clients[Id(k)]
    <3>1. state[o] # "CONNECTED"
      BY <2>6 DEF Resumes, Idle
    <3> QED BY <1>3, <2>4, <2>5, <3>1 DEF SoleConnected
  <2>7. CASE /\ At(k, "init", "install") \/ At(k, "init", "reinstall")
             /\ o = client[k]
    BY <2>1, <2>2, <2>7 DEF At, Holds
  <2>8. CASE At(k, "start", "spawn") /\ o = client[k]
    BY <2>1, <2>4, <2>8 DEF At
  <2>9. CASE At(k, "start", "timer") /\ o = client[k]
    BY <2>1, <2>9 DEF At
  <2> QED BY <1>3, <2>6, <2>7, <2>8, <2>9 DEF WaitReused, AddsTo
<1>4. ASSUME NEW k \in Conn, NEW o \in Conn, WaitReused(k, o)
      PROVE  ReuseNeedsLateStart'
  <2>1. victim' = o /\ pc' = pc /\ client' = client
    BY <1>4 DEF WaitReused, Crash, binding
  <2> QED BY <1>3, <1>4, <2>1 DEF ReuseNeedsLateStart, Sole
<1>5. ASSUME NEW why \in Panics \ {"wgReused"}, NEW o, Crash(why, o)
      PROVE  ReuseNeedsLateStart'
  BY <1>5 DEF Crash, ReuseNeedsLateStart
<1>6. ASSUME NEW k \in Conn,
             \/ BadConnect(k) \/ TakeoverOnce(k) \/ StartReplay(k)
             \/ StartBlocked(k) \/ StartConnack(k) \/ RecvFlow(k)
             \/ RecvReply(k)
             \/ \E w \in StopRole :
                  StopEntry(k, w) \/ StopClose(k, w) \/ StopChannels(k, w)
      PROVE  UNCHANGED fault
             \/ \E why \in Panics \ {"wgReused"} : \E o : Crash(why, o)
  BY <1>6 DEF BadConnect, TakeoverOnce, StartReplay, StartBlocked,
     StartConnack, RecvFlow, RecvReply, StopEntry, StopClose, StopChannels,
     Panics, fault
<1> QED BY <1>1, <1>2, <1>4, <1>5, <1>6, FaultKept DEF Crashing

-----------------------------------------------------------------------------

\* The initial states satisfy the inductive invariant.
LEMMA InvInit == Init => IInv
<1> SUFFICES ASSUME Init PROVE IInv
  OBVIOUS
<1>1. TypeOK
  BY TypeInit
<1>2. \A k \in Conn, r \in Role : pc[<<k, r>>] = "none"
  BY DEF Init, Goroutine
<1>3. \A g \in Goroutine : ~Counted(g)
  BY DEF Init, Counted
<1>4. Order
  BY <1>2 DEF Init, Order, Role, Holds
<1>5. Owned /\ OneHolder
  <2>1. \A k \in Conn : ~Holds(k)
    BY <1>2 DEF Holds, Role
  <2>2. \A g \in Goroutine : client[on[g]] = client[g[1]]
    BY DEF Init, Goroutine
  <2>3. /\ clients = [id \in ClientId |-> Nil]
        /\ client = [k \in Conn |-> k]
        /\ cur = [k \in Conn |-> k] /\ chan = [k \in Conn |-> k]
    BY DEF Init
  <2>4. Owned
    BY <2>1, <2>2, <2>3 DEF Owned
  <2> QED BY <2>1, <2>4 DEF OneHolder
<1>6. WaitGroupCounts
  <2>1. \A o \in Conn : Members(o) = {}
    BY <1>3 DEF Members
  <2>2. Cardinality({}) = 0
    BY FS_EmptySet
  <2>3. wg = [o \in Conn |-> 0]
    BY DEF Init
  <2> QED BY <2>1, <2>2, <2>3 DEF WaitGroupCounts
<1>7. OneBody
  <2>1. \A g \in Stopper : ~InBody(g)
    <3>1. pc = [g \in Goroutine |-> "none"]
      BY DEF Init
    <3>2. Stopper \subseteq Goroutine
      BY DEF Stopper, StopRole, Goroutine, Role
    <3> QED BY <3>1, <3>2 DEF InBody, ChannelsClosed
  <2>2. \A k \in Conn : pc[<<k, "init">>] # "drain"
    BY <1>2 DEF Role
  <2> QED BY <2>1, <2>2 DEF OneBody
<1>8. WillInBody
  BY DEF Init, WillInBody
<1>9. SoleTeardown
  BY <1>2
  DEF Init, SoleTeardown, TornDown, InBody, ChannelsClosed, StopRole, Role
<1>10. SoleNeverPanics
  BY DEF Init, SoleNeverPanics
<1>11. SoleConnected
  BY <1>2 DEF SoleConnected, Role
<1>12. ReuseNeedsLateStart
  BY DEF Init, ReuseNeedsLateStart
<1> QED BY <1>1, <1>4, <1>5, <1>6, <1>7, <1>8, <1>9, <1>10, <1>11, <1>12
    DEF IInv

\* Every step preserves it.
LEMMA InvNext == IInv /\ [Next]_vars => IInv'
BY TypeNext, OrderNext, OwnedNext, HolderNext, CountNext, BodyNext, WillNext,
   TeardownNext, PanicNext, ConnectedNext, ReuseNext
DEF IInv

\* IInv is an invariant of every execution.
THEOREM Invariance == Spec => []IInv
BY InvInit, InvNext, PTL DEF Spec

\* The variables keep their types.
THEOREM TypeCorrect == Spec => []TypeOK
<1>1. IInv => TypeOK
  BY DEF IInv
<1> QED BY <1>1, Invariance, PTL

\* client.go Add/Done: every WaitGroup counts exactly the goroutines that its
\* Wait has to outlast.
THEOREM CountsCorrect == Spec => []WaitGroupCounts
<1>1. IInv => WaitGroupCounts
  BY DEF IInv
<1> QED BY <1>1, Invariance, PTL

\* client.go:95-97: whatever races to stop a session, its will goes out at most
\* once.
THEOREM WillOnce == Spec => []WillAtMostOnce
<1>1. IInv => WillAtMostOnce
  BY DEF IInv, WillInBody, WillAtMostOnce
<1> QED BY <1>1, Invariance, PTL

\* client.go:102-108: the channels of a client nobody took over are closed only
\* after its Receive and Send have returned.
THEOREM ClosesLast == Spec => []ClosedAfterDrain
<1>1. IInv => ClosedAfterDrain
  BY DEF IInv, SoleTeardown, TornDown, ClosedAfterDrain
<1> QED BY <1>1, Invariance, PTL

\* client.go: no send on a closed channel, no second close and no nil
\* connection in the goroutines of a client nobody took over.
THEOREM NoOwnPanic == Spec => []SoleNeverPanics
<1>1. IInv => SoleNeverPanics
  BY DEF IInv
<1> QED BY <1>1, Invariance, PTL

\* client.go:105 and 185, server.go:216: in an object nobody took over, Go's
\* WaitGroup is reused under a Wait only by the client's own late Start.
THEOREM ReuseIsLate == Spec => []ReuseNeedsLateStart
<1>1. IInv => ReuseNeedsLateStart
  BY DEF IInv
<1> QED BY <1>1, Invariance, PTL

-----------------------------------------------------------------------------
(* What the client list, the subscriptions and the store hold under an     *)
(* identifier.                                                             *)

\* The steps that write what the broker keeps under an identifier.
Enters(k) == InitNew(k) \/ StartOpen(k) \/ RecvRequest(k)
Leaves(k) == \E w \in StopRole :
               StopUnmap(k, w) \/ StopUnsubscribe(k, w) \/ StopRelease(k, w)
Takes(k) == InitTakeover(k) \/ InitResume(k)
Writes == \E k \in Conn : Enters(k) \/ Leaves(k) \/ Takes(k)

\* All other steps keep every entry, every flag and every object's owner.
LEMMA EntriesKept ==
  [Next]_vars => Writes \/ UNCHANGED <<cp, clients, store, subs, clean, client>>
<1> SUFFICES ASSUME [Next]_vars, ~Writes
             PROVE  UNCHANGED <<cp, clients, store, subs, clean, client>>
  OBVIOUS
<1>1. CASE UNCHANGED vars
  BY <1>1 DEF vars, registry, flags, binding
<1>2. ASSUME NEW k \in Conn, InitStep(k)
      PROVE  UNCHANGED <<cp, clients, store, subs, clean, client>>
  BY <1>2 DEF InitStep, InitTakeover, InitResume, Resumes, InitNew,
     TakeoverOnce,
     TakeoverDrain, TakeoverInstall, ServeWait, ServeDone, Crash, Writes,
     Enters, Takes, registry, flags, binding
<1>3. ASSUME NEW k \in Conn, StartStep(k)
      PROVE  UNCHANGED <<cp, clients, store, subs, clean, client>>
  BY <1>3 DEF StartStep, StartOpen, StartReplay, StartBlocked, StartConnack,
     StartSpawn, StartConnected, StartTimer, Crash, Writes, Enters, registry,
     flags, binding
<1>4. ASSUME NEW k \in Conn, RecvStep(k)
      PROVE  UNCHANGED <<cp, clients, store, subs, clean, client>>
  BY <1>4 DEF RecvStep, RecvCheck, RecvFail, RecvDisconnect, RecvFlow,
     RecvRequest, RecvReply, RecvQuiet, Crash, Writes, Enters, registry,
     flags, binding
<1>5. ASSUME NEW k \in Conn, SendStep(k) \/ TimerStep(k) \/ Arrival(k)
      PROVE  UNCHANGED <<cp, clients, store, subs, clean, client>>
  BY <1>5 DEF SendStep, SendEnter, SendStop, SendPacket, TimerStep, TimerEnter,
     TimerReset, TimerExpire, TimerStop, Arrival, Connect, Reject, BadConnect,
     Crash, registry, flags, binding
<1>6. ASSUME NEW k \in Conn, NEW w \in StopRole, StopStep(k, w)
      PROVE  UNCHANGED <<cp, clients, store, subs, clean, client>>
  BY <1>6 DEF StopStep, StopEntry, StopOnce, StopClose, StopDrain,
     StopChannels, StopUnmap, StopUnsubscribe, StopRelease, Crash, Writes,
     Leaves, registry, flags, binding
<1>7. ASSUME NEW k \in Conn, NEW o \in Conn, WaitReused(k, o)
      PROVE  UNCHANGED <<cp, clients, store, subs, clean, client>>
  BY <1>7 DEF WaitReused, Crash, registry, flags, binding
<1> QED BY <1>1, <1>2, <1>3, <1>4, <1>5, <1>6, <1>7 DEF Next

\* The CONNECT of a connection is what it is.
LEMMA ConnectKept == [Next]_vars => cp' = cp
<1> SUFFICES ASSUME [Next]_vars PROVE cp' = cp
  OBVIOUS
<1>1. CASE Writes
  BY <1>1 DEF Writes, Enters, Leaves, Takes, InitNew, StartOpen, RecvRequest,
     StopUnmap, StopUnsubscribe, StopRelease, InitTakeover, InitResume,
     registry
<1> QED BY <1>1, EntriesKept

\* A Once is done by the end of a takeover or of one of the two ends of Stop.
LEMMA OnceDone ==
  ASSUME TypeOK, Order, [Next]_vars,
         NEW s \in Conn, once'[s] = "done", once[s] # "done"
  PROVE  \/ \E k \in Conn : TakeoverDrain(k) /\ s = cur[client[k]]
         \/ \E k \in Conn, w \in StopRole :
              StopRelease(k, w) /\ s = on[<<k, w>>]
         \/ \E k \in Conn, w \in StopRole :
              StopChannels(k, w) /\ s = on[<<k, w>>] /\ ~clean[client[k]]
<1>1. once \in [Conn -> {"fresh", "running", "done"}]
  BY DEF TypeOK
<1>2. Teardown
  BY ApartOrTeardown DEF Apart
<1>3. ASSUME NEW k \in Conn, TakeoverOnce(k) PROVE FALSE
  BY <1>1, <1>3 DEF TakeoverOnce, Crash, session
<1>4. ASSUME NEW k \in Conn, TakeoverDrain(k) PROVE s = cur[client[k]]
  BY <1>1, <1>4 DEF TakeoverDrain
<1>5. ASSUME NEW k \in Conn, NEW w \in StopRole,
             StopOnce(k, w) \/ StopClose(k, w) \/ StopDrain(k, w)
             \/ StopUnmap(k, w) \/ StopUnsubscribe(k, w)
      PROVE  FALSE
  BY <1>1, <1>5 DEF StopOnce, StopClose, StopDrain, StopUnmap, StopUnsubscribe,
     Crash, session
<1>6. ASSUME NEW k \in Conn, NEW w \in StopRole, StopChannels(k, w)
      PROVE  s = on[<<k, w>>] /\ ~clean[client[k]]
  BY <1>1, <1>6 DEF StopChannels, Crash, session
<1>7. ASSUME NEW k \in Conn, NEW w \in StopRole, StopRelease(k, w)
      PROVE  s = on[<<k, w>>]
  BY <1>1, <1>7 DEF StopRelease
<1>8. \/ \E k \in Conn : TakeoverDrain(k)
      \/ \E k \in Conn, w \in StopRole : StopRelease(k, w)
      \/ \E k \in Conn, w \in StopRole : StopChannels(k, w)
  BY <1>2, <1>3, <1>5 DEF Teardown
<1>9. CASE \E k \in Conn : TakeoverDrain(k)
  BY <1>4, <1>9
<1>10. CASE \E k \in Conn, w \in StopRole : StopRelease(k, w)
  BY <1>7, <1>10
<1>11. CASE \E k \in Conn, w \in StopRole : StopChannels(k, w)
  BY <1>6, <1>11
<1> QED BY <1>8, <1>9, <1>10, <1>11

-----------------------------------------------------------------------------
\* A connection that has been let in is no longer at its CONNECT, and only one
\* that has been let in runs goroutines.
LEMMA RunsAdmitted ==
  ASSUME TypeOK, Order, NEW k \in Conn, NEW r \in Role \ {"init"},
         pc[<<k, r>>] # "none"
  PROVE  Admitted(k)
BY DEF Order, Admitted, Role

\* A client that is alone has an object of its own that no other has.
LEMMA AloneSole ==
  ASSUME TypeOK, Order, Owned, Named, NEW k \in Conn, Alone(k)
  PROVE  Sole(k)
<1>1. client \in [Conn -> Conn]
  BY DEF TypeOK
<1>2. ASSUME NEW j \in Conn, client[j] = k, j # k PROVE FALSE
  BY <1>1, <1>2 DEF Named, Alone, Admitted, Order
<1>3. ASSUME client[k] # k PROVE FALSE
  <2>1. client[k] \in Conn \ {k} /\ Id(client[k]) = Id(k)
    BY <1>1, <1>3 DEF Named
  <2>2. Created(client[k])
    BY <1>3 DEF Owned
  <2> QED BY <2>1, <2>2 DEF Created, Alone, Admitted
<1> QED BY <1>2, <1>3 DEF Sole

\* A client that is not alone stays so.
LEMMA AloneLasts ==
  ASSUME TypeOK, Order, [Next]_vars, NEW k \in Conn, Alone(k)'
  PROVE  Alone(k)
BY StepMoves, ConnectKept DEF Moves, Alone, Id

\* What a goroutine of another connection does with the identifier of a client
\* that is alone: nothing.
LEMMA AloneUses ==
  ASSUME TypeOK, Order, Named, NEW k \in Conn, Alone(k),
         NEW j \in Conn, NEW r \in Role \ {"init"}, pc[<<j, r>>] # "none",
         Id(client[j]) = Id(k)
  PROVE  j = k
BY RunsAdmitted DEF Named, Alone

\* The teardown of a client that is alone is over, or past its channels: it
\* has run Start and its Receive has returned.
LEMMA AloneEnded ==
  ASSUME TypeOK, Order, Owned, SoleTeardown, Named, NEW k \in Conn, Alone(k),
         \/ once[k] = "done"
         \/ \E w \in StopRole :
              pc[<<k, w>>] \in {"channels", "unmap", "unsubscribe", "release"}
  PROVE  /\ pc[<<k, "recv">>] = "done" /\ Opened(k) /\ Admitted(k)
         /\ pc[<<k, "start">>] # "open"
<1>1. TornDown(k)
  BY AloneSole DEF SoleTeardown
<1>2. pc[<<k, "recv">>] = "done"
  BY <1>1 DEF TornDown, ChannelsClosed
<1>3. pc[<<k, "start">>] \notin {"none", "open"}
  BY <1>2 DEF Order
<1>4. Admitted(k)
  BY <1>2, RunsAdmitted DEF Role
<1> QED BY <1>2, <1>3, <1>4 DEF Opened

\* A CONNECT for the identifier of a client that has been let in ends its being
\* alone.
LEMMA NoNewcomer ==
  ASSUME TypeOK, NEW k \in Conn, Admitted(k), Alone(k)',
         NEW j \in Conn, InitNew(j), Id(j) = Id(k)
  PROVE  FALSE
<1>1. j # k
  BY DEF InitNew, At, Admitted
<1>2. Admitted(j)'
  BY DEF InitNew, Admitted, TypeOK, Goroutine, Role
<1>3. Id(j)' = Id(k)'
  BY DEF InitNew, Id
<1> QED BY <1>1, <1>2, <1>3 DEF Alone

\* An entry of clients.list is made by a CONNECT for its identifier.
LEMMA EntryMade ==
  ASSUME TypeOK, [Next]_vars, NEW id \in ClientId,
         clients[id] = Nil, clients'[id] # Nil
  PROVE  \E j \in Conn : InitNew(j) /\ Id(j) = id
<1>1. clients \in [ClientId -> Conn \cup {Nil}]
  BY DEF TypeOK
<1>2. ASSUME NEW j \in Conn, InitNew(j) PROVE Id(j) = id
  BY <1>1, <1>2 DEF InitNew
<1>3. ASSUME NEW j \in Conn, NEW w \in StopRole,
             StopUnmap(j, w) \/ StopUnsubscribe(j, w) \/ StopRelease(j, w)
      PROVE  FALSE
  BY <1>1, <1>3 DEF StopUnmap, StopUnsubscribe, StopRelease
<1>4. ASSUME NEW j \in Conn, StartOpen(j) \/ RecvRequest(j) \/ Takes(j)
      PROVE  FALSE
  BY <1>4 DEF StartOpen, RecvRequest, Takes, InitTakeover, InitResume,
     Resumes, registry
<1> QED BY <1>2, <1>3, <1>4, EntriesKept DEF Writes, Enters, Leaves

\* A store is opened by the Start of a client with its identifier, and a
\* subscription made by the Receive of one.
LEMMA StoreMade ==
  ASSUME [Next]_vars, NEW id \in ClientId, id \notin store, id \in store'
  PROVE  \E j \in Conn : StartOpen(j) /\ Id(client[j]) = id
<1>1. ASSUME NEW j \in Conn, StartOpen(j) PROVE Id(client[j]) = id
  BY <1>1 DEF StartOpen
<1>2. ASSUME NEW j \in Conn, NEW w \in StopRole,
             StopUnmap(j, w) \/ StopUnsubscribe(j, w) \/ StopRelease(j, w)
      PROVE  FALSE
  BY <1>2 DEF StopUnmap, StopUnsubscribe, StopRelease
<1>3. ASSUME NEW j \in Conn, InitNew(j) \/ RecvRequest(j) \/ Takes(j)
      PROVE  FALSE
  BY <1>3 DEF InitNew, RecvRequest, Takes, InitTakeover, InitResume, Resumes,
     registry
<1> QED BY <1>1, <1>2, <1>3, EntriesKept DEF Writes, Enters, Leaves

\* See StoreMade.
LEMMA SubMade ==
  ASSUME [Next]_vars, NEW id \in ClientId, id \notin subs, id \in subs'
  PROVE  \E j \in Conn : RecvRequest(j) /\ Id(client[j]) = id
<1>1. ASSUME NEW j \in Conn, RecvRequest(j) PROVE Id(client[j]) = id
  BY <1>1 DEF RecvRequest
<1>2. ASSUME NEW j \in Conn, NEW w \in StopRole,
             StopUnmap(j, w) \/ StopUnsubscribe(j, w) \/ StopRelease(j, w)
      PROVE  FALSE
  BY <1>2 DEF StopUnmap, StopUnsubscribe, StopRelease
<1>3. ASSUME NEW j \in Conn, InitNew(j) \/ StartOpen(j) \/ Takes(j)
      PROVE  FALSE
  BY <1>3 DEF InitNew, StartOpen, Takes, InitTakeover, InitResume, Resumes,
     registry
<1> QED BY <1>1, <1>2, <1>3, EntriesKept DEF Writes, Enters, Leaves

-----------------------------------------------------------------------------
\* Named is kept: whoever takes an entry or makes one has its identifier.
LEMMA NamedNext == TypeOK /\ Owned /\ Named /\ [Next]_vars => Named'
<1> SUFFICES ASSUME TypeOK, Owned, Named, [Next]_vars PROVE Named'
  OBVIOUS
<1>1. /\ client \in [Conn -> Conn]
      /\ clients \in [ClientId -> Conn \cup {Nil}]
      /\ \A k \in Conn : Id(k) \in ClientId
  BY DEF TypeOK, Id
<1>2. cp' = cp /\ \A k : Id(k)' = Id(k)
  BY ConnectKept DEF Id
<1>3. CASE UNCHANGED <<clients, client>>
  BY <1>2, <1>3 DEF Named, Id
<1>4. ASSUME NEW k \in Conn, InitNew(k) PROVE Named'
  <2>1. client' = client /\ clients' = [clients EXCEPT ![Id(k)] = k]
    BY <1>4 DEF InitNew, binding
  <2> QED BY <1>1, <1>2, <2>1 DEF Named
<1>5. ASSUME NEW k \in Conn, Takes(k) PROVE Named'
  <2>1. /\ clients' = clients /\ clients[Id(k)] # Nil
        /\ client' = [client EXCEPT ![k] = clients[Id(k)]]
    BY <1>5 DEF Takes, InitTakeover, InitResume, Resumes, Known, registry
  <2> QED BY <1>1, <1>2, <2>1 DEF Named
<1>6. ASSUME NEW k \in Conn, NEW w \in StopRole, StopUnmap(k, w) PROVE Named'
  <2>1. /\ client' = client
        /\ clients' = [clients EXCEPT ![Id(client[k])] = Nil]
    BY <1>6 DEF StopUnmap, binding
  <2> QED BY <1>1, <1>2, <2>1 DEF Named
<1>7. ASSUME NEW k \in Conn, ~InitNew(k), Enters(k) PROVE Named'
  BY <1>3, <1>7 DEF Enters, StartOpen, RecvRequest, binding
<1>8. ASSUME NEW k \in Conn, NEW w \in StopRole,
             StopUnsubscribe(k, w) \/ StopRelease(k, w)
      PROVE  Named'
  BY <1>3, <1>8 DEF StopUnsubscribe, StopRelease, binding
<1> QED BY <1>3, <1>4, <1>5, <1>6, <1>7, <1>8, EntriesKept
        DEF Writes, Enters, Leaves

\* FlagKept is kept: only its own StartOpen sets a sole object's flag.
LEMMA FlagNext ==
  TypeOK /\ Order /\ Owned /\ FlagKept /\ [Next]_vars => FlagKept'
<1> SUFFICES ASSUME TypeOK, Order, Owned, FlagKept, [Next]_vars,
                    NEW k \in Conn, Sole(k)', Opened(k)'
             PROVE  clean'[k] = cp'[k].clean
  BY DEF FlagKept
<1>1. clean \in [Conn -> BOOLEAN] /\ cp' = cp
  BY ConnectKept DEF TypeOK
<1>2. Sole(k)
  BY SoleLasts
<1>3. CASE StartOpen(k)
  <2>1. client[k] = k /\ clean' = [clean EXCEPT ![client[k]] = cp[k].clean]
    BY <1>2, <1>3 DEF Sole, StartOpen
  <2> QED BY <1>1, <2>1
<1>4. CASE ~StartOpen(k)
  <2>1. clean[k] = cp[k].clean
    BY <1>2, <1>4, StepMoves DEF Moves, FlagKept
  <2>2. ASSUME NEW j \in Conn, StartOpen(j) PROVE clean'[k] = clean[k]
    <3>1. client[j] # k
      BY <1>2, <1>4, <2>2 DEF Sole
    <3> QED BY <1>1, <2>2, <3>1 DEF StartOpen
  <2>3. CASE \A j \in Conn : ~StartOpen(j)
    <3>1. clean' = clean
      BY <2>3, EntriesKept DEF Writes, Enters, Leaves, Takes, InitNew,
         RecvRequest, StopUnmap, StopUnsubscribe, StopRelease, InitTakeover,
         InitResume, flags
    <3> QED BY <1>1, <2>1, <3>1
  <2> QED BY <1>1, <2>1, <2>2, <2>3
<1> QED BY <1>3, <1>4

\* StoreOpen is kept: Start opens the store, and what closes it is a teardown
\* that waited for Receive.
LEMMA StoreNext ==
  /\ TypeOK /\ Order /\ Owned /\ SoleTeardown /\ Named /\ StoreOpen
  /\ [Next]_vars
  => StoreOpen'
<1> SUFFICES ASSUME TypeOK, Order, Owned, SoleTeardown, Named, StoreOpen,
                    [Next]_vars
             PROVE  StoreOpen'
  OBVIOUS
<1>a. \A j : Id(j)' = Id(j)
  BY ConnectKept DEF Id
<1> SUFFICES ASSUME NEW k \in Conn, Alone(k)', Opened(k)',
                    pc'[<<k, "recv">>] # "done"
             PROVE  Id(k) \in store'
  BY <1>a DEF StoreOpen
<1>1. Alone(k) /\ Sole(k) /\ pc[<<k, "recv">>] # "done"
  BY AloneLasts, AloneSole, DoneLasts DEF DoneStays
<1>2. ASSUME NEW j \in Conn, StartOpen(j)
      PROVE  store \subseteq store' /\ (j = k => Id(k) \in store')
  <2>1. Id(client[k]) = Id(k)
    BY DEF Named
  <2> QED BY <1>2, <2>1 DEF StartOpen
<1>3. ASSUME NEW j \in Conn, NEW w \in StopRole, StopRelease(j, w),
             Id(client[j]) = Id(k)
      PROVE  FALSE
  <2>1. pc[<<j, w>>] = "release"
    BY <1>3 DEF StopRelease, At
  <2>2. j = k
    BY <1>1, <1>3, <2>1, AloneUses DEF Role, StopRole
  <2> QED BY <1>1, <2>1, <2>2, AloneEnded
<1>4. CASE StartOpen(k)
  BY <1>2, <1>4
<1>5. CASE ~StartOpen(k)
  <2>1. Id(k) \in store
    BY <1>1, <1>5, StepMoves DEF Moves, StoreOpen
  <2>2. ASSUME NEW j \in Conn, NEW w \in StopRole, StopRelease(j, w)
        PROVE  Id(k) \in store'
    BY <1>3, <2>1, <2>2 DEF StopRelease
  <2>3. ASSUME NEW j \in Conn, InitNew(j) \/ RecvRequest(j) \/ Takes(j)
        PROVE  store' = store
    BY <2>3 DEF InitNew, RecvRequest, Takes, InitTakeover, InitResume,
       Resumes, registry
  <2>4. ASSUME NEW j \in Conn, NEW w \in StopRole,
               StopUnmap(j, w) \/ StopUnsubscribe(j, w)
        PROVE  store' = store
    BY <2>4 DEF StopUnmap, StopUnsubscribe
  <2> QED BY <1>2, <2>1, <2>2, <2>3, <2>4, EntriesKept
          DEF Writes, Enters, Leaves
<1> QED BY <1>4, <1>5

\* After StopUnmap a client that is alone has no entry, as only a CONNECT could
\* make one; after StopUnsubscribe it has no subscription, as only its Receive
\* could, which has returned.
LEMMA UnmappedNext ==
  /\ TypeOK /\ Order /\ Owned /\ SoleTeardown /\ Named /\ Unmapped
  /\ [Next]_vars
  => Unmapped'
<1> SUFFICES ASSUME TypeOK, Order, Owned, SoleTeardown, Named, Unmapped,
                    [Next]_vars
             PROVE  Unmapped'
  OBVIOUS
<1>a. \A j : Id(j)' = Id(j)
  BY ConnectKept DEF Id
<1> SUFFICES ASSUME NEW k \in Conn, Alone(k)', NEW w \in StopRole,
                    pc'[<<k, w>>] \in {"unsubscribe", "release"}
             PROVE  /\ clients'[Id(k)] = Nil
                    /\ pc'[<<k, w>>] = "release" => Id(k) \notin subs'
  BY <1>a DEF Unmapped
<1>1. Alone(k) /\ Sole(k)
  BY AloneLasts, AloneSole
<1>2. clients \in [ClientId -> Conn \cup {Nil}] /\ Id(k) \in ClientId
  BY DEF TypeOK, Id
<1>3. clients'[Id(k)] = Nil
  <2>1. CASE StopUnmap(k, w)
    BY <1>2, <2>1 DEF StopUnmap, Named
  <2>2. CASE ~StopUnmap(k, w)
    <3>1. pc[<<k, w>>] \in {"unsubscribe", "release"}
      BY <2>2, StepMoves DEF Moves
    <3>2. clients[Id(k)] = Nil
      BY <1>1, <3>1 DEF Unmapped
    <3>3. Admitted(k)
      BY <1>1, <3>1, AloneEnded
    <3> QED BY <1>2, <3>2, <3>3, EntryMade, NoNewcomer
  <2> QED BY <2>1, <2>2
<1>4. ASSUME pc'[<<k, w>>] = "release" PROVE Id(k) \notin subs'
  <2>1. CASE StopUnsubscribe(k, w)
    BY <2>1 DEF StopUnsubscribe, Named
  <2>2. CASE ~StopUnsubscribe(k, w)
    <3>1. pc[<<k, w>>] = "release"
      BY <1>4, <2>2, StepMoves DEF Moves
    <3>2. Id(k) \notin subs
      BY <1>1, <3>1 DEF Unmapped
    <3>3. pc[<<k, "recv">>] = "done"
      BY <1>1, <3>1, AloneEnded
    <3>4. ASSUME NEW j \in Conn, RecvRequest(j), Id(client[j]) = Id(k)
          PROVE  FALSE
      <4>1. pc[<<j, "recv">>] = "read"
        BY <3>4 DEF RecvRequest, Arrives, At
      <4> QED BY <1>1, <3>3, <3>4, <4>1, AloneUses DEF Role
    <3> QED BY <1>2, <3>2, <3>4, SubMade
  <2> QED BY <2>1, <2>2
<1> QED BY <1>3, <1>4

\* CleanLeavesNothing is kept: the end of a clean Stop removes what there is,
\* and nobody who is left can make it again.
LEMMA LeavesNothingNext ==
  /\ TypeOK /\ Order /\ Owned /\ SoleTeardown /\ Named /\ FlagKept /\ Unmapped
  /\ CleanLeavesNothing /\ [Next]_vars
  => CleanLeavesNothing'
<1> SUFFICES ASSUME TypeOK, Order, Owned, SoleTeardown, Named, FlagKept,
                    Unmapped, CleanLeavesNothing, [Next]_vars
             PROVE  CleanLeavesNothing'
  OBVIOUS
<1>a. cp' = cp /\ \A j : Id(j)' = Id(j)
  BY ConnectKept DEF Id
<1> SUFFICES ASSUME NEW k \in Conn, cp[k].clean, once'[k] = "done", Alone(k)'
             PROVE  clients'[Id(k)] = Nil /\ Id(k) \notin store' \cup subs'
  BY <1>a DEF CleanLeavesNothing, Alone, Admitted
<1>1. Alone(k) /\ Sole(k)
  BY AloneLasts, AloneSole
<1>2. Id(k) \in ClientId
  BY DEF TypeOK, Id
<1>3. CASE once[k] = "done"
  <2>1. clients[Id(k)] = Nil /\ Id(k) \notin store \cup subs
    BY <1>1, <1>3 DEF CleanLeavesNothing, Alone, Admitted
  <2>2. /\ pc[<<k, "recv">>] = "done" /\ Admitted(k)
        /\ pc[<<k, "start">>] # "open"
    BY <1>1, <1>3, AloneEnded
  <2>3. clients'[Id(k)] = Nil
    BY <1>2, <2>1, <2>2, EntryMade, NoNewcomer
  <2>4. ASSUME NEW j \in Conn, StartOpen(j), Id(client[j]) = Id(k) PROVE FALSE
    <3>1. pc[<<j, "start">>] = "open"
      BY <2>4 DEF StartOpen, At
    <3> QED BY <1>1, <2>2, <2>4, <3>1, AloneUses DEF Role
  <2>5. ASSUME NEW j \in Conn, RecvRequest(j), Id(client[j]) = Id(k)
        PROVE  FALSE
    <3>1. pc[<<j, "recv">>] = "read"
      BY <2>5 DEF RecvRequest, Arrives, At
    <3> QED BY <1>1, <2>2, <2>5, <3>1, AloneUses DEF Role
  <2> QED BY <1>2, <2>1, <2>3, <2>4, <2>5, StoreMade, SubMade
<1>4. CASE once[k] # "done"
  <2>1. /\ \A j \in Conn : cur[client[j]] = k => j = k
        /\ \A j \in Conn, r \in Role : on[<<j, r>>] = k => j = k
        /\ ~Holds(k) /\ client[k] = k
    BY <1>1, SoleOwns DEF Sole
  <2>2. ASSUME NEW j \in Conn, TakeoverDrain(j), k = cur[client[j]]
        PROVE  FALSE
    <3>1. Holds(j)
      BY <2>2 DEF TakeoverDrain, At, Holds
    <3> QED BY <2>1, <2>2, <3>1
  <2>3. ASSUME NEW j \in Conn, NEW w \in StopRole, k = on[<<j, w>>],
               StopChannels(j, w), ~clean[client[j]]
        PROVE  FALSE
    <3>1. j = k
      BY <2>1, <2>3 DEF Role, StopRole
    <3>2. pc[<<k, w>>] = "channels"
      BY <2>3, <3>1 DEF StopChannels, At
    <3>3. Opened(k)
      BY <1>1, <3>2, AloneEnded
    <3> QED BY <1>1, <2>1, <2>3, <3>1, <3>3 DEF FlagKept
  <2>4. ASSUME NEW j \in Conn, NEW w \in StopRole, k = on[<<j, w>>],
               StopRelease(j, w)
        PROVE  clients'[Id(k)] = Nil /\ Id(k) \notin store' \cup subs'
    <3>1. j = k
      BY <2>1, <2>4 DEF Role, StopRole
    <3>2. pc[<<k, w>>] = "release"
      BY <2>4, <3>1 DEF StopRelease, At
    <3>3. clients[Id(k)] = Nil /\ Id(k) \notin subs
      BY <1>1, <3>2 DEF Unmapped
    <3> QED BY <2>1, <2>4, <3>1, <3>3 DEF StopRelease
  <2> QED BY <1>4, <2>2, <2>3, <2>4, OnceDone
<1> QED BY <1>3, <1>4

\* StoreLostToSibling is kept: a packet that finds no store is of a client that
\* was not alone.
LEMMA SiblingNext ==
  /\ TypeOK /\ Order /\ Owned /\ Named /\ StoreOpen /\ StoreLostToSibling
  /\ [Next]_vars
  => StoreLostToSibling'
<1> SUFFICES ASSUME TypeOK, Order, Owned, Named, StoreOpen, StoreLostToSibling,
                    [Next]_vars, panic' = "nilStore"
             PROVE  \E k \in Conn \ {victim'} :
                      Id(k)' = Id(victim)' /\ Admitted(k)'
  BY DEF StoreLostToSibling, Admitted
<1>1. cp' = cp
  BY ConnectKept
<1>2. CASE UNCHANGED fault
  <2>1. PICK k \in Conn \ {victim} : Id(k) = Id(victim) /\ Admitted(k)
    BY <1>2 DEF fault, StoreLostToSibling, Admitted
  <2>2. Admitted(k)'
    BY <2>1, StepMoves DEF Moves
  <2> QED BY <1>1, <1>2, <2>1, <2>2 DEF fault, Id
<1>3. ASSUME NEW k \in Conn, RecvFlow(k), ~UNCHANGED fault
      PROVE  ~Alone(client[k]) /\ victim' = client[k] /\ pc' = pc
  <2>1. /\ Id(client[k]) \notin store
        /\ victim' = client[k] /\ pc' = pc
        /\ pc[<<k, "recv">>] = "read"
    BY <1>3 DEF RecvFlow, Arrives, At, Crash, fault
  <2>2. ASSUME Alone(client[k]) PROVE FALSE
    <3>1. client[k] \in Conn
      BY DEF TypeOK
    <3>2. client[k] = k
      BY <2>2, <3>1, AloneSole DEF Sole
    <3>3. Opened(k)
      BY <2>1 DEF Order, Opened
    <3> QED BY <2>1, <2>2, <3>2, <3>3 DEF StoreOpen
  <2> QED BY <2>1, <2>2
<1>a. ASSUME NEW k \in Conn, StartReplay(k), ~UNCHANGED fault
      PROVE  ~Alone(client[k]) /\ victim' = client[k] /\ pc' = pc
  <2>1. /\ Id(client[k]) \notin store
        /\ victim' = client[k] /\ pc' = pc
        /\ pc[<<k, "start">>] = "replay"
    BY <1>a DEF StartReplay, At, Crash, fault
  <2>2. ASSUME Alone(client[k]) PROVE FALSE
    <3>1. client[k] \in Conn
      BY DEF TypeOK
    <3>2. client[k] = k
      BY <2>2, <3>1, AloneSole DEF Sole
    <3>3. Opened(k) /\ pc[<<k, "recv">>] # "done"
      BY <2>1 DEF Order, Opened
    <3> QED BY <2>1, <2>2, <3>2, <3>3 DEF StoreOpen
  <2> QED BY <2>1, <2>2
<1>4. ASSUME NEW k \in Conn,
             \/ BadConnect(k) \/ TakeoverOnce(k) \/ StartBlocked(k)
             \/ StartConnack(k) \/ RecvReply(k)
             \/ \E w \in StopRole :
                  StopEntry(k, w) \/ StopClose(k, w) \/ StopChannels(k, w)
             \/ \E o \in Conn : WaitReused(k, o)
      PROVE  UNCHANGED fault
  BY <1>4 DEF BadConnect, TakeoverOnce, StartBlocked, StartConnack, RecvReply,
     StopEntry, StopClose, StopChannels, WaitReused, Crash, fault
<1>5. CASE \E k \in Conn : (RecvFlow(k) \/ StartReplay(k)) /\ ~UNCHANGED fault
  <2>1. PICK k \in Conn : (RecvFlow(k) \/ StartReplay(k)) /\ ~UNCHANGED fault
    BY <1>5
  <2>2. ~Alone(client[k]) /\ victim' = client[k] /\ pc' = pc
    BY <1>3, <1>a, <2>1
  <2> QED BY <1>1, <2>2 DEF Alone, Admitted, Id
<1> QED BY <1>2, <1>4, <1>5, FaultKept DEF Crashing

-----------------------------------------------------------------------------
\* Initially there are no entries.
LEMMA EntriesInit == Init => Entries
<1> SUFFICES ASSUME Init PROVE Entries
  OBVIOUS
<1>1. \A k \in Conn, r \in Role : pc[<<k, r>>] = "none"
  BY DEF Init, Goroutine
<1>2. Named
  BY DEF Init, Named
<1>3. FlagKept /\ StoreOpen
  BY <1>1 DEF FlagKept, StoreOpen, Opened, Role
<1>4. Unmapped
  BY <1>1 DEF Unmapped, Role, StopRole
<1>5. CleanLeavesNothing /\ StoreLostToSibling
  BY DEF Init, CleanLeavesNothing, StoreLostToSibling
<1> QED BY <1>2, <1>3, <1>4, <1>5 DEF Entries

\* Entries is inductive relative to IInv.
LEMMA EntriesNext == IInv /\ Entries /\ [Next]_vars => Entries'
BY NamedNext, FlagNext, StoreNext, UnmappedNext, LeavesNothingNext, SiblingNext
DEF IInv, Entries

\* What the broker keeps under an identifier is as Entries says, always.
THEOREM EntriesHold == Spec => []Entries
BY EntriesInit, EntriesNext, Invariance, PTL DEF Spec

\* client.go:115-126: a clean session whose teardown is over has left nothing
\* in the client list, the subscriptions or the store, if its identifier was
\* its own.
THEOREM NothingLeft == Spec => []CleanLeavesNothing
<1>1. Entries => CleanLeavesNothing
  BY DEF Entries
<1> QED BY <1>1, EntriesHold, PTL

\* client.go:115-126: a packet, or a replay, finds its client's store gone only
\* if a sibling of the same identifier was let in.
THEOREM StoreIsOwn == Spec => []StoreLostToSibling
<1>1. Entries => StoreLostToSibling
  BY DEF Entries
<1> QED BY <1>1, EntriesHold, PTL
==============================================================================
