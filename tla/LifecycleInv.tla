---------------------------- MODULE LifecycleInv ----------------------------
(***************************************************************************)
(* The inductive invariant behind the safety properties of Lifecycle.      *)
(***************************************************************************)
EXTENDS Lifecycle

\* The goroutines of a connection begin and end in the order of the code.
Order ==
  \A k \in Conn :
    /\ pc[<<k, "init">>] \in {"none", "lock"} => client[k] = k
    /\ pc[<<k, "init">>] \in {"none", "lock"} \/ Holds(k) =>
         pc[<<k, "start">>] = "none"
    /\ pc[<<k, "recv">>] = "none" <=>
         pc[<<k, "start">>] \in {"none", "open", "replay", "blocked", "connack",
                                   "spawn"}
    /\ pc[<<k, "recv">>] # "none" =>
         pc[<<k, "start">>] \in {"state", "timer", "done"}
    /\ pc[<<k, "recv">>] = "none" <=> pc[<<k, "send">>] = "none"
    /\ pc[<<k, "timer">>] # "none" => pc[<<k, "start">>] = "done"
    /\ pc[<<k, "recvStop">>] # "none" => pc[<<k, "recv">>] = "done"
    /\ pc[<<k, "timerStop">>] # "none" => pc[<<k, "timer">>] = "done"

\* o is an object that InitClient created.
Created(o) == client[o] = o /\ pc[<<o, "init">>] \in {"serve", "wait", "done"}

\* Connections refer to objects that exist, and an object's fields, and what
\* its goroutines read from them, to sessions of that object.
Owned ==
  /\ \A id \in ClientId : clients[id] # Nil => Created(clients[id])
  /\ \A k \in Conn : client[k] # k => Created(client[k])
  /\ \A k \in Conn : Holds(k) => client[k] # k
  /\ \A o \in Conn : client[o] = o => /\ client[cur[o]] = o
                                      /\ client[chan[o]] = o
  /\ \A g \in Goroutine : client[on[g]] = client[g[1]]

\* clients.Lock is a lock.
OneHolder == \A j, k \in Conn : Holds(j) /\ Holds(k) => j = k

ChannelsClosed(g) == pc[g] \in {"unmap", "unsubscribe", "release"}
InBody(g) == pc[g] \in {"close", "drain", "channels"} \/ ChannelsClosed(g)

\* A sync.Once whose body runs is running, and runs one body only.
OneBody ==
  /\ \A g \in Stopper : InBody(g) => once[on[g]] = "running"
  /\ \A g, h \in Stopper : InBody(g) /\ InBody(h) /\ on[g] = on[h] => g = h
  /\ \A k \in Conn : pc[<<k, "init">>] = "drain" =>
       /\ once[cur[client[k]]] = "running"
       /\ \A g \in Stopper : InBody(g) => on[g] # cur[client[k]]

\* The will of a session goes out in the body of its Once.
WillInBody ==
  \A s \in Conn :
    /\ wills[s] <= 1
    /\ wills[s] > 0 => \/ once[s] = "done"
                       \/ \E g \in Stopper : on[g] = s /\ ChannelsClosed(g)

\* Where the teardown of session o stands, from what it has left behind.
TornDown(o) ==
  /\ o \in stopped =>
       \/ once[o] = "done"
       \/ \E w \in StopRole : InBody(<<o, w>>) /\ pc[<<o, w>>] # "close"
  /\ o \in chanClosed =>
       once[o] = "done" \/ \E w \in StopRole : ChannelsClosed(<<o, w>>)
  /\ \/ once[o] = "done"
     \/ \E w \in StopRole :
          ChannelsClosed(<<o, w>>) \/ pc[<<o, w>>] = "channels"
     => pc[<<o, "recv">>] = "done" /\ pc[<<o, "send">>] = "done"

\* The teardown of an object nobody took over.
SoleTeardown == \A o \in Conn : Sole(o) => TornDown(o)

\* A client nobody took over is CONNECTED from the end of its Start to its Stop.
SoleConnected ==
  \A o \in Conn :
    /\ Sole(o) /\ pc[<<o, "start">>] \in {"timer", "done"}
    /\ once[o] # "done"
    /\ \A w \in StopRole : ~ChannelsClosed(<<o, w>>) /\ pc[<<o, w>>] # "channels"
    => state[o] = "CONNECTED"

\* What the proofs of SoleNeverPanics, ClosedAfterDrain and WillAtMostOnce rest
\* on: an inductive invariant of Lifecycle.
IInv == /\ TypeOK /\ Order /\ Owned /\ OneHolder /\ WaitGroupCounts
        /\ OneBody /\ WillInBody /\ SoleTeardown /\ SoleNeverPanics
        /\ SoleConnected /\ ReuseNeedsLateStart

-----------------------------------------------------------------------------
\* InitClient has let connection k in, or refused it.
Admitted(k) == pc[<<k, "init">>] \notin {"none", "lock"}

\* No other connection has used k's identifier.
Alone(k) == \A j \in Conn \ {k} : Id(j) = Id(k) => ~Admitted(j)

\* clients.list maps an identifier to an object that was made for it, so a
\* connection gets an object of its own identifier.
Named == /\ \A id \in ClientId : clients[id] # Nil => Id(clients[id]) = id
         /\ \A k \in Conn : Id(client[k]) = Id(k)

Opened(k) == pc[<<k, "start">>] \notin {"none", "open"}

\* An object has the flag of the only session it ever had.
FlagKept == \A k \in Conn : Sole(k) /\ Opened(k) => clean[k] = cp[k].clean

\* The store of a client that is alone is there until its Receive has ended.
StoreOpen == \A k \in Conn :
  Alone(k) /\ Opened(k) /\ pc[<<k, "recv">>] # "done" => Id(k) \in store

\* Between the two halves of a clean teardown the identifier is free.
Unmapped == \A k \in Conn :
  Alone(k) /\ (\E w \in StopRole : pc[<<k, w>>] \in {"unsubscribe", "release"})
  => /\ clients[Id(k)] = Nil
     /\ (\E w \in StopRole : pc[<<k, w>>] = "release") => Id(k) \notin subs

\* What the broker keeps under an identifier, as CleanLeavesNothing and
\* StoreLostToSibling need it: inductive together with IInv.
Entries == /\ Named /\ FlagKept /\ StoreOpen /\ Unmapped
           /\ CleanLeavesNothing /\ StoreLostToSibling
=============================================================================
