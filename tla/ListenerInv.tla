----------------------------- MODULE ListenerInv -----------------------------
(***************************************************************************)
(* The inductive invariant of Listener.                                    *)
(***************************************************************************)
EXTENDS Listener

Recording == {k \in Conn : at[k] \in {"read", "write"}}

\* What has a listener has one that was added, and keeps it.
Known ==
  /\ \A l \in Listener : ~Added(l) => loop[l] = "none"
  /\ \A n \in Name : listeners[n] # Nil => Added(listeners[n])
  /\ \A p \in Path :
       handler[p] # Nil => Added(handler[p]) /\ scheme[handler[p]] = "ws"
  /\ \A k \in Conn : by[k] # Nil => Added(by[k])
  /\ \A k \in Conn :
       at[k] # "gone" => (by[k] = Nil <=> at[k] \in {"new", "request"})
  /\ \A k \in overlapped : by[k] # Nil
  /\ caller \in {"range", "close"} => target # Nil /\ Added(target)

\* A tcp loop records one connection at a time, and waits for it.
OneAtATime ==
  \A k \in Recording : scheme[by[k]] = "tcp" =>
    /\ loop[by[k]] = "append"
    /\ \A j \in Recording : by[j] = by[k] => j = k

OnlyWs == \A k \in overlapped : scheme[by[k]] = "ws"

\* A record that was made alone stays in the slice and in every slice that an
\* append may write back.
Settled(k) == Recorded(k) /\ k \notin overlapped
Lasting ==
  /\ \A k \in Conn : Settled(k) => k \in connections[by[k]]
  /\ \A j, k \in Conn :
       at[j] = "write" /\ Settled(k) /\ by[k] = by[j] => k \in seen[j]
  /\ \A j, k \in Conn :
       at[j] = "write" /\ at[k] = "write" /\ by[k] = by[j] /\ j # k =>
         k \in overlapped

\* The clients that StopListener found are disconnected when it returns.
Owing ==
  /\ \A k \in owed : Recorded(k)
  /\ Up /\ caller = "range" => \A k \in owed : by[k] = target
  /\ Up /\ caller = "close" =>
       owed \cap alive \subseteq overlapped \cup toClose
  /\ Up /\ caller \notin {"range", "close"} =>
       owed \cap alive \subseteq overlapped

Inv == /\ TypeOK /\ Known /\ WaitGroupCounts /\ NoneAfterStop /\ OneAtATime
       /\ OnlyWs /\ Lasting /\ Owing
=============================================================================
