-------------------------- MODULE LifecycleClaims --------------------------
(***************************************************************************)
(* What the comments of server.go and client.go say of the life cycle, and *)
(* what the code does not do.  Every definition here is refuted by a run.  *)
(***************************************************************************)
EXTENDS Lifecycle

\* client.go:268: "client wishes to disconnect so Stop (don't send will) and
\* return."  A client that sends DISCONNECT is stopped.  takeOver is never
\* reset, so Stop leaves a session that took over its object running.
DisconnectStops ==
  \A k \in Conn :
    k \in bye /\ client[k] # k /\ takeOver[client[k]]
      ~> on[<<k, "recv">>] \in stopped \/ ~Up

\* client.go:95-97: "later calls with the same sync.Once will simply return."
\* So should StopForTakeover when a Stop got there first.  It keeps
\* clients.Lock while it waits for that Stop, which needs the lock to end.
TakeoverReturns ==
  \A k \in Conn :
    pc[<<k, "init">>] = "takeover" ~> pc[<<k, "init">>] # "takeover" \/ ~Up
=============================================================================
