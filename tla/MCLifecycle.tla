---------------------------- MODULE MCLifecycle ----------------------------
(***************************************************************************)
(* Small instances of Lifecycle for TLC.                                   *)
(***************************************************************************)
EXTENDS LifecycleInv, TLC

\* Connections are interchangeable: Init and Next treat them alike.
Symmetry == Permutations(Conn)

\* What a peer can do once connected.
AfterConnect == {"connect", "error", "disconnect", "flow", "request", "expire"}
=============================================================================
