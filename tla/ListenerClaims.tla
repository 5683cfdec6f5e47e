--------------------------- MODULE ListenerClaims ---------------------------
(***************************************************************************)
(* What the repository says of a listener and the code does not do.        *)
(***************************************************************************)
EXTENDS Listener

\* "Calling StopListener() will disconnect all clients currently connected to
\* that listener." (README.md:10): a client that was recorded and served when
\* StopListener was called is disconnected when it returns.
ClientsDisconnected ==
  Up /\ caller \notin {"range", "close"} => owed \cap alive = {}
=============================================================================
