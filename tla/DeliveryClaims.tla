--------------------------- MODULE DeliveryClaims ---------------------------
(***************************************************************************)
(* What the source says of a delivery and the code does not do.            *)
(***************************************************************************)
EXTENDS MCDelivery

\* "if it is remove the original PUBLISH from the outbound persistence store"
\* (client.go:301-302): a message of QoS 1 the client has acknowledged is not
\* in the store any more.
AckedIsRemoved ==
  \A m \in acked : Qos[m] = 1 => m \notin outbound

\* "we have an existing inbound and outbound persistence store for this client
\* already, so lets get any messages still in outbound and attempt to send
\* them." (client.go:154-155): a client that connects gets to be served.
ReconnectServed == phase = "replay" ~> phase = "up" \/ ~Up
=============================================================================
