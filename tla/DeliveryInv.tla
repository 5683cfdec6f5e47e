----------------------------- MODULE DeliveryInv -----------------------------
(***************************************************************************)
(* The inductive invariant of Delivery.                                    *)
(***************************************************************************)
EXTENDS Delivery

\* What is known of the session from where Start or Stop is.
Phases ==
  /\ phase \in {"open", "replay", "up"} => known /\ (closed => object \in stale)
  /\ phase = "close" => known
  /\ phase = "release" => ~subscribed
  /\ subscribed /\ phase \notin Stopping => known /\ stored
  /\ phase \in {"open", "replay"} => wrote = {}
  /\ phase = "open" /\ ~clean => messages = <<>>
  /\ phase \in {"open", "replay"} /\ ~clean => ~takeOver /\ object \notin stale

\* An object that was not stopped before its Start was over is CONNECTED, or
\* about to be, only as long as it is served or being taken over.
Connecting ==
  \A o \in connected \cup {start.object : start \in starting} :
    o \in stale \/ (o = object /\ (phase = "up" \/ takeOver))

\* A delivery that no Stop ran beside finds the client it looks for, and the
\* channels it sees open stay so.
InFlight(m) == at[m] \notin {"idle", "done"}
Beside ==
  \A m \in Message : m \notin overlap =>
    /\ InFlight(m) => phase \notin Stopping /\ known /\ stored
    /\ at[m] = "found" => to[m] # Nil
    /\ at[m] \in {"add", "queue"} /\ live[m] =>
         to[m] \in stale \/ (Current(m) /\ object \in connected)

\* A message is nowhere before its delivery stores or queues it.
Waits(m) == \E i \in 1 .. Len(messages) : messages[i] = m
NotYet ==
  \A m \in Message :
    /\ at[m] \in {"idle", "listed", "found", "add"} =>
         m \notin outbound /\ m \notin wrote /\ ~Waits(m)
    /\ at[m] = "queue" => live[m]
    /\ at[m] \in {"add", "queue"} /\ Current(m) /\ ~clean
         /\ phase \in {"open", "replay"} => ~live[m]
    /\ at[m] = "queue" /\ Current(m) =>
         m \notin wrote \cup replay /\ ~Waits(m)

\* Only messages of QoS 1 and 2 are stored and answered.
Stored ==
  /\ \A m \in Message : at[m] = "add" \/ m \in outbound => Qos[m] > 0
  /\ \A x \in due : x.of # Nil => Qos[x.of] > 0

\* It is then in one place of those that lead to the client.
Distinct == \A i, j \in 1 .. Len(messages) : messages[i] = messages[j] => i = j
OnePlace ==
  /\ Distinct
  /\ \A m \in Message : Waits(m) => m \notin wrote \cup replay

\* It stays in the store.
Kept ==
  \A m \in promised : at[m] \in {"queue", "done"} /\ Qos[m] > 0 => m \in outbound

\* Each message sent has one exchange at most.
OneExchange ==
  /\ \A x \in due : x.of # Nil => x.of \in wrote
  /\ \A x, y \in due : x.of = y.of /\ x.of # Nil => x = y

Inv == /\ TypeOK /\ Phases /\ Connecting /\ Beside /\ PanicNeedsStop /\ NotYet
       /\ Stored /\ OnePlace /\ Kept /\ OneExchange /\ IdHeld
=============================================================================
