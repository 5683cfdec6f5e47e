---------------------------- MODULE AtLeastOnce ----------------------------
(***************************************************************************)
(* What the broker promises of the messages of QoS 1 and 2 to one client.  *)
(* A message is kept before it is sent, and sent after that only if it is  *)
(* kept still or was kept until a clean session made the broker forget it; *)
(* nothing that is kept is given up while a session is open; in each       *)
(* session a message is sent once at most, and acknowledged only after it  *)
(* was sent there.                                                         *)
(***************************************************************************)

CONSTANT Message

VARIABLES
  kept,       \* the messages in store
  forgotten,  \* those that were, until a clean session began or ended
  sending,    \* those sent in this session
  done,       \* those acknowledged
  open        \* the session is served

vars == <<kept, forgotten, sending, done, open>>

Init == kept = {} /\ forgotten = {} /\ sending = {} /\ done = {} /\ open = FALSE

\* Each message is kept once.
Keep(m) ==
  /\ m \notin kept \cup forgotten
  /\ kept' = kept \cup {m}
  /\ UNCHANGED <<forgotten, sending, done, open>>

Transmit(m) ==
  /\ open /\ m \in (kept \cup forgotten) \ sending
  /\ sending' = sending \cup {m}
  /\ UNCHANGED <<kept, forgotten, done, open>>

Acknowledge(m) ==
  /\ open /\ m \in (kept \cup forgotten) \cap sending
  /\ done' = done \cup {m}
  /\ UNCHANGED <<kept, forgotten, sending, open>>

\* A session starts afresh, perhaps in place of one that is open.
NewSession ==
  sending' = {} /\ open' = FALSE /\ UNCHANGED <<kept, forgotten, done>>

Open == ~open /\ open' = TRUE /\ UNCHANGED <<kept, forgotten, sending, done>>
Close == open /\ open' = FALSE /\ UNCHANGED <<kept, forgotten, sending, done>>

\* A clean session begins or ends.
Forget ==
  /\ ~open /\ kept' = {} /\ forgotten' = forgotten \cup kept
  /\ UNCHANGED <<sending, done, open>>

Next ==
  \/ \E m \in Message : Keep(m) \/ Transmit(m) \/ Acknowledge(m)
  \/ NewSession \/ Open \/ Close \/ Forget

Spec == Init /\ [][Next]_vars
=============================================================================
