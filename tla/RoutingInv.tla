----------------------------- MODULE RoutingInv -----------------------------
(***************************************************************************)
(* The inductive invariant of Routing: what its properties rest on.        *)
(***************************************************************************)
EXTENDS Routing

\* Calls of AddSub are counted, and goroutines come from calls (router.go:125).
Called == calls \in 0 .. MaxCall /\ \A f \in finds : f.call < calls

\* The list of a delivery is made by it, of QoS values no higher than the
\* message's (router.go:151, 192-200).
Listed ==
  \A p \in Publication : /\ pc[p] # "collect" => list[p] = Nobody
                         /\ \A c \in Client : list[p][c] # None =>
                              list[p][c] <= pub[p].qos

\* A delivery's history is of QoS values and ends with the present one.
Witnessed ==
  /\ span \in [Publication -> [Filter \X Client -> SUBSET (0 .. None)]]
  /\ \A p \in Publication : pc[p] = "collect" =>
       \A sc \in Filter \X Client : granted[sc] \in span[p][sc]

\* What is retained on a topic was published on it (client.go:282-286).
Published ==
  \A t \in Topic : retained[t] # Nil =>
    pub[retained[t]].topic = t /\ pc[retained[t]] # "idle"

\* What a delivery still has to read are subscriptions to its topic, but for
\* those with an end mark in them (router.go:146-186).
Searched ==
  \A p \in Publication : \A sub \in todo[p] :
    NoNUL(sub) => Match(sub, pub[p].topic)

\* A subscription that was there all the time is still to be read, or its
\* client is in the list, with no lower QoS than it should have.
Reading ==
  \A p \in Publication, c \in Client, sub \in Filter :
    LET seen == span[p][<<sub, c>>] IN
      pc[p] = "collect" /\ Reaches(sub, pub[p].topic) /\ None \notin seen
      => \/ sub \in todo[p]
         \/ /\ list[p][c] # None
            /\ \E qos \in seen : list[p][c] >= calcMinQos(qos, pub[p].qos)

\* Who subscribes to a topic with a retained message has it or will be given
\* it: by the delivery of that message, which has not searched yet, has the
\* subscription to read or the client in its list, or by a FindRetained.
Owed ==
  \A c \in Client, sub \in added, t \in Topic :
    LET p == retained[t] IN
      granted[<<sub, c>>] # None /\ p # Nil /\ Reaches(sub, t)
      => \/ \E qos \in Qos : <<p, qos>> \in got[c]
         \/ \E f \in finds : f.client = c /\ f.sub = sub
         \/ pc[p] = "match"
         \/ pc[p] = "collect" /\ (sub \in todo[p] \/ list[p][c] # None)

Inv ==
  /\ TypeOK /\ Called /\ Listed /\ Witnessed /\ Published
  /\ Searched /\ ServedWasSubscribed
  /\ OverrunNeedsEndMark /\ Reading /\ Owed
=============================================================================
