------------------------------- MODULE Routing -------------------------------
(***************************************************************************)
(* The subscription map and the retained messages (router.go) under        *)
(* concurrent SUBSCRIBEs, UNSUBSCRIBEs, teardowns and PUBLISHes.           *)
(*                                                                         *)
(* A publication is a PUBLISH in Receive (SetRetained) and then the        *)
(* goroutine that runs DeliverMessage for it; a call of AddSub leaves a    *)
(* goroutine that runs FindRetained.  What happens to a message once it is *)
(* handed to its client is not modelled here.                              *)
(***************************************************************************)
EXTENDS TopicMatch, FiniteSets

CONSTANTS
  Client,       \* the clients that subscribe
  Filter,       \* the subscriptions they ask for
  Asked,        \* and the QoS values they ask with
  Publish,      \* the PUBLISHes: records of topic, qos, retain and empty
  Publication,  \* as many PUBLISHes arrive
  Nil,          \* no retained message
  MaxCall       \* bound: the calls of AddSub

ASSUME AskedAssumption == Asked \subseteq 0 .. 2
ASSUME FilterAssumption == Filter \subseteq Seq(STRING) \ {<<>>}
ASSUME PublishAssumption ==
  \A m \in Publish : /\ m.topic \in Seq(STRING) \ {<<>>} /\ m.qos \in 0 .. 2
                     /\ {m.retain, m.empty} \subseteq BOOLEAN
ASSUME CallAssumption == MaxCall \in Nat

VARIABLES
  added,     \* the subscriptions ever added: keys of subElements and bitmap
  granted,   \* subMap: the QoS of each client's subscription, or None
  retained,  \* the retained map: the publication kept for each topic
  finds,     \* the FindRetained goroutines that have not run yet
  calls,     \* the number of calls of AddSub, to tell those apart
  pub,       \* the PUBLISH of each publication
  pc,        \* where each publication is
  todo,      \* the matched subscriptions DeliverMessage has not read yet
  list,      \* deliverList: the QoS for each client, or None
  got,       \* what was handed to each client, and with which QoS
  span,      \* the values of granted since a publication was matched
  panic      \* what brought the process down, if anything

submap == <<added, granted, finds, calls>>
publication == <<pub, todo, list>>
vars == <<submap, retained, publication, pc, got, span, panic>>

-----------------------------------------------------------------------------
None == 3   \* no entry: not one of the three QoS values
Qos == 0 .. 2
Topic == {m.topic : m \in Publish}
Up == panic = "none"

calcMinQos(a, b) == IF a < b THEN a ELSE b
calcMaxQos(a, b) == IF a > b THEN a ELSE b

Nobody == [c \in Client |-> None]
Unobserved == [sc \in Filter \X Client |-> {}]

Init ==
  /\ added = {}
  /\ granted = [sc \in Filter \X Client |-> None]
  /\ retained = [t \in Topic |-> Nil]
  /\ finds = {} /\ calls = 0
  /\ pub \in [Publication -> Publish]
  /\ pc = [p \in Publication |-> "idle"]
  /\ todo = [p \in Publication |-> {}]
  /\ list = [p \in Publication |-> Nobody]
  /\ got = [c \in Client |-> {}]
  /\ span = [p \in Publication |-> Unobserved]
  /\ panic = "none"

\* History: every delivery under way sees the new subscription map.
Observe(new) ==
  span' = [p \in Publication |->
             IF pc[p] = "collect"
               THEN [sc \in Filter \X Client |-> span[p][sc] \cup {new[sc]}]
               ELSE span[p]]

-----------------------------------------------------------------------------
(* SUBSCRIBE, UNSUBSCRIBE and the end of a clean session.                  *)

\* Mutant of Fits: a subscription of as many elements as levels is let in.
MutFits(sub) == Len(sub) <= Levels

\* Its elements and the end mark have a level each.
Fits(sub) == Len(sub) < Levels

\* AddSub, all of it under the lock; FindRetained runs later.  The loop over
\* the bitmap's levels panics for a subscription that does not fit.
AddSub(c, sub, qos) ==
  /\ Up /\ calls < MaxCall
  /\ IF Fits(sub)
       THEN /\ added' = added \cup {sub}
            /\ granted' = [granted EXCEPT ![<<sub, c>>] = qos]
            /\ calls' = calls + 1
            /\ finds' = finds \cup
                 {[call |-> calls, client |-> c, sub |-> sub, qos |-> qos]}
            /\ Observe(granted')
            /\ panic' = panic
       ELSE /\ panic' = "index"
            /\ UNCHANGED <<submap, span>>
  /\ UNCHANGED <<retained, publication, pc, got>>

\* DeleteSub.  Only the subscription map forgets: the bitmap keeps its bits.
DeleteSub(c, sub) ==
  /\ Up /\ granted[<<sub, c>>] # None
  /\ granted' = [granted EXCEPT ![<<sub, c>>] = None]
  /\ Observe(granted')
  /\ UNCHANGED <<added, finds, calls, retained, publication, pc, got, panic>>

\* DeleteSubAll, when a clean session ends.
DeleteSubAll(c) ==
  /\ Up /\ \E sub \in Filter : granted[<<sub, c>>] # None
  /\ granted' = [sc \in Filter \X Client |->
                   IF sc[2] = c THEN None ELSE granted[sc]]
  /\ Observe(granted')
  /\ UNCHANGED <<added, finds, calls, retained, publication, pc, got, panic>>

HasWildcard(sub) == \E i \in 1 .. Len(sub) : sub[i] \in {"#", "+"}

\* Mutant of Retained: a subscription is only looked up as a topic.
MutRetained(sub) ==
  {retained[t] : t \in {u \in Topic : retained[u] # Nil /\ u = sub}}

\* The retained messages FindRetained picks for a subscription.
Retained(sub) ==
  {retained[t] : t \in {u \in Topic :
     /\ retained[u] # Nil
     /\ IF HasWildcard(sub) THEN Match(sub, u) ELSE u = sub}}

\* FindRetained, which takes no lock: it sees the map of any later moment.
FindRetained(find) ==
  /\ Up /\ find \in finds
  /\ finds' = finds \ {find}
  /\ got' = [got EXCEPT ![find.client] = @ \cup
               {<<p, calcMinQos(pub[p].qos, find.qos)>> :
                  p \in Retained(find.sub)}]
  /\ UNCHANGED <<added, granted, calls, retained, publication, pc, span, panic>>

-----------------------------------------------------------------------------
(* PUBLISH.                                                                *)

\* The retained map with publication p: an empty payload deletes.
SetRetained(p) ==
  [retained EXCEPT ![pub[p].topic] = IF pub[p].empty THEN Nil ELSE p]

\* Receive: SetRetained for a retained message, then "go DeliverMessage".
Receive(p) ==
  /\ Up /\ pc[p] = "idle"
  /\ retained' = IF pub[p].retain THEN SetRetained(p) ELSE retained
  /\ pc' = [pc EXCEPT ![p] = "match"]
  /\ UNCHANGED <<submap, publication, got, span, panic>>

\* DeliverMessage's search, under the read lock.
MatchTopic(p) ==
  /\ Up /\ pc[p] = "match"
  /\ IF Overruns(added, pub[p].topic)
       THEN /\ panic' = "overrun"
            /\ UNCHANGED <<pc, todo, span>>
       ELSE /\ todo' = [todo EXCEPT ![p] = Search(added, pub[p].topic)]
            /\ span' = [span EXCEPT ![p] =
                          [sc \in Filter \X Client |-> {granted[sc]}]]
            /\ pc' = [pc EXCEPT ![p] = "collect"]
            /\ panic' = panic
  /\ UNCHANGED <<submap, retained, pub, list, got>>

\* Mutants of Collected: the last subscription read decides the QoS, ...
MutCollected(p, sub) ==
  [c \in Client |-> IF granted[<<sub, c>>] = None
                      THEN list[p][c]
                      ELSE calcMinQos(granted[<<sub, c>>], pub[p].qos)]

\* ... and the QoS of the message does not bound a second subscription's.
MutCollectedMax(p, sub) ==
  [c \in Client |->
     LET qos == granted[<<sub, c>>] IN
     IF qos = None THEN list[p][c]
     ELSE IF list[p][c] # None THEN calcMaxQos(list[p][c], qos)
     ELSE calcMinQos(qos, pub[p].qos)]

\* deliverList with the clients of one more subscription.
Collected(p, sub) ==
  [c \in Client |->
     LET qos == granted[<<sub, c>>] IN
     IF qos = None THEN list[p][c]
     ELSE IF list[p][c] # None
            THEN calcMinQos(calcMaxQos(list[p][c], qos), pub[p].qos)
            ELSE calcMinQos(qos, pub[p].qos)]

\* The lock is released: each matched subscription is read when it is read.
\* Its clients are read together: what the loop makes of one client's entry
\* depends on no other's, and every property speaks of one client.
Collect(p, sub) ==
  /\ Up /\ pc[p] = "collect" /\ sub \in todo[p]
  /\ list' = [list EXCEPT ![p] = Collected(p, sub)]
  /\ todo' = [todo EXCEPT ![p] = @ \ {sub}]
  /\ UNCHANGED <<submap, retained, pub, pc, got, span, panic>>

\* The message goes to the clients of deliverList, and DeliverMessage ends.
Hand(p) ==
  /\ Up /\ pc[p] = "collect" /\ todo[p] = {}
  /\ got' = [c \in Client |-> IF list[p][c] = None THEN got[c]
                                ELSE got[c] \cup {<<p, list[p][c]>>}]
  /\ pc' = [pc EXCEPT ![p] = "done"]
  /\ list' = [list EXCEPT ![p] = Nobody]
  /\ span' = [span EXCEPT ![p] = Unobserved]
  /\ UNCHANGED <<submap, retained, pub, todo, panic>>

\* A map written while another goroutine uses it: Go's runtime may end the
\* process.  SetRetained writes under a read lock, FindRetained reads under
\* none, and DeliverMessage reads the subscription map under none.
MapRace ==
  /\ Up
  /\ \/ \E p \in Publication :
          /\ pc[p] = "idle" /\ pub[p].retain
          /\ \/ finds # {}
             \/ \E q \in Publication \ {p} : pc[q] = "idle" /\ pub[q].retain
     \/ /\ \E p \in Publication : todo[p] # {}
        /\ \/ calls < MaxCall
           \/ \E sc \in Filter \X Client : granted[sc] # None
  /\ panic' = "mapRace"
  /\ UNCHANGED <<submap, retained, publication, pc, got, span>>

-----------------------------------------------------------------------------
Next ==
  \/ \E c \in Client, sub \in Filter :
       \/ \E qos \in Asked : AddSub(c, sub, qos)
       \/ DeleteSub(c, sub)
  \/ \E c \in Client : DeleteSubAll(c)
  \/ \E find \in finds : FindRetained(find)
  \/ \E p \in Publication :
       \/ Receive(p) \/ MatchTopic(p) \/ Hand(p)
       \/ \E sub \in Filter : Collect(p, sub)
  \/ MapRace

Spec == Init /\ [][Next]_vars

-----------------------------------------------------------------------------
(* What the router promises.                                               *)

\* The shape of the state: every publication's list and history belong to
\* its phase, and no two goroutines are the same call (router.go:9-15).
TypeOK ==
  /\ added \subseteq {sub \in Filter : Len(sub) < Levels}
  /\ granted \in [Filter \X Client -> 0 .. None]
  /\ \A sc \in Filter \X Client : granted[sc] # None => sc[1] \in added
  /\ retained \in [Topic -> Publication \cup {Nil}]
  /\ finds \subseteq [call : 0 .. MaxCall - 1, client : Client, sub : added,
                      qos : Qos]
  /\ \A f, g \in finds : f.call = g.call => f = g
  /\ pub \in [Publication -> Publish]
  /\ pc \in [Publication -> {"idle", "match", "collect", "done"}]
  /\ todo \in [Publication -> SUBSET added]
  /\ \A p \in Publication : todo[p] # {} => pc[p] = "collect"
  /\ list \in [Publication -> [Client -> 0 .. None]]
  /\ got \in [Client -> SUBSET (Publication \X Qos)]
  /\ panic \in {"none", "index", "overrun", "mapRace"}

\* The bitmap search and match give the same answer, except that the search
\* does not give "a/#" for the topic "a" (router.go:43-67 and 146-186): for
\* every subscription and topic of the level names of the instance, all added
\* together.  What has been added besides makes no difference, so it is asked
\* before the first call of AddSub.  The strings are as MQTT wants them: with
\* an end mark in one, or a "#" in a topic, the two may differ.
Name == {e \in UNION {{t[i] : i \in 1 .. Len(t)} : t \in Topic} : e \notin {NUL, "#"}}
Strings(names, n) == UNION {[1 .. k -> names] : k \in 1 .. n}
SearchAgrees ==
  LET subs == added \cup Strings(Name \cup {"+", "#"}, Levels) IN
  calls = 0 =>
    \A t \in Strings(Name, Levels) :
      {sub \in Search(subs, t) : NoNUL(sub)} =
        {sub \in subs : NoNUL(sub) /\ Match(sub, t) /\ ~ParentOf(t, sub)}

\* A topic drives the search past the bitmap's last level only if it has the
\* end mark as its element on that level, where a subscription that AddSub let
\* in has its own (router.go:119-120 and 152-185).  Nothing keeps such a topic
\* out; every other one, however long, the search survives.
OverrunNeedsEndMark ==
  panic = "overrun" =>
    \E p \in Publication :
      LET topic == pub[p].topic IN
        /\ pc[p] = "match"
        /\ Len(topic) >= Levels /\ topic[Levels] = NUL
        /\ \E sub \in added : Len(sub) = Levels - 1

\* A client a message is delivered to had, at some time since the search, a
\* subscription that matches its topic, and the QoS is that subscription's
\* or the message's, the lower one: although the subscription map is read
\* without the lock (router.go:192-200).  A subscription with an end mark in it
\* may be served without matching.
ServedWasSubscribed ==
  \A p \in Publication, c \in Client : list[p][c] # None =>
    \E sub \in Filter :
      /\ NoNUL(sub) => Match(sub, pub[p].topic)
      /\ \E qos \in span[p][<<sub, c>>] \ {None} :
           list[p][c] = calcMinQos(qos, pub[p].qos)

\* The topics a subscription is served with: those it matches, if they have no
\* end mark or "#" among their elements, but for the parent of its "#".
Reaches(sub, topic) ==
  NoNUL(topic) /\ NoHash(topic) /\ Match(sub, topic) /\ ~ParentOf(topic, sub)

\* A client whose subscription reaches the topic, was there when the search was done
\* and has not been removed since, is delivered to, with no lower QoS than
\* the least it had meanwhile or the message's (router.go:146-200).
SteadyIsServed ==
  \A p \in Publication, c \in Client, sub \in Filter :
    LET seen == span[p][<<sub, c>>] IN
      /\ pc[p] = "collect" /\ todo[p] = {}
      /\ Reaches(sub, pub[p].topic)
      /\ None \notin seen
      => /\ list[p][c] # None
         /\ \E qos \in seen : list[p][c] >= calcMinQos(qos, pub[p].qos)

\* Every goroutine has run.
Quiet == /\ finds = {}
         /\ \A p \in Publication : pc[p] \in {"idle", "done"}

\* A subscriber never misses the message retained on a topic it subscribes
\* to, whichever way its SUBSCRIBE and the PUBLISH interleave: Receive retains
\* a message before it delivers it and AddSub adds the subscription before it
\* looks for retained messages (client.go:282-286, router.go:109-126).
RetainedNotMissed ==
  Up /\ Quiet =>
    \A c \in Client, sub \in added, t \in Topic :
      granted[<<sub, c>>] # None /\ retained[t] # Nil /\ Reaches(sub, t)
      => \E qos \in Qos : <<retained[t], qos>> \in got[c]
=============================================================================
