---------------------------- MODULE RoutingProofs ----------------------------
(***************************************************************************)
(* The proofs about Routing, for any clients, subscriptions, PUBLISHes and *)
(* bounds: Inv is inductive, and the properties follow from it.            *)
(***************************************************************************)
EXTENDS RoutingInv, TopicMatchProofs

\* Topics and subscriptions are sequences of strings with an element at least.
LEMMA Plain ==
  /\ Topic \subseteq Seq(Element) \ {<<>>} /\ Filter \subseteq Seq(Element) \ {<<>>}
  /\ \A m \in Publish : m.topic \in Topic /\ m.qos \in 0 .. 2
BY PublishAssumption, FilterAssumption, StringsAreElements DEF Topic

\* The lower and the higher of two.
LEMMA MinMax ==
  ASSUME NEW a \in 0 .. None, NEW b \in 0 .. None
  PROVE  /\ calcMinQos(a, b) \in 0 .. None /\ calcMinQos(a, b) <= b
         /\ calcMinQos(a, b) <= a /\ calcMinQos(a, b) \in {a, b}
         /\ calcMaxQos(a, b) \in 0 .. None /\ calcMaxQos(a, b) >= a
         /\ calcMaxQos(a, b) >= b /\ calcMaxQos(a, b) \in {a, b}
BY DEF calcMinQos, calcMaxQos, None

\* The list of nobody is a list.
LEMMA NobodyType == Nobody \in [Client -> 0 .. None]
BY DEF Nobody, None

-----------------------------------------------------------------------------
(* The types.                                                              *)

\* TypeOK in parts, of the pieces of state that change together.
GrantedType ==
  /\ added \subseteq {sub \in Filter : Len(sub) < Levels}
  /\ granted \in [Filter \X Client -> 0 .. None]
  /\ \A sc \in Filter \X Client : granted[sc] # None => sc[1] \in added
FindsType ==
  /\ finds \subseteq [call : 0 .. MaxCall - 1, client : Client, sub : added,
                      qos : Qos]
  /\ \A f, g \in finds : f.call = g.call => f = g
RetainedType == retained \in [Topic -> Publication \cup {Nil}]
PhaseType ==
  /\ pub \in [Publication -> Publish]
  /\ pc \in [Publication -> {"idle", "match", "collect", "done"}]
  /\ panic \in {"none", "index", "overrun", "mapRace"}
TodoType ==
  /\ todo \in [Publication -> SUBSET added]
  /\ \A p \in Publication : todo[p] # {} => pc[p] = "collect"
ListType == list \in [Publication -> [Client -> 0 .. None]]
GotType == got \in [Client -> SUBSET (Publication \X Qos)]

\* The parts are the whole, before a step and after.
LEMMA TypeParts ==
  TypeOK <=> /\ GrantedType /\ FindsType /\ RetainedType /\ PhaseType
             /\ TodoType /\ ListType /\ GotType
BY DEF TypeOK, GrantedType, FindsType, RetainedType, PhaseType, TodoType,
  ListType, GotType

LEMMA TypePartsNext ==
  TypeOK' <=> /\ GrantedType' /\ FindsType' /\ RetainedType' /\ PhaseType'
              /\ TodoType' /\ ListType' /\ GotType'
BY DEF TypeOK, GrantedType, FindsType, RetainedType, PhaseType, TodoType,
  ListType, GotType

\* What one more subscription does to the list: it takes nobody off it and
\* lowers no QoS, and whoever the subscription has is on it.
LEMMA CollectedIs ==
  ASSUME GrantedType, PhaseType, ListType, NEW p \in Publication, NEW sub \in Filter
  PROVE  /\ Collected(p, sub) \in [Client -> 0 .. None]
         /\ \A c \in Client :
              LET qos == granted[<<sub, c>>]
                  old == list[p][c]
                  new == Collected(p, sub)[c]
              IN /\ qos = None => new = old
                 /\ qos # None => new # None /\ new <= pub[p].qos
                                  /\ new >= calcMinQos(qos, pub[p].qos)
                 /\ qos # None /\ old = None => new = calcMinQos(qos, pub[p].qos)
                 /\ qos # None /\ old # None /\ old <= pub[p].qos
                    => new >= old /\ new \in {old, calcMinQos(qos, pub[p].qos)}
<1>1. pub[p].qos \in 0 .. 2
  BY Plain DEF PhaseType
<1>2. \A c \in Client : granted[<<sub, c>>] \in 0 .. None /\ list[p][c] \in 0 .. None
  BY DEF GrantedType, ListType
<1>3. \A c \in Client :
        Collected(p, sub)[c] =
          IF granted[<<sub, c>>] = None THEN list[p][c]
          ELSE IF list[p][c] # None
                 THEN calcMinQos(calcMaxQos(list[p][c], granted[<<sub, c>>]), pub[p].qos)
                 ELSE calcMinQos(granted[<<sub, c>>], pub[p].qos)
  BY DEF Collected
<1>4. ASSUME NEW c \in Client
      PROVE  Collected(p, sub)[c] \in 0 .. None
  <2>1. pub[p].qos \in 0 .. None /\ list[p][c] \in 0 .. None
        /\ granted[<<sub, c>>] \in 0 .. None
    BY <1>1, <1>2 DEF None
  <2>2. calcMaxQos(list[p][c], granted[<<sub, c>>]) \in 0 .. None
    BY <2>1, MinMax
  <2>3. QED
    BY <1>3, <2>1, <2>2, MinMax
<1>5. Collected(p, sub) \in [Client -> 0 .. None]
  BY <1>4 DEF Collected
<1>6. QED
  BY <1>1, <1>2, <1>3, <1>5 DEF calcMinQos, calcMaxQos, None

\* Subscriptions keep their type.
LEMMA GrantedStep ==
  ASSUME GrantedType, [Next]_vars
  PROVE  GrantedType'
<1>1. CASE UNCHANGED vars
  BY <1>1 DEF GrantedType, Fits, vars, submap, publication
<1>2. ASSUME NEW c \in Client, NEW sub \in Filter, NEW qos \in Asked,
             AddSub(c, sub, qos)
      PROVE  GrantedType'
  <2>1. <<sub, c>> \in Filter \X Client /\ qos \in 0 .. None
    BY AskedAssumption DEF None
  <2>2. CASE Fits(sub)
    <3>1. added' = added \cup {sub} /\ granted' = [granted EXCEPT ![<<sub, c>>] = qos]
      BY <1>2, <2>2 DEF AddSub
    <3>2. added' \subseteq {s \in Filter : Len(s) < Levels}
      BY <2>2, <3>1 DEF GrantedType, Fits
    <3>3. granted' \in [Filter \X Client -> 0 .. None]
      BY <2>1, <3>1 DEF GrantedType
    <3>4. \A sc \in Filter \X Client : sc # <<sub, c>> => granted'[sc] = granted[sc]
      BY <2>1, <3>1 DEF GrantedType
    <3>5. \A sc \in Filter \X Client : granted'[sc] # None => sc[1] \in added'
      BY <2>1, <3>1, <3>4 DEF GrantedType
    <3>6. QED
      BY <3>2, <3>3, <3>5 DEF GrantedType
  <2>3. CASE ~Fits(sub)
    BY <1>2, <2>3 DEF AddSub, GrantedType, submap
  <2>4. QED
    BY <2>2, <2>3
<1>3. ASSUME NEW c \in Client, NEW sub \in Filter, DeleteSub(c, sub)
      PROVE  GrantedType'
  <2>1. <<sub, c>> \in Filter \X Client /\ None \in 0 .. None
    BY DEF None
  <2>2. added' = added /\ granted' = [granted EXCEPT ![<<sub, c>>] = None]
    BY <1>3 DEF DeleteSub
  <2>3. granted' \in [Filter \X Client -> 0 .. None]
    BY <2>1, <2>2 DEF GrantedType
  <2>4. \A sc \in Filter \X Client : granted'[sc] \in {granted[sc], None}
    BY <2>1, <2>2 DEF GrantedType
  <2>5. QED
    BY <2>2, <2>3, <2>4 DEF GrantedType
<1>4. ASSUME NEW c \in Client, DeleteSubAll(c)
      PROVE  GrantedType'
  <2>1. added' = added
        /\ granted' = [sc \in Filter \X Client |->
                         IF sc[2] = c THEN None ELSE granted[sc]]
    BY <1>4 DEF DeleteSubAll
  <2>2. None \in 0 .. None
    BY DEF None
  <2>3. \A sc \in Filter \X Client : granted'[sc] \in {granted[sc], None}
    BY <2>1
  <2>4. granted' \in [Filter \X Client -> 0 .. None]
    BY <2>1, <2>2 DEF GrantedType
  <2>5. QED
    BY <2>1, <2>3, <2>4 DEF GrantedType
<1>5. ASSUME NEW f \in finds, FindRetained(f)
      PROVE  GrantedType'
  BY <1>5 DEF GrantedType, Fits, FindRetained, submap, publication
<1>6. ASSUME NEW p \in Publication, Receive(p)
      PROVE  GrantedType'
  BY <1>6 DEF GrantedType, Fits, Receive, submap, publication
<1>7. ASSUME NEW p \in Publication, MatchTopic(p)
      PROVE  GrantedType'
  BY <1>7 DEF GrantedType, Fits, MatchTopic, submap, publication
<1>8. ASSUME NEW p \in Publication, Hand(p)
      PROVE  GrantedType'
  BY <1>8 DEF GrantedType, Fits, Hand, submap, publication
<1>9. ASSUME NEW p \in Publication, NEW sub \in Filter, Collect(p, sub)
      PROVE  GrantedType'
  BY <1>9 DEF GrantedType, Fits, Collect, submap, publication
<1>10. CASE MapRace
  BY <1>10 DEF GrantedType, Fits, MapRace, submap, publication
<1>11. QED
  BY <1>1, <1>2, <1>3, <1>4, <1>5, <1>6, <1>7, <1>8, <1>9, <1>10 DEF Next

\* FindRetained goroutines keep their type.
LEMMA FindsStep ==
  ASSUME GrantedType, FindsType, Called, [Next]_vars
  PROVE  FindsType'
<1>1. CASE UNCHANGED vars
  BY <1>1 DEF FindsType, GrantedType, Called, Qos, vars, submap, publication
<1>2. ASSUME NEW c \in Client, NEW sub \in Filter, NEW qos \in Asked,
             AddSub(c, sub, qos)
      PROVE  FindsType'
  BY <1>2, AskedAssumption, CallAssumption DEF FindsType, GrantedType, Called,
    Qos, AddSub, submap, publication
<1>3. ASSUME NEW c \in Client, NEW sub \in Filter, DeleteSub(c, sub)
      PROVE  FindsType'
  BY <1>3 DEF FindsType, GrantedType, Called, Qos, DeleteSub, submap,
    publication
<1>4. ASSUME NEW c \in Client, DeleteSubAll(c)
      PROVE  FindsType'
  BY <1>4 DEF FindsType, GrantedType, Called, Qos, DeleteSubAll, submap,
    publication
<1>5. ASSUME NEW f \in finds, FindRetained(f)
      PROVE  FindsType'
  BY <1>5 DEF FindsType, GrantedType, Called, Qos, FindRetained, submap,
    publication
<1>6. ASSUME NEW p \in Publication, Receive(p)
      PROVE  FindsType'
  BY <1>6 DEF FindsType, GrantedType, Called, Qos, Receive, submap, publication
<1>7. ASSUME NEW p \in Publication, MatchTopic(p)
      PROVE  FindsType'
  BY <1>7 DEF FindsType, GrantedType, Called, Qos, MatchTopic, submap,
    publication
<1>8. ASSUME NEW p \in Publication, Hand(p)
      PROVE  FindsType'
  BY <1>8 DEF FindsType, GrantedType, Called, Qos, Hand, submap, publication
<1>9. ASSUME NEW p \in Publication, NEW sub \in Filter, Collect(p, sub)
      PROVE  FindsType'
  BY <1>9 DEF FindsType, GrantedType, Called, Qos, Collect, submap, publication
<1>10. CASE MapRace
  BY <1>10 DEF FindsType, GrantedType, Called, Qos, MapRace, submap,
    publication
<1>11. QED
  BY <1>1, <1>2, <1>3, <1>4, <1>5, <1>6, <1>7, <1>8, <1>9, <1>10 DEF Next

\* Retained messages keep their type.
LEMMA RetainedStep ==
  ASSUME PhaseType, RetainedType, [Next]_vars
  PROVE  RetainedType'
<1>1. CASE UNCHANGED vars
  BY <1>1 DEF RetainedType, PhaseType, SetRetained, Topic, vars, submap,
    publication
<1>2. ASSUME NEW c \in Client, NEW sub \in Filter, NEW qos \in Asked,
             AddSub(c, sub, qos)
      PROVE  RetainedType'
  BY <1>2 DEF RetainedType, PhaseType, SetRetained, Topic, AddSub, submap,
    publication
<1>3. ASSUME NEW c \in Client, NEW sub \in Filter, DeleteSub(c, sub)
      PROVE  RetainedType'
  BY <1>3 DEF RetainedType, PhaseType, SetRetained, Topic, DeleteSub, submap,
    publication
<1>4. ASSUME NEW c \in Client, DeleteSubAll(c)
      PROVE  RetainedType'
  BY <1>4 DEF RetainedType, PhaseType, SetRetained, Topic, DeleteSubAll,
    submap, publication
<1>5. ASSUME NEW f \in finds, FindRetained(f)
      PROVE  RetainedType'
  BY <1>5 DEF RetainedType, PhaseType, SetRetained, Topic, FindRetained,
    submap, publication
<1>6. ASSUME NEW p \in Publication, Receive(p)
      PROVE  RetainedType'
  BY <1>6 DEF RetainedType, PhaseType, SetRetained, Topic, Receive, submap,
    publication
<1>7. ASSUME NEW p \in Publication, MatchTopic(p)
      PROVE  RetainedType'
  BY <1>7 DEF RetainedType, PhaseType, SetRetained, Topic, MatchTopic, submap,
    publication
<1>8. ASSUME NEW p \in Publication, Hand(p)
      PROVE  RetainedType'
  BY <1>8 DEF RetainedType, PhaseType, SetRetained, Topic, Hand, submap,
    publication
<1>9. ASSUME NEW p \in Publication, NEW sub \in Filter, Collect(p, sub)
      PROVE  RetainedType'
  BY <1>9 DEF RetainedType, PhaseType, SetRetained, Topic, Collect, submap,
    publication
<1>10. CASE MapRace
  BY <1>10 DEF RetainedType, PhaseType, SetRetained, Topic, MapRace, submap,
    publication
<1>11. QED
  BY <1>1, <1>2, <1>3, <1>4, <1>5, <1>6, <1>7, <1>8, <1>9, <1>10 DEF Next

\* Publications keep their type.
LEMMA PhaseStep ==
  ASSUME PhaseType, [Next]_vars
  PROVE  PhaseType'
<1>1. CASE UNCHANGED vars
  BY <1>1 DEF PhaseType, vars, submap, publication
<1>2. ASSUME NEW c \in Client, NEW sub \in Filter, NEW qos \in Asked,
             AddSub(c, sub, qos)
      PROVE  PhaseType'
  BY <1>2 DEF PhaseType, AddSub, submap, publication
<1>3. ASSUME NEW c \in Client, NEW sub \in Filter, DeleteSub(c, sub)
      PROVE  PhaseType'
  BY <1>3 DEF PhaseType, DeleteSub, submap, publication
<1>4. ASSUME NEW c \in Client, DeleteSubAll(c)
      PROVE  PhaseType'
  BY <1>4 DEF PhaseType, DeleteSubAll, submap, publication
<1>5. ASSUME NEW f \in finds, FindRetained(f)
      PROVE  PhaseType'
  BY <1>5 DEF PhaseType, FindRetained, submap, publication
<1>6. ASSUME NEW p \in Publication, Receive(p)
      PROVE  PhaseType'
  BY <1>6 DEF PhaseType, Receive, submap, publication
<1>7. ASSUME NEW p \in Publication, MatchTopic(p)
      PROVE  PhaseType'
  BY <1>7 DEF PhaseType, MatchTopic, submap, publication
<1>8. ASSUME NEW p \in Publication, Hand(p)
      PROVE  PhaseType'
  BY <1>8 DEF PhaseType, Hand, submap, publication
<1>9. ASSUME NEW p \in Publication, NEW sub \in Filter, Collect(p, sub)
      PROVE  PhaseType'
  BY <1>9 DEF PhaseType, Collect, submap, publication
<1>10. CASE MapRace
  BY <1>10 DEF PhaseType, MapRace, submap, publication
<1>11. QED
  BY <1>1, <1>2, <1>3, <1>4, <1>5, <1>6, <1>7, <1>8, <1>9, <1>10 DEF Next

\* The subscriptions to read keep their type.
LEMMA TodoStep ==
  ASSUME GrantedType, PhaseType, TodoType, [Next]_vars
  PROVE  TodoType'
<1>1. CASE UNCHANGED vars
  BY <1>1 DEF TodoType, PhaseType, GrantedType, vars, submap, publication
<1>2. ASSUME NEW c \in Client, NEW sub \in Filter, NEW qos \in Asked,
             AddSub(c, sub, qos)
      PROVE  TodoType'
  BY <1>2 DEF TodoType, PhaseType, GrantedType, AddSub, submap, publication
<1>3. ASSUME NEW c \in Client, NEW sub \in Filter, DeleteSub(c, sub)
      PROVE  TodoType'
  BY <1>3 DEF TodoType, PhaseType, GrantedType, DeleteSub, submap, publication
<1>4. ASSUME NEW c \in Client, DeleteSubAll(c)
      PROVE  TodoType'
  BY <1>4 DEF TodoType, PhaseType, GrantedType, DeleteSubAll, submap,
    publication
<1>5. ASSUME NEW f \in finds, FindRetained(f)
      PROVE  TodoType'
  BY <1>5 DEF TodoType, PhaseType, GrantedType, FindRetained, submap,
    publication
<1>6. ASSUME NEW p \in Publication, Receive(p)
      PROVE  TodoType'
  BY <1>6 DEF TodoType, PhaseType, GrantedType, Receive, submap, publication
<1>7. ASSUME NEW p \in Publication, MatchTopic(p)
      PROVE  TodoType'
  <2>1. CASE Overruns(added, pub[p].topic)
    BY <1>7, <2>1 DEF MatchTopic, TodoType, PhaseType, submap
  <2>2. CASE ~Overruns(added, pub[p].topic)
    <3>1. /\ todo' = [todo EXCEPT ![p] = Search(added, pub[p].topic)]
          /\ pc' = [pc EXCEPT ![p] = "collect"] /\ added' = added
      BY <1>7, <2>2 DEF MatchTopic, submap
    <3>2. Search(added, pub[p].topic) \subseteq added
      BY Plain, SearchStays DEF PhaseType
    <3>3. todo' \in [Publication -> SUBSET added']
      BY <3>1, <3>2 DEF TodoType
    <3>4. \A q \in Publication : todo'[q] # {} => pc'[q] = "collect"
      BY <3>1 DEF TodoType, PhaseType
    <3>5. QED
      BY <3>3, <3>4 DEF TodoType
  <2>3. QED
    BY <2>1, <2>2
<1>8. ASSUME NEW p \in Publication, Hand(p)
      PROVE  TodoType'
  BY <1>8 DEF TodoType, PhaseType, GrantedType, Hand, submap, publication
<1>9. ASSUME NEW p \in Publication, NEW sub \in Filter, Collect(p, sub)
      PROVE  TodoType'
  BY <1>9 DEF TodoType, PhaseType, GrantedType, Collect, submap, publication
<1>10. CASE MapRace
  BY <1>10 DEF TodoType, PhaseType, GrantedType, MapRace, submap, publication
<1>11. QED
  BY <1>1, <1>2, <1>3, <1>4, <1>5, <1>6, <1>7, <1>8, <1>9, <1>10 DEF Next

\* Lists keep their type.
LEMMA ListStep ==
  ASSUME GrantedType, PhaseType, ListType, [Next]_vars
  PROVE  ListType'
<1>1. CASE UNCHANGED vars
  BY <1>1 DEF ListType, vars, submap, publication
<1>2. ASSUME NEW c \in Client, NEW sub \in Filter, NEW qos \in Asked,
             AddSub(c, sub, qos)
      PROVE  ListType'
  BY <1>2 DEF ListType, AddSub, submap, publication
<1>3. ASSUME NEW c \in Client, NEW sub \in Filter, DeleteSub(c, sub)
      PROVE  ListType'
  BY <1>3 DEF ListType, DeleteSub, submap, publication
<1>4. ASSUME NEW c \in Client, DeleteSubAll(c)
      PROVE  ListType'
  BY <1>4 DEF ListType, DeleteSubAll, submap, publication
<1>5. ASSUME NEW f \in finds, FindRetained(f)
      PROVE  ListType'
  BY <1>5 DEF ListType, FindRetained, submap, publication
<1>6. ASSUME NEW p \in Publication, Receive(p)
      PROVE  ListType'
  BY <1>6 DEF ListType, Receive, submap, publication
<1>7. ASSUME NEW p \in Publication, MatchTopic(p)
      PROVE  ListType'
  BY <1>7 DEF ListType, MatchTopic, submap, publication
<1>8. ASSUME NEW p \in Publication, Hand(p)
      PROVE  ListType'
  BY <1>8, NobodyType DEF ListType, Hand
<1>9. ASSUME NEW p \in Publication, NEW sub \in Filter, Collect(p, sub)
      PROVE  ListType'
  <2>1. list' = [list EXCEPT ![p] = Collected(p, sub)]
    BY <1>9 DEF Collect
  <2>2. Collected(p, sub) \in [Client -> 0 .. None]
    BY CollectedIs
  <2>3. QED
    BY <2>1, <2>2 DEF ListType
<1>10. CASE MapRace
  BY <1>10 DEF ListType, MapRace, submap, publication
<1>11. QED
  BY <1>1, <1>2, <1>3, <1>4, <1>5, <1>6, <1>7, <1>8, <1>9, <1>10 DEF Next

\* What is handed over keep their type.
LEMMA GotStep ==
  ASSUME FindsType, RetainedType, PhaseType, ListType, GotType, [Next]_vars
  PROVE  GotType'
<1>1. CASE UNCHANGED vars
  BY <1>1 DEF GotType, vars, submap, publication
<1>2. ASSUME NEW c \in Client, NEW sub \in Filter, NEW qos \in Asked,
             AddSub(c, sub, qos)
      PROVE  GotType'
  BY <1>2 DEF GotType, AddSub, submap, publication
<1>3. ASSUME NEW c \in Client, NEW sub \in Filter, DeleteSub(c, sub)
      PROVE  GotType'
  BY <1>3 DEF GotType, DeleteSub, submap, publication
<1>4. ASSUME NEW c \in Client, DeleteSubAll(c)
      PROVE  GotType'
  BY <1>4 DEF GotType, DeleteSubAll, submap, publication
<1>5. ASSUME NEW f \in finds, FindRetained(f)
      PROVE  GotType'
  <2>1. DEFINE more == {<<p, calcMinQos(pub[p].qos, f.qos)>> : p \in Retained(f.sub)}
  <2>2. f.client \in Client /\ f.qos \in Qos
    BY DEF FindsType
  <2>3. ASSUME NEW p \in Retained(f.sub)
        PROVE  p \in Publication /\ calcMinQos(pub[p].qos, f.qos) \in Qos
    <3>1. p \in Publication
      BY <2>3 DEF Retained, RetainedType
    <3>2. pub[p].qos \in Qos
      BY <3>1, PublishAssumption DEF PhaseType, Qos
    <3>3. QED
      BY <2>2, <3>1, <3>2 DEF calcMinQos
  <2>4. more \subseteq Publication \X Qos
    BY <2>3
  <2>5. got' = [got EXCEPT ![f.client] = @ \cup more]
    BY <1>5 DEF FindRetained
  <2> HIDE DEF more
  <2>6. QED
    BY <2>2, <2>4, <2>5 DEF GotType
<1>6. ASSUME NEW p \in Publication, Receive(p)
      PROVE  GotType'
  BY <1>6 DEF GotType, Receive, submap, publication
<1>7. ASSUME NEW p \in Publication, MatchTopic(p)
      PROVE  GotType'
  BY <1>7 DEF GotType, MatchTopic, submap, publication
<1>8. ASSUME NEW p \in Publication, Hand(p)
      PROVE  GotType'
  <2>1. got' = [c \in Client |-> IF list[p][c] = None THEN got[c]
                                   ELSE got[c] \cup {<<p, list[p][c]>>}]
    BY <1>8 DEF Hand
  <2>2. ASSUME NEW c \in Client
        PROVE  got'[c] \subseteq Publication \X Qos
    <3>1. list[p][c] # None => list[p][c] \in Qos
      BY DEF ListType, Qos, None
    <3>2. got[c] \subseteq Publication \X Qos
      BY DEF GotType
    <3>3. QED
      BY <2>1, <3>1, <3>2
  <2>3. QED
    BY <2>1, <2>2 DEF GotType
<1>9. ASSUME NEW p \in Publication, NEW sub \in Filter, Collect(p, sub)
      PROVE  GotType'
  BY <1>9 DEF GotType, Collect, submap, publication
<1>10. CASE MapRace
  BY <1>10 DEF GotType, MapRace, submap, publication
<1>11. QED
  BY <1>1, <1>2, <1>3, <1>4, <1>5, <1>6, <1>7, <1>8, <1>9, <1>10 DEF Next

\* The types are kept.
LEMMA TypeStep ==
  ASSUME TypeOK, Called, [Next]_vars
  PROVE  TypeOK'
BY TypeParts, TypePartsNext, GrantedStep, FindsStep, RetainedStep, PhaseStep,
  TodoStep, ListStep, GotStep

-----------------------------------------------------------------------------
(* The other parts that hold of all strings.                               *)

\* Calls are counted.
LEMMA CalledStep ==
  ASSUME TypeOK, Called, [Next]_vars
  PROVE  Called'
<1>1. CASE UNCHANGED vars
  BY <1>1 DEF Called, vars, submap, publication
<1>2. ASSUME NEW c \in Client, NEW sub \in Filter, NEW qos \in Asked,
             AddSub(c, sub, qos)
      PROVE  Called'
  <2>1. CASE Fits(sub)
    <3>1. /\ calls' = calls + 1 /\ calls < MaxCall
          /\ finds' = finds \cup
               {[call |-> calls, client |-> c, sub |-> sub, qos |-> qos]}
      BY <1>2, <2>1 DEF AddSub
    <3>2. \A f \in finds' : f.call <= calls
      BY <3>1, CallAssumption DEF Called, TypeOK
    <3>3. \A f \in finds' : f.call \in Nat
      BY <3>1, CallAssumption DEF Called, TypeOK
    <3>4. QED
      BY <3>1, <3>2, <3>3, CallAssumption DEF Called
  <2>2. CASE ~Fits(sub)
    BY <1>2, <2>2 DEF AddSub, Called, submap
  <2>3. QED
    BY <2>1, <2>2
<1>3. ASSUME NEW c \in Client, NEW sub \in Filter, DeleteSub(c, sub)
      PROVE  Called'
  BY <1>3 DEF Called, DeleteSub, submap, publication
<1>4. ASSUME NEW c \in Client, DeleteSubAll(c)
      PROVE  Called'
  BY <1>4 DEF Called, DeleteSubAll, submap, publication
<1>5. ASSUME NEW f \in finds, FindRetained(f)
      PROVE  Called'
  BY <1>5 DEF Called, FindRetained, submap, publication
<1>6. ASSUME NEW p \in Publication, Receive(p)
      PROVE  Called'
  BY <1>6 DEF Called, Receive, submap, publication
<1>7. ASSUME NEW p \in Publication, MatchTopic(p)
      PROVE  Called'
  BY <1>7 DEF Called, MatchTopic, submap, publication
<1>8. ASSUME NEW p \in Publication, Hand(p)
      PROVE  Called'
  BY <1>8 DEF Called, Hand, submap, publication
<1>9. ASSUME NEW p \in Publication, NEW sub \in Filter, Collect(p, sub)
      PROVE  Called'
  BY <1>9 DEF Called, Collect, submap, publication
<1>10. CASE MapRace
  BY <1>10 DEF Called, MapRace, submap, publication
<1>11. QED
  BY <1>1, <1>2, <1>3, <1>4, <1>5, <1>6, <1>7, <1>8, <1>9, <1>10 DEF Next

\* Lists are made by deliveries.
LEMMA ListedStep ==
  ASSUME TypeOK, Listed, [Next]_vars
  PROVE  Listed'
<1>1. CASE UNCHANGED vars
  BY <1>1 DEF Listed, TypeOK, Nobody, None, vars, submap, publication
<1>2. ASSUME NEW c \in Client, NEW sub \in Filter, NEW qos \in Asked,
             AddSub(c, sub, qos)
      PROVE  Listed'
  BY <1>2 DEF Listed, TypeOK, Nobody, None, AddSub, submap, publication
<1>3. ASSUME NEW c \in Client, NEW sub \in Filter, DeleteSub(c, sub)
      PROVE  Listed'
  BY <1>3 DEF Listed, TypeOK, Nobody, None, DeleteSub, submap, publication
<1>4. ASSUME NEW c \in Client, DeleteSubAll(c)
      PROVE  Listed'
  BY <1>4 DEF Listed, TypeOK, Nobody, None, DeleteSubAll, submap, publication
<1>5. ASSUME NEW f \in finds, FindRetained(f)
      PROVE  Listed'
  BY <1>5 DEF Listed, TypeOK, Nobody, None, FindRetained, submap, publication
<1>6. ASSUME NEW p \in Publication, Receive(p)
      PROVE  Listed'
  BY <1>6 DEF Listed, TypeOK, Nobody, None, Receive, submap, publication
<1>7. ASSUME NEW p \in Publication, MatchTopic(p)
      PROVE  Listed'
  BY <1>7 DEF Listed, TypeOK, Nobody, None, MatchTopic, submap, publication
<1>8. ASSUME NEW p \in Publication, Hand(p)
      PROVE  Listed'
  BY <1>8 DEF Listed, TypeOK, Nobody, None, Hand, submap, publication
<1>9. ASSUME NEW p \in Publication, NEW sub \in Filter, Collect(p, sub)
      PROVE  Listed'
  <2>1. /\ list' = [list EXCEPT ![p] = Collected(p, sub)] /\ pc[p] = "collect"
        /\ UNCHANGED <<pc, pub>>
    BY <1>9 DEF Collect
  <2>2. \A c \in Client : Collected(p, sub)[c] # None
                            => Collected(p, sub)[c] <= pub[p].qos
    BY CollectedIs, TypeParts DEF Listed
  <2>3. \A q \in Publication : list'[q] = IF q = p THEN Collected(p, sub) ELSE list[q]
    BY <2>1 DEF TypeOK
  <2>4. QED
    BY <2>1, <2>2, <2>3 DEF Listed
<1>10. CASE MapRace
  BY <1>10 DEF Listed, TypeOK, Nobody, None, MapRace, submap, publication
<1>11. QED
  BY <1>1, <1>2, <1>3, <1>4, <1>5, <1>6, <1>7, <1>8, <1>9, <1>10 DEF Next

\* A delivery under way sees the new map.
LEMMA ObserveStep ==
  ASSUME TypeOK, Witnessed, granted' \in [Filter \X Client -> 0 .. None],
         Observe(granted'), pc' = pc
  PROVE  /\ span' \in [Publication -> [Filter \X Client -> SUBSET (0 .. None)]]
         /\ \A p \in Publication : \A sc \in Filter \X Client :
              /\ pc[p] = "collect" => span'[p][sc] = span[p][sc] \cup {granted'[sc]}
              /\ pc[p] # "collect" => span'[p] = span[p]
<1> DEFINE seen(p) == [sc \in Filter \X Client |-> span[p][sc] \cup {granted'[sc]}]
<1>1. span' = [p \in Publication |->
                 IF pc[p] = "collect" THEN seen(p) ELSE span[p]]
  BY DEF Observe
<1>2. \A p \in Publication : seen(p) \in [Filter \X Client -> SUBSET (0 .. None)]
  BY DEF Witnessed
<1>3. \A p \in Publication : span[p] \in [Filter \X Client -> SUBSET (0 .. None)]
  BY DEF Witnessed
<1>4. span' \in [Publication -> [Filter \X Client -> SUBSET (0 .. None)]]
  <2> HIDE DEF seen
  <2> QED
    BY <1>1, <1>2, <1>3
<1>5. QED
  BY <1>1, <1>4

\* Histories end with the present.
LEMMA WitnessedStep ==
  ASSUME TypeOK, Witnessed, [Next]_vars
  PROVE  Witnessed'
<1>1. CASE UNCHANGED vars
  BY <1>1 DEF Witnessed, TypeOK, Unobserved, vars, submap, publication
<1>2. ASSUME NEW c \in Client, NEW sub \in Filter, NEW qos \in Asked,
             AddSub(c, sub, qos)
      PROVE  Witnessed'
  <2>1. granted' \in [Filter \X Client -> 0 .. None]
    BY GrantedStep, TypeParts DEF GrantedType
  <2>2. (Observe(granted') /\ pc' = pc) \/ UNCHANGED <<pc, granted, span>>
    BY <1>2 DEF AddSub, submap
  <2>3. CASE UNCHANGED <<pc, granted, span>>
    BY <2>3 DEF Witnessed
  <2>4. CASE Observe(granted') /\ pc' = pc
    <3>1. \A q \in Publication : pc[q] = "collect" =>
            \A sc \in Filter \X Client : granted'[sc] \in span'[q][sc]
      BY <2>1, <2>4, ObserveStep
    <3>2. span' \in [Publication -> [Filter \X Client -> SUBSET (0 .. None)]]
      BY <2>1, <2>4, ObserveStep
    <3>3. QED
      BY <2>4, <3>1, <3>2 DEF Witnessed
  <2>5. QED
    BY <2>2, <2>3, <2>4
<1>3. ASSUME NEW c \in Client, NEW sub \in Filter, DeleteSub(c, sub)
      PROVE  Witnessed'
  <2>1. granted' \in [Filter \X Client -> 0 .. None]
    BY GrantedStep, TypeParts DEF GrantedType
  <2>2. (Observe(granted') /\ pc' = pc) \/ UNCHANGED <<pc, granted, span>>
    BY <1>3 DEF DeleteSub, submap
  <2>3. CASE UNCHANGED <<pc, granted, span>>
    BY <2>3 DEF Witnessed
  <2>4. CASE Observe(granted') /\ pc' = pc
    <3>1. \A q \in Publication : pc[q] = "collect" =>
            \A sc \in Filter \X Client : granted'[sc] \in span'[q][sc]
      BY <2>1, <2>4, ObserveStep
    <3>2. span' \in [Publication -> [Filter \X Client -> SUBSET (0 .. None)]]
      BY <2>1, <2>4, ObserveStep
    <3>3. QED
      BY <2>4, <3>1, <3>2 DEF Witnessed
  <2>5. QED
    BY <2>2, <2>3, <2>4
<1>4. ASSUME NEW c \in Client, DeleteSubAll(c)
      PROVE  Witnessed'
  <2>1. granted' \in [Filter \X Client -> 0 .. None]
    BY GrantedStep, TypeParts DEF GrantedType
  <2>2. (Observe(granted') /\ pc' = pc) \/ UNCHANGED <<pc, granted, span>>
    BY <1>4 DEF DeleteSubAll, submap
  <2>3. CASE UNCHANGED <<pc, granted, span>>
    BY <2>3 DEF Witnessed
  <2>4. CASE Observe(granted') /\ pc' = pc
    <3>1. \A q \in Publication : pc[q] = "collect" =>
            \A sc \in Filter \X Client : granted'[sc] \in span'[q][sc]
      BY <2>1, <2>4, ObserveStep
    <3>2. span' \in [Publication -> [Filter \X Client -> SUBSET (0 .. None)]]
      BY <2>1, <2>4, ObserveStep
    <3>3. QED
      BY <2>4, <3>1, <3>2 DEF Witnessed
  <2>5. QED
    BY <2>2, <2>3, <2>4
<1>5. ASSUME NEW f \in finds, FindRetained(f)
      PROVE  Witnessed'
  BY <1>5 DEF Witnessed, TypeOK, Unobserved, FindRetained, submap, publication
<1>6. ASSUME NEW p \in Publication, Receive(p)
      PROVE  Witnessed'
  BY <1>6 DEF Witnessed, TypeOK, Unobserved, Receive, submap, publication
<1>7. ASSUME NEW p \in Publication, MatchTopic(p)
      PROVE  Witnessed'
  <2>1. CASE Overruns(added, pub[p].topic)
    BY <1>7, <2>1 DEF MatchTopic, Witnessed, submap
  <2>2. CASE ~Overruns(added, pub[p].topic)
    <3>1. /\ span' = [span EXCEPT ![p] = [sc \in Filter \X Client |-> {granted[sc]}]]
          /\ pc' = [pc EXCEPT ![p] = "collect"] /\ granted' = granted
      BY <1>7, <2>2 DEF MatchTopic, submap
    <3>2. [sc \in Filter \X Client |-> {granted[sc]}]
            \in [Filter \X Client -> SUBSET (0 .. None)]
      BY DEF TypeOK
    <3>3. span' \in [Publication -> [Filter \X Client -> SUBSET (0 .. None)]]
      BY <3>1, <3>2 DEF Witnessed
    <3>4. ASSUME NEW q \in Publication, pc'[q] = "collect",
                 NEW sc \in Filter \X Client
          PROVE  granted'[sc] \in span'[q][sc]
      BY <3>1, <3>4 DEF Witnessed, TypeOK
    <3>5. QED
      BY <3>3, <3>4 DEF Witnessed
  <2>3. QED
    BY <2>1, <2>2
<1>8. ASSUME NEW p \in Publication, Hand(p)
      PROVE  Witnessed'
  BY <1>8 DEF Witnessed, TypeOK, Unobserved, Hand, submap, publication
<1>9. ASSUME NEW p \in Publication, NEW sub \in Filter, Collect(p, sub)
      PROVE  Witnessed'
  BY <1>9 DEF Witnessed, TypeOK, Unobserved, Collect, submap, publication
<1>10. CASE MapRace
  BY <1>10 DEF Witnessed, TypeOK, Unobserved, MapRace, submap, publication
<1>11. QED
  BY <1>1, <1>2, <1>3, <1>4, <1>5, <1>6, <1>7, <1>8, <1>9, <1>10 DEF Next

\* Retained messages are of their topic.
LEMMA PublishedStep ==
  ASSUME TypeOK, Published, [Next]_vars
  PROVE  Published'
<1>1. CASE UNCHANGED vars
  BY <1>1 DEF Published, TypeOK, SetRetained, vars, submap, publication
<1>2. ASSUME NEW c \in Client, NEW sub \in Filter, NEW qos \in Asked,
             AddSub(c, sub, qos)
      PROVE  Published'
  BY <1>2 DEF Published, TypeOK, SetRetained, AddSub, submap, publication
<1>3. ASSUME NEW c \in Client, NEW sub \in Filter, DeleteSub(c, sub)
      PROVE  Published'
  BY <1>3 DEF Published, TypeOK, SetRetained, DeleteSub, submap, publication
<1>4. ASSUME NEW c \in Client, DeleteSubAll(c)
      PROVE  Published'
  BY <1>4 DEF Published, TypeOK, SetRetained, DeleteSubAll, submap, publication
<1>5. ASSUME NEW f \in finds, FindRetained(f)
      PROVE  Published'
  BY <1>5 DEF Published, TypeOK, SetRetained, FindRetained, submap, publication
<1>6. ASSUME NEW p \in Publication, Receive(p)
      PROVE  Published'
  BY <1>6 DEF Published, TypeOK, SetRetained, Receive, submap, publication
<1>7. ASSUME NEW p \in Publication, MatchTopic(p)
      PROVE  Published'
  BY <1>7 DEF Published, TypeOK, SetRetained, MatchTopic, submap, publication
<1>8. ASSUME NEW p \in Publication, Hand(p)
      PROVE  Published'
  BY <1>8 DEF Published, TypeOK, SetRetained, Hand, submap, publication
<1>9. ASSUME NEW p \in Publication, NEW sub \in Filter, Collect(p, sub)
      PROVE  Published'
  BY <1>9 DEF Published, TypeOK, SetRetained, Collect, submap, publication
<1>10. CASE MapRace
  BY <1>10 DEF Published, TypeOK, SetRetained, MapRace, submap, publication
<1>11. QED
  BY <1>1, <1>2, <1>3, <1>4, <1>5, <1>6, <1>7, <1>8, <1>9, <1>10 DEF Next

-----------------------------------------------------------------------------
(* Who is served.                                                          *)

\* What is left to read matches.
LEMMA SearchedStep ==
  ASSUME TypeOK, Searched, [Next]_vars
  PROVE  Searched'
<1>1. CASE UNCHANGED vars
  BY <1>1 DEF Searched, TypeOK, vars, submap, publication
<1>2. ASSUME NEW c \in Client, NEW sub \in Filter, NEW qos \in Asked,
             AddSub(c, sub, qos)
      PROVE  Searched'
  BY <1>2 DEF Searched, TypeOK, AddSub, submap, publication
<1>3. ASSUME NEW c \in Client, NEW sub \in Filter, DeleteSub(c, sub)
      PROVE  Searched'
  BY <1>3 DEF Searched, TypeOK, DeleteSub, submap, publication
<1>4. ASSUME NEW c \in Client, DeleteSubAll(c)
      PROVE  Searched'
  BY <1>4 DEF Searched, TypeOK, DeleteSubAll, submap, publication
<1>5. ASSUME NEW f \in finds, FindRetained(f)
      PROVE  Searched'
  BY <1>5 DEF Searched, TypeOK, FindRetained, submap, publication
<1>6. ASSUME NEW p \in Publication, Receive(p)
      PROVE  Searched'
  BY <1>6 DEF Searched, TypeOK, Receive, submap, publication
<1>7. ASSUME NEW p \in Publication, MatchTopic(p)
      PROVE  Searched'
  <2>1. CASE Overruns(added, pub[p].topic)
    BY <1>7, <2>1 DEF MatchTopic, Searched, submap
  <2>2. CASE ~Overruns(added, pub[p].topic)
    <3>1. todo' = [todo EXCEPT ![p] = Search(added, pub[p].topic)] /\ pub' = pub
      BY <1>7, <2>2 DEF MatchTopic
    <3>2. ASSUME NEW sub \in Search(added, pub[p].topic)
          PROVE  NoNUL(sub) => Match(sub, pub[p].topic)
      <4>1. /\ pub[p].topic \in Seq(Element) /\ pub[p].topic # <<>>
            /\ added \subseteq Filter
        BY Plain DEF TypeOK
      <4>2. sub \in added
        BY <3>2, <4>1, SearchStays
      <4>3. sub \in Seq(Element)
        BY <4>1, <4>2, Plain
      <4>4. QED
        BY <3>2, <4>1, <4>2, <4>3, SearchSound
    <3>3. \A q \in Publication :
            todo'[q] = IF q = p THEN Search(added, pub[p].topic) ELSE todo[q]
      BY <3>1 DEF TypeOK
    <3>4. QED
      BY <3>1, <3>2, <3>3 DEF Searched
  <2>3. QED
    BY <2>1, <2>2
<1>8. ASSUME NEW p \in Publication, Hand(p)
      PROVE  Searched'
  BY <1>8 DEF Searched, TypeOK, Hand, submap, publication
<1>9. ASSUME NEW p \in Publication, NEW sub \in Filter, Collect(p, sub)
      PROVE  Searched'
  BY <1>9 DEF Searched, TypeOK, Collect, submap, publication
<1>10. CASE MapRace
  BY <1>10 DEF Searched, TypeOK, MapRace, submap, publication
<1>11. QED
  BY <1>1, <1>2, <1>3, <1>4, <1>5, <1>6, <1>7, <1>8, <1>9, <1>10 DEF Next

\* A subscription that was there once stays one that was.
LEMMA ServedKept ==
  ASSUME TypeOK, Listed, ServedWasSubscribed, UNCHANGED <<pc, pub, list>>,
         \A p \in Publication : pc[p] = "collect" =>
           \A sc \in Filter \X Client : span[p][sc] \subseteq span'[p][sc]
  PROVE  ServedWasSubscribed'
<1>1. ASSUME NEW p \in Publication, NEW c \in Client, list[p][c] # None
      PROVE  \E sub \in Filter :
               /\ NoNUL(sub) => Match(sub, pub[p].topic)
               /\ \E qos \in span'[p][<<sub, c>>] \ {None} :
                    list[p][c] = calcMinQos(qos, pub[p].qos)
  <2>1. PICK sub \in Filter :
          /\ NoNUL(sub) => Match(sub, pub[p].topic)
          /\ \E qos \in span[p][<<sub, c>>] \ {None} :
               list[p][c] = calcMinQos(qos, pub[p].qos)
    BY <1>1 DEF ServedWasSubscribed
  <2>2. pc[p] = "collect"
    BY <1>1 DEF Listed, Nobody
  <2>3. span[p][<<sub, c>>] \subseteq span'[p][<<sub, c>>]
    BY <2>2
  <2>4. QED
    BY <2>1, <2>3
<1>2. QED
  BY <1>1 DEF ServedWasSubscribed

\* Who is listed was subscribed.
LEMMA ServedStep ==
  ASSUME TypeOK, Listed, Witnessed, Searched, ServedWasSubscribed, [Next]_vars
  PROVE  ServedWasSubscribed'
<1>1. CASE UNCHANGED vars
  BY <1>1 DEF ServedWasSubscribed, vars, submap, publication
<1>2. ASSUME NEW c \in Client, NEW sub \in Filter, NEW qos \in Asked,
             AddSub(c, sub, qos)
      PROVE  ServedWasSubscribed'
  <2>1. granted' \in [Filter \X Client -> 0 .. None]
    BY GrantedStep, TypeParts DEF GrantedType
  <2>2. UNCHANGED <<pc, pub, list>>
    BY <1>2 DEF AddSub, publication
  <2>3. CASE UNCHANGED <<pc, granted, span>>
    BY <2>2, <2>3 DEF ServedWasSubscribed
  <2>4. CASE Observe(granted')
    BY <2>1, <2>2, <2>4, ObserveStep, ServedKept
  <2>5. QED
    BY <1>2, <2>3, <2>4 DEF AddSub, submap
<1>3. ASSUME NEW c \in Client, NEW sub \in Filter, DeleteSub(c, sub)
      PROVE  ServedWasSubscribed'
  <2>1. granted' \in [Filter \X Client -> 0 .. None]
    BY GrantedStep, TypeParts DEF GrantedType
  <2>2. UNCHANGED <<pc, pub, list>>
    BY <1>3 DEF DeleteSub, publication
  <2>3. CASE UNCHANGED <<pc, granted, span>>
    BY <2>2, <2>3 DEF ServedWasSubscribed
  <2>4. CASE Observe(granted')
    BY <2>1, <2>2, <2>4, ObserveStep, ServedKept
  <2>5. QED
    BY <1>3, <2>3, <2>4 DEF DeleteSub, submap
<1>4. ASSUME NEW c \in Client, DeleteSubAll(c)
      PROVE  ServedWasSubscribed'
  <2>1. granted' \in [Filter \X Client -> 0 .. None]
    BY GrantedStep, TypeParts DEF GrantedType
  <2>2. UNCHANGED <<pc, pub, list>>
    BY <1>4 DEF DeleteSubAll, publication
  <2>3. CASE UNCHANGED <<pc, granted, span>>
    BY <2>2, <2>3 DEF ServedWasSubscribed
  <2>4. CASE Observe(granted')
    BY <2>1, <2>2, <2>4, ObserveStep, ServedKept
  <2>5. QED
    BY <1>4, <2>3, <2>4 DEF DeleteSubAll, submap
<1>5. ASSUME NEW f \in finds, FindRetained(f)
      PROVE  ServedWasSubscribed'
  BY <1>5 DEF ServedWasSubscribed, FindRetained, submap, publication
<1>6. ASSUME NEW p \in Publication, Receive(p)
      PROVE  ServedWasSubscribed'
  BY <1>6 DEF ServedWasSubscribed, Receive, submap, publication
<1>7. ASSUME NEW p \in Publication, MatchTopic(p)
      PROVE  ServedWasSubscribed'
  <2>1. \A q \in Publication : q # p => span'[q] = span[q]
    BY <1>7 DEF MatchTopic, Witnessed
  <2>2. \A c \in Client : list[p][c] = None
    BY <1>7 DEF MatchTopic, Listed, Nobody
  <2>3. UNCHANGED <<pub, list>>
    BY <1>7 DEF MatchTopic
  <2>4. QED
    BY <2>1, <2>2, <2>3 DEF ServedWasSubscribed
<1>8. ASSUME NEW p \in Publication, Hand(p)
      PROVE  ServedWasSubscribed'
  <2>1. /\ pub' = pub
        /\ \A q \in Publication : q # p => span'[q] = span[q] /\ list'[q] = list[q]
    BY <1>8 DEF Hand, Witnessed, TypeOK
  <2>2. \A c \in Client : list'[p][c] = None
    BY <1>8 DEF Hand, Nobody, TypeOK
  <2>3. ASSUME NEW q \in Publication, NEW c \in Client, list'[q][c] # None
        PROVE  \E sub \in Filter :
                 /\ NoNUL(sub) => Match(sub, pub'[q].topic)
                 /\ \E qos \in span'[q][<<sub, c>>] \ {None} :
                      list'[q][c] = calcMinQos(qos, pub'[q].qos)
    <3>1. q # p
      BY <2>2, <2>3
    <3>2. QED
      BY <2>1, <2>3, <3>1 DEF ServedWasSubscribed
  <2>4. QED
    BY <2>3 DEF ServedWasSubscribed
<1>9. ASSUME NEW p \in Publication, NEW sub \in Filter, Collect(p, sub)
      PROVE  ServedWasSubscribed'
  <2>1. /\ list' = [list EXCEPT ![p] = Collected(p, sub)] /\ pc[p] = "collect"
        /\ sub \in todo[p] /\ UNCHANGED <<pub, span>>
    BY <1>9 DEF Collect
  <2>2. \A q \in Publication : list'[q] = IF q = p THEN Collected(p, sub) ELSE list[q]
    BY <2>1 DEF TypeOK
  <2>3. ASSUME NEW c \in Client, list'[p][c] # None
        PROVE  \E s \in Filter :
                 /\ NoNUL(s) => Match(s, pub[p].topic)
                 /\ \E qos \in span[p][<<s, c>>] \ {None} :
                      list'[p][c] = calcMinQos(qos, pub[p].qos)
    <3>1. list'[p][c] = Collected(p, sub)[c]
      BY <2>2
    <3>2. CASE list'[p][c] = list[p][c]
      BY <2>3, <3>2 DEF ServedWasSubscribed
    <3>3. CASE list'[p][c] # list[p][c]
      <4>1. GrantedType /\ PhaseType /\ ListType
        BY TypeParts
      <4>2. /\ granted[<<sub, c>>] # None
            /\ list'[p][c] = calcMinQos(granted[<<sub, c>>], pub[p].qos)
        BY <3>1, <3>3, <4>1, CollectedIs DEF Listed
      <4>3. granted[<<sub, c>>] \in span[p][<<sub, c>>]
            /\ (NoNUL(sub) => Match(sub, pub[p].topic))
        BY <2>1 DEF Witnessed, Searched
      <4>4. QED
        BY <4>2, <4>3
    <3>4. QED
      BY <3>2, <3>3
  <2>4. \A q \in Publication : q # p => list'[q] = list[q]
    BY <2>2
  <2>5. QED
    BY <2>1, <2>3, <2>4 DEF ServedWasSubscribed
<1>10. CASE MapRace
  BY <1>10 DEF ServedWasSubscribed, MapRace, submap, publication
<1>11. QED
  BY <1>1, <1>2, <1>3, <1>4, <1>5, <1>6, <1>7, <1>8, <1>9, <1>10 DEF Next

-----------------------------------------------------------------------------
(* What a delivery finds, and what it misses.                              *)

\* A search that leaves the bitmap has an end mark to blame.
LEMMA StaysStep ==
  ASSUME TypeOK, OverrunNeedsEndMark, [Next]_vars
  PROVE  OverrunNeedsEndMark'
<1>1. CASE UNCHANGED vars
  BY <1>1 DEF OverrunNeedsEndMark, vars, submap, publication
<1>2. ASSUME NEW c \in Client, NEW sub \in Filter, NEW qos \in Asked,
             AddSub(c, sub, qos)
      PROVE  OverrunNeedsEndMark'
  BY <1>2 DEF OverrunNeedsEndMark, AddSub, submap, publication
<1>3. ASSUME NEW c \in Client, NEW sub \in Filter, DeleteSub(c, sub)
      PROVE  OverrunNeedsEndMark'
  BY <1>3 DEF OverrunNeedsEndMark, DeleteSub, submap, publication
<1>4. ASSUME NEW c \in Client, DeleteSubAll(c)
      PROVE  OverrunNeedsEndMark'
  BY <1>4 DEF OverrunNeedsEndMark, DeleteSubAll, submap, publication
<1>5. ASSUME NEW f \in finds, FindRetained(f)
      PROVE  OverrunNeedsEndMark'
  BY <1>5 DEF OverrunNeedsEndMark, FindRetained, submap, publication
<1>6. ASSUME NEW p \in Publication, Receive(p)
      PROVE  OverrunNeedsEndMark'
  BY <1>6 DEF OverrunNeedsEndMark, Receive, submap, publication
<1>7. ASSUME NEW p \in Publication, MatchTopic(p)
      PROVE  OverrunNeedsEndMark'
  <2>1. /\ pub[p].topic \in Seq(Element)
        /\ added \subseteq Seq(Element) /\ \A sub \in added : Len(sub) < Levels
    BY Plain DEF TypeOK
  <2>2. CASE Overruns(added, pub[p].topic)
    <3>1. /\ Len(pub[p].topic) >= Levels /\ pub[p].topic[Levels] = NUL
          /\ \E sub \in added : Len(sub) = Levels - 1
      BY <2>1, <2>2, OverrunIs
    <3>2. pc[p] = "match" /\ UNCHANGED <<pc, pub, added>>
      BY <1>7, <2>2 DEF MatchTopic, submap
    <3>3. QED
      BY <3>1, <3>2 DEF OverrunNeedsEndMark
  <2>3. CASE ~Overruns(added, pub[p].topic)
    <3>1. panic' = "none"
      BY <1>7, <2>3 DEF MatchTopic, Up
    <3>2. QED
      BY <3>1 DEF OverrunNeedsEndMark
  <2>4. QED
    BY <2>2, <2>3
<1>8. ASSUME NEW p \in Publication, Hand(p)
      PROVE  OverrunNeedsEndMark'
  BY <1>8 DEF OverrunNeedsEndMark, Hand, submap, publication
<1>9. ASSUME NEW p \in Publication, NEW sub \in Filter, Collect(p, sub)
      PROVE  OverrunNeedsEndMark'
  BY <1>9 DEF OverrunNeedsEndMark, Collect, submap, publication
<1>10. CASE MapRace
  BY <1>10 DEF OverrunNeedsEndMark, MapRace, submap, publication
<1>11. QED
  BY <1>1, <1>2, <1>3, <1>4, <1>5, <1>6, <1>7, <1>8, <1>9, <1>10 DEF Next

\* A search finds every subscription that was added and reaches the topic.
LEMMA FoundWhole ==
  ASSUME NEW p \in Publication, pub[p] \in Publish, NEW sub \in added,
         added \subseteq Filter, Reaches(sub, pub[p].topic)
  PROVE  sub \in Search(added, pub[p].topic)
<1>1. /\ sub \in Seq(Element) /\ pub[p].topic \in Seq(Element) /\ pub[p].topic # <<>>
      /\ NoNUL(pub[p].topic) /\ NoHash(pub[p].topic)
  BY Plain DEF Reaches
<1>2. QED
  BY <1>1, SearchComplete DEF Reaches

\* What a history has it keeps.
LEMMA ReadingKept ==
  ASSUME Reading, UNCHANGED <<pc, pub, list, todo>>,
         \A p \in Publication : pc[p] = "collect" =>
           \A sc \in Filter \X Client : span[p][sc] \subseteq span'[p][sc]
  PROVE  Reading'
<1>1. ASSUME NEW p \in Publication, NEW c \in Client, NEW sub \in Filter,
             pc[p] = "collect", Reaches(sub, pub[p].topic),
             None \notin span'[p][<<sub, c>>]
      PROVE  \/ sub \in todo[p]
             \/ /\ list[p][c] # None
                /\ \E qos \in span'[p][<<sub, c>>] :
                     list[p][c] >= calcMinQos(qos, pub[p].qos)
  <2>1. span[p][<<sub, c>>] \subseteq span'[p][<<sub, c>>]
    BY <1>1
  <2>2. QED
    BY <1>1, <2>1 DEF Reading
<1>2. QED
  BY <1>1 DEF Reading

\* A subscription that stays is read.
LEMMA ReadingStep ==
  ASSUME TypeOK, Listed, Witnessed, Reading, [Next]_vars
  PROVE  Reading'
<1>1. CASE UNCHANGED vars
  BY <1>1 DEF Reading, vars, submap, publication
<1>2. ASSUME NEW c \in Client, NEW sub \in Filter, NEW qos \in Asked,
             AddSub(c, sub, qos)
      PROVE  Reading'
  <2>1. granted' \in [Filter \X Client -> 0 .. None]
    BY GrantedStep, TypeParts DEF GrantedType
  <2>2. UNCHANGED <<pc, pub, list, todo>>
    BY <1>2 DEF AddSub, publication
  <2>3. CASE UNCHANGED <<granted, span>>
    BY <2>2, <2>3 DEF Reading
  <2>4. CASE Observe(granted')
    BY <2>1, <2>2, <2>4, ObserveStep, ReadingKept
  <2>5. QED
    BY <1>2, <2>3, <2>4 DEF AddSub, submap
<1>3. ASSUME NEW c \in Client, NEW sub \in Filter, DeleteSub(c, sub)
      PROVE  Reading'
  <2>1. granted' \in [Filter \X Client -> 0 .. None]
    BY GrantedStep, TypeParts DEF GrantedType
  <2>2. UNCHANGED <<pc, pub, list, todo>>
    BY <1>3 DEF DeleteSub, publication
  <2>3. CASE UNCHANGED <<granted, span>>
    BY <2>2, <2>3 DEF Reading
  <2>4. CASE Observe(granted')
    BY <2>1, <2>2, <2>4, ObserveStep, ReadingKept
  <2>5. QED
    BY <1>3, <2>3, <2>4 DEF DeleteSub, submap
<1>4. ASSUME NEW c \in Client, DeleteSubAll(c)
      PROVE  Reading'
  <2>1. granted' \in [Filter \X Client -> 0 .. None]
    BY GrantedStep, TypeParts DEF GrantedType
  <2>2. UNCHANGED <<pc, pub, list, todo>>
    BY <1>4 DEF DeleteSubAll, publication
  <2>3. CASE UNCHANGED <<granted, span>>
    BY <2>2, <2>3 DEF Reading
  <2>4. CASE Observe(granted')
    BY <2>1, <2>2, <2>4, ObserveStep, ReadingKept
  <2>5. QED
    BY <1>4, <2>3, <2>4 DEF DeleteSubAll, submap
<1>5. ASSUME NEW f \in finds, FindRetained(f)
      PROVE  Reading'
  BY <1>5 DEF Reading, FindRetained, submap, publication
<1>6. ASSUME NEW p \in Publication, Receive(p)
      PROVE  Reading'
  BY <1>6 DEF Reading, Receive, submap, publication
<1>7. ASSUME NEW p \in Publication, MatchTopic(p)
      PROVE  Reading'
  <2>1. CASE Overruns(added, pub[p].topic)
    BY <1>7, <2>1 DEF MatchTopic, Reading, submap
  <2>2. CASE ~Overruns(added, pub[p].topic)
    <3>1. /\ todo' = [todo EXCEPT ![p] = Search(added, pub[p].topic)]
          /\ span' = [span EXCEPT ![p] = [sc \in Filter \X Client |-> {granted[sc]}]]
          /\ pc' = [pc EXCEPT ![p] = "collect"]
          /\ UNCHANGED <<pub, list>>
      BY <1>7, <2>2 DEF MatchTopic
    <3>2. ASSUME NEW c \in Client, NEW sub \in Filter, Reaches(sub, pub[p].topic),
                 None \notin span'[p][<<sub, c>>]
          PROVE  sub \in todo'[p]
      <4>1. granted[<<sub, c>>] # None
        BY <3>1, <3>2 DEF Witnessed
      <4>2. sub \in added
        BY <4>1 DEF TypeOK
      <4>3. sub \in Search(added, pub[p].topic)
        BY <3>2, <4>2, FoundWhole DEF TypeOK
      <4>4. QED
        BY <3>1, <4>3 DEF TypeOK
    <3>3. \A q \in Publication : q # p =>
            /\ todo'[q] = todo[q] /\ pc'[q] = pc[q] /\ span'[q] = span[q]
      BY <3>1 DEF TypeOK, Witnessed
    <3>4. QED
      BY <3>1, <3>2, <3>3 DEF Reading
  <2>3. QED
    BY <2>1, <2>2
<1>8. ASSUME NEW p \in Publication, Hand(p)
      PROVE  Reading'
  <2>1. /\ UNCHANGED <<pub, todo>> /\ pc'[p] = "done"
        /\ \A q \in Publication : q # p =>
             span'[q] = span[q] /\ list'[q] = list[q] /\ pc'[q] = pc[q]
    BY <1>8 DEF Hand, Witnessed, TypeOK
  <2>2. QED
    BY <2>1 DEF Reading
<1>9. ASSUME NEW p \in Publication, NEW sub \in Filter, Collect(p, sub)
      PROVE  Reading'
  <2>1. /\ list' = [list EXCEPT ![p] = Collected(p, sub)] /\ pc[p] = "collect"
        /\ todo' = [todo EXCEPT ![p] = @ \ {sub}] /\ UNCHANGED <<pub, span, pc>>
    BY <1>9 DEF Collect
  <2>2. /\ list'[p] = Collected(p, sub) /\ todo'[p] = todo[p] \ {sub}
        /\ \A q \in Publication : q # p => list'[q] = list[q] /\ todo'[q] = todo[q]
    BY <2>1 DEF TypeOK
  <2>3. ASSUME NEW c \in Client, NEW s \in Filter, Reaches(s, pub[p].topic),
               None \notin span[p][<<s, c>>]
        PROVE  \/ s \in todo'[p]
               \/ /\ list'[p][c] # None
                  /\ \E qos \in span[p][<<s, c>>] :
                       list'[p][c] >= calcMinQos(qos, pub[p].qos)
    <3>1. GrantedType /\ PhaseType /\ ListType
      BY TypeParts
    <3>2. CASE s = sub
      <4>1. granted[<<s, c>>] \in span[p][<<s, c>>]
        BY <2>1 DEF Witnessed
      <4>2. QED
        BY <2>2, <2>3, <3>1, <3>2, <4>1, CollectedIs
    <3>3. CASE s # sub
      <4>1. CASE s \in todo[p]
        BY <2>2, <3>3, <4>1
      <4>2. CASE s \notin todo[p]
        <5>1. PICK qos \in span[p][<<s, c>>] :
                list[p][c] # None /\ list[p][c] >= calcMinQos(qos, pub[p].qos)
          BY <2>1, <2>3, <4>2 DEF Reading
        <5>2. list'[p][c] # None /\ list'[p][c] >= list[p][c]
          <6>1. list[p][c] <= pub[p].qos
            BY <5>1 DEF Listed
          <6>2. CASE granted[<<sub, c>>] = None
            <7>1. list'[p][c] = list[p][c] /\ list[p][c] \in 0 .. None
              BY <2>2, <3>1, <6>2, CollectedIs DEF ListType
            <7>2. QED
              BY <5>1, <7>1 DEF None
          <6>3. CASE granted[<<sub, c>>] # None
            BY <2>2, <3>1, <5>1, <6>1, <6>3, CollectedIs
          <6>4. QED
            BY <6>2, <6>3
        <5>3. /\ qos \in 0 .. None /\ pub[p].qos \in 0 .. None
              /\ list[p][c] \in 0 .. None /\ list'[p][c] \in 0 .. None
          <6>1. qos \in 0 .. None
            BY DEF Witnessed
          <6>2. pub[p].qos \in 0 .. None
            BY <3>1, Plain DEF PhaseType, None
          <6>3. list[p][c] \in 0 .. None
            BY <3>1 DEF ListType
          <6>4. list'[p][c] \in 0 .. None
            BY <2>2, <3>1, CollectedIs
          <6>5. QED
            BY <6>1, <6>2, <6>3, <6>4
        <5>4. list'[p][c] >= calcMinQos(qos, pub[p].qos)
          BY <5>1, <5>2, <5>3, MinMax DEF None
        <5>5. QED
          BY <5>2, <5>4
      <4>3. QED
        BY <4>1, <4>2
    <3>4. QED
      BY <3>2, <3>3
  <2>4. QED
    BY <2>1, <2>2, <2>3 DEF Reading
<1>10. CASE MapRace
  BY <1>10 DEF Reading, MapRace, submap, publication
<1>11. QED
  BY <1>1, <1>2, <1>3, <1>4, <1>5, <1>6, <1>7, <1>8, <1>9, <1>10 DEF Next

\* Who is owed a retained message gets it.
LEMMA OwedStep ==
  ASSUME TypeOK, Listed, Published, Owed, [Next]_vars
  PROVE  Owed'
<1>1. CASE UNCHANGED vars
  BY <1>1 DEF Owed, vars, submap, publication
<1>2. ASSUME NEW c \in Client, NEW sub \in Filter, NEW qos \in Asked,
             AddSub(c, sub, qos)
      PROVE  Owed'
  <2>1. CASE ~Fits(sub)
    BY <1>2, <2>1 DEF AddSub, Owed, submap, publication
  <2>2. CASE Fits(sub)
    <3>1. /\ added' = added \cup {sub}
          /\ granted' = [granted EXCEPT ![<<sub, c>>] = qos]
          /\ finds' = finds \cup
               {[call |-> calls, client |-> c, sub |-> sub, qos |-> qos]}
          /\ UNCHANGED <<retained, got, pc, todo, list>>
      BY <1>2, <2>2 DEF AddSub, publication
    <3>2. ASSUME NEW k \in Client, NEW s \in added', NEW t \in Topic,
                 granted'[<<s, k>>] # None, retained[t] # Nil, Reaches(s, t),
                 ~(s = sub /\ k = c)
          PROVE  s \in added /\ granted[<<s, k>>] # None
      <4>1. <<s, k>> \in Filter \X Client /\ <<sub, c>> \in Filter \X Client
        BY <3>1 DEF TypeOK
      <4>2. <<s, k>> # <<sub, c>>
        BY <3>2
      <4>3. granted[<<s, k>>] # None
        BY <3>1, <3>2, <4>1, <4>2 DEF TypeOK
      <4>4. QED
        BY <4>1, <4>3 DEF TypeOK
    <3>3. \E f \in finds' : f.client = c /\ f.sub = sub
      <4>1. DEFINE f == [call |-> calls, client |-> c, sub |-> sub, qos |-> qos]
      <4>2. f.client = c /\ f.sub = sub
        OBVIOUS
      <4>3. f \in finds'
        BY <3>1
      <4>4. QED
        BY <4>2, <4>3
    <3>4. finds \subseteq finds'
      BY <3>1
    <3>5. ASSUME NEW k \in Client, NEW s \in added', NEW t \in Topic,
                 granted'[<<s, k>>] # None, retained[t] # Nil, Reaches(s, t)
          PROVE  \/ \E qq \in Qos : <<retained[t], qq>> \in got[k]
                 \/ \E f \in finds' : f.client = k /\ f.sub = s
                 \/ pc[retained[t]] = "match"
                 \/ /\ pc[retained[t]] = "collect"
                    /\ s \in todo[retained[t]] \/ list[retained[t]][k] # None
      <4>1. CASE s = sub /\ k = c
        BY <3>3, <4>1
      <4>2. CASE ~(s = sub /\ k = c)
        <5>1. s \in added /\ granted[<<s, k>>] # None
          BY <3>2, <3>5, <4>2
        <5>2. QED
          BY <3>4, <3>5, <5>1 DEF Owed
      <4>3. QED
        BY <4>1, <4>2
    <3>6. QED
      BY <3>1, <3>5 DEF Owed
  <2>3. QED
    BY <2>1, <2>2
<1>3. ASSUME NEW c \in Client, NEW sub \in Filter, DeleteSub(c, sub)
      PROVE  Owed'
  <2>1. \A sc \in Filter \X Client : granted'[sc] # None => granted[sc] # None
    BY <1>3 DEF DeleteSub, TypeOK
  <2>2. UNCHANGED <<added, retained, got, finds, pc, todo, list>>
    BY <1>3 DEF DeleteSub, publication
  <2>3. added \subseteq Filter
    BY DEF TypeOK
  <2>4. QED
    BY <2>1, <2>2, <2>3 DEF Owed
<1>4. ASSUME NEW c \in Client, DeleteSubAll(c)
      PROVE  Owed'
  <2>1. \A sc \in Filter \X Client : granted'[sc] # None => granted[sc] # None
    BY <1>4 DEF DeleteSubAll, TypeOK
  <2>2. UNCHANGED <<added, retained, got, finds, pc, todo, list>>
    BY <1>4 DEF DeleteSubAll, publication
  <2>3. added \subseteq Filter
    BY DEF TypeOK
  <2>4. QED
    BY <2>1, <2>2, <2>3 DEF Owed
<1>5. ASSUME NEW f \in finds, FindRetained(f)
      PROVE  Owed'
  <2>1. /\ finds' = finds \ {f}
        /\ got' = [got EXCEPT ![f.client] = @ \cup
                    {<<p, calcMinQos(pub[p].qos, f.qos)>> : p \in Retained(f.sub)}]
        /\ UNCHANGED <<added, granted, retained, pc, todo, list>>
    BY <1>5 DEF FindRetained, publication
  <2>2. f.client \in Client /\ f.sub \in added /\ f.qos \in Qos
    BY DEF TypeOK
  <2>3. \A c \in Client : got[c] \subseteq got'[c]
    BY <2>1, <2>2 DEF TypeOK
  <2>4. ASSUME NEW t \in Topic, retained[t] # Nil, Reaches(f.sub, t)
        PROVE  \E qos \in Qos : <<retained[t], qos>> \in got'[f.client]
    <3>1. f.sub \in Seq(Element) /\ t \in Seq(Element)
      BY <2>2, Plain DEF TypeOK
    <3>2. HasWildcard(f.sub) \/ t = f.sub
      BY <2>4, <3>1, MatchPlain DEF HasWildcard, Reaches
    <3>3. retained[t] \in Retained(f.sub)
      BY <2>4, <3>2 DEF Retained, Reaches
    <3>4. retained[t] \in Publication
      BY <2>4 DEF TypeOK
    <3>5. calcMinQos(pub[retained[t]].qos, f.qos) \in Qos
      <4>1. pub[retained[t]].qos \in Qos
        BY <3>4, Plain DEF TypeOK, Qos
      <4>2. QED
        BY <2>2, <4>1 DEF calcMinQos
    <3>6. <<retained[t], calcMinQos(pub[retained[t]].qos, f.qos)>> \in got'[f.client]
      BY <2>1, <2>2, <3>3 DEF TypeOK
    <3>7. QED
      BY <3>5, <3>6
  <2>5. ASSUME NEW c \in Client, NEW s \in added, NEW t \in Topic,
               granted[<<s, c>>] # None, retained[t] # Nil, Reaches(s, t)
        PROVE  \/ \E qq \in Qos : <<retained[t], qq>> \in got'[c]
               \/ \E g \in finds' : g.client = c /\ g.sub = s
               \/ pc[retained[t]] = "match"
               \/ /\ pc[retained[t]] = "collect"
                  /\ s \in todo[retained[t]] \/ list[retained[t]][c] # None
    <3>1. CASE f.client = c /\ f.sub = s
      BY <2>4, <2>5, <3>1
    <3>2. CASE ~(f.client = c /\ f.sub = s)
      <4>1. \A g \in finds : g.client = c /\ g.sub = s => g \in finds'
        BY <2>1, <3>2
      <4>2. QED
        BY <2>3, <2>5, <4>1 DEF Owed
    <3>3. QED
      BY <3>1, <3>2
  <2>6. QED
    BY <2>1, <2>5 DEF Owed
<1>6. ASSUME NEW p \in Publication, Receive(p)
      PROVE  Owed'
  <2>1. /\ pc[p] = "idle" /\ pc' = [pc EXCEPT ![p] = "match"]
        /\ retained' = IF pub[p].retain THEN SetRetained(p) ELSE retained
        /\ UNCHANGED <<added, granted, got, finds, todo, list>>
    BY <1>6 DEF Receive, submap, publication
  <2>2. \A t \in Topic : retained'[t] \in {retained[t], Nil, p}
    BY <2>1 DEF SetRetained, TypeOK
  <2>3. pc'[p] = "match" /\ \A q \in Publication : q # p => pc'[q] = pc[q]
    BY <2>1 DEF TypeOK
  <2>4. ASSUME NEW t \in Topic, retained[t] # Nil
        PROVE  retained[t] \in Publication /\ retained[t] # p
    BY <2>1, <2>4 DEF Published, TypeOK
  <2>5. ASSUME NEW c \in Client, NEW s \in added, NEW t \in Topic,
               granted[<<s, c>>] # None, retained'[t] # Nil, Reaches(s, t)
        PROVE  \/ \E qq \in Qos : <<retained'[t], qq>> \in got[c]
               \/ \E f \in finds : f.client = c /\ f.sub = s
               \/ pc'[retained'[t]] = "match"
               \/ /\ pc'[retained'[t]] = "collect"
                  /\ s \in todo[retained'[t]] \/ list[retained'[t]][c] # None
    <3>1. CASE retained'[t] = p
      BY <2>3, <3>1
    <3>2. CASE retained'[t] = retained[t]
      BY <2>3, <2>4, <2>5, <3>2 DEF Owed
    <3>3. QED
      BY <2>2, <2>5, <3>1, <3>2
  <2>6. QED
    BY <2>1, <2>5 DEF Owed
<1>7. ASSUME NEW p \in Publication, MatchTopic(p)
      PROVE  Owed'
  <2>1. CASE Overruns(added, pub[p].topic)
    BY <1>7, <2>1 DEF MatchTopic, Owed, submap
  <2>2. CASE ~Overruns(added, pub[p].topic)
    <3>1. /\ todo' = [todo EXCEPT ![p] = Search(added, pub[p].topic)]
          /\ pc' = [pc EXCEPT ![p] = "collect"] /\ pc[p] = "match"
          /\ UNCHANGED <<added, granted, finds, retained, list, got>>
      BY <1>7, <2>2 DEF MatchTopic, submap
    <3>2. /\ todo'[p] = Search(added, pub[p].topic) /\ pc'[p] = "collect"
          /\ \A q \in Publication : q # p => todo'[q] = todo[q] /\ pc'[q] = pc[q]
      BY <3>1 DEF TypeOK
    <3>3. ASSUME NEW s \in added, NEW t \in Topic, retained[t] = p, p # Nil,
                 Reaches(s, t)
          PROVE  s \in todo'[p]
      <4>1. pub[p].topic = t
        BY <3>3 DEF Published
      <4>2. QED
        <5>1. pub[p] \in Publish /\ added \subseteq Filter
          BY DEF TypeOK
        <5>2. s \in Search(added, pub[p].topic)
          BY <3>3, <4>1, <5>1, FoundWhole
        <5>3. QED
          BY <3>2, <5>2
    <3>4. ASSUME NEW c \in Client, NEW s \in added, NEW t \in Topic,
                 granted[<<s, c>>] # None, retained[t] # Nil, Reaches(s, t)
          PROVE  \/ \E qq \in Qos : <<retained[t], qq>> \in got[c]
                 \/ \E f \in finds : f.client = c /\ f.sub = s
                 \/ pc'[retained[t]] = "match"
                 \/ /\ pc'[retained[t]] = "collect"
                    /\ s \in todo'[retained[t]] \/ list[retained[t]][c] # None
      <4>1. CASE retained[t] = p
        BY <3>2, <3>3, <3>4, <4>1
      <4>2. CASE retained[t] # p
        <5>1. retained[t] \in Publication
          BY <3>4 DEF TypeOK
        <5>2. QED
          BY <3>2, <3>4, <4>2, <5>1 DEF Owed
      <4>3. QED
        BY <4>1, <4>2
    <3>5. QED
      BY <3>1, <3>4 DEF Owed
  <2>3. QED
    BY <2>1, <2>2
<1>8. ASSUME NEW p \in Publication, Hand(p)
      PROVE  Owed'
  <2>1. /\ todo[p] = {} /\ pc[p] = "collect"
        /\ got' = [c \in Client |-> IF list[p][c] = None THEN got[c]
                                      ELSE got[c] \cup {<<p, list[p][c]>>}]
        /\ pc' = [pc EXCEPT ![p] = "done"] /\ list' = [list EXCEPT ![p] = Nobody]
        /\ UNCHANGED <<added, granted, finds, retained, todo>>
    BY <1>8 DEF Hand, submap
  <2>2. \A q \in Publication : q # p => list'[q] = list[q] /\ pc'[q] = pc[q]
    BY <2>1 DEF TypeOK
  <2>3. ASSUME NEW c \in Client
        PROVE  /\ got[c] \subseteq got'[c]
               /\ list[p][c] # None => \E qq \in Qos : <<p, qq>> \in got'[c]
    <3>1. list[p][c] # None => list[p][c] \in Qos
      BY DEF TypeOK, Qos, None
    <3>2. QED
      BY <2>1, <3>1
  <2>4. ASSUME NEW c \in Client, NEW s \in added, NEW t \in Topic,
               granted[<<s, c>>] # None, retained[t] # Nil, Reaches(s, t)
        PROVE  \/ \E qq \in Qos : <<retained[t], qq>> \in got'[c]
               \/ \E f \in finds : f.client = c /\ f.sub = s
               \/ pc'[retained[t]] = "match"
               \/ /\ pc'[retained[t]] = "collect"
                  /\ s \in todo[retained[t]] \/ list'[retained[t]][c] # None
    <3>1. retained[t] \in Publication
      BY <2>4 DEF TypeOK
    <3>2. \/ \E qq \in Qos : <<retained[t], qq>> \in got[c]
          \/ \E f \in finds : f.client = c /\ f.sub = s
          \/ pc[retained[t]] = "match"
          \/ /\ pc[retained[t]] = "collect"
             /\ s \in todo[retained[t]] \/ list[retained[t]][c] # None
      BY <2>4 DEF Owed
    <3>3. CASE retained[t] = p
      <4>1. todo[p] = {} /\ pc[p] = "collect"
        BY <2>1
      <4>2. QED
        BY <2>3, <3>2, <3>3, <4>1
    <3>4. CASE retained[t] # p
      BY <2>2, <2>3, <3>1, <3>2, <3>4
    <3>5. QED
      BY <3>3, <3>4
  <2>5. UNCHANGED <<added, granted, finds, retained, todo>>
    BY <2>1
  <2>6. QED
    BY <2>4, <2>5 DEF Owed
<1>9. ASSUME NEW p \in Publication, NEW sub \in Filter, Collect(p, sub)
      PROVE  Owed'
  <2>1. /\ list' = [list EXCEPT ![p] = Collected(p, sub)]
        /\ todo' = [todo EXCEPT ![p] = @ \ {sub}]
        /\ UNCHANGED <<added, granted, finds, retained, got, pc>>
    BY <1>9 DEF Collect, submap
  <2>2. /\ list'[p] = Collected(p, sub) /\ todo'[p] = todo[p] \ {sub}
        /\ \A q \in Publication : q # p => list'[q] = list[q] /\ todo'[q] = todo[q]
    BY <2>1 DEF TypeOK
  <2>3. ASSUME NEW c \in Client, NEW s \in added, granted[<<s, c>>] # None,
               s \in todo[p] \/ list[p][c] # None
        PROVE  s \in todo'[p] \/ list'[p][c] # None
    <3>1. GrantedType /\ PhaseType /\ ListType
      BY TypeParts
    <3>2. CASE s = sub /\ s \in todo[p]
      BY <2>2, <2>3, <3>1, <3>2, CollectedIs
    <3>3. CASE list[p][c] # None
      <4>1. CASE granted[<<sub, c>>] = None
        BY <2>2, <3>1, <3>3, <4>1, CollectedIs
      <4>2. CASE granted[<<sub, c>>] # None
        BY <2>2, <3>1, <3>3, <4>2, CollectedIs
      <4>3. QED
        BY <4>1, <4>2
    <3>4. CASE s # sub /\ s \in todo[p]
      BY <2>2, <3>4
    <3>5. QED
      BY <2>3, <3>2, <3>3, <3>4
  <2>4. ASSUME NEW c \in Client, NEW s \in added, NEW t \in Topic,
               granted[<<s, c>>] # None, retained[t] # Nil, Reaches(s, t)
        PROVE  \/ \E qq \in Qos : <<retained[t], qq>> \in got[c]
               \/ \E f \in finds : f.client = c /\ f.sub = s
               \/ pc[retained[t]] = "match"
               \/ /\ pc[retained[t]] = "collect"
                  /\ s \in todo'[retained[t]] \/ list'[retained[t]][c] # None
    <3>1. retained[t] \in Publication
      BY <2>4 DEF TypeOK
    <3>2. CASE retained[t] = p
      BY <2>3, <2>4, <3>2 DEF Owed
    <3>3. CASE retained[t] # p
      BY <2>2, <2>4, <3>1, <3>3 DEF Owed
    <3>4. QED
      BY <3>2, <3>3
  <2>5. QED
    BY <2>1, <2>4 DEF Owed
<1>10. CASE MapRace
  BY <1>10 DEF Owed, MapRace, submap, publication
<1>11. QED
  BY <1>1, <1>2, <1>3, <1>4, <1>5, <1>6, <1>7, <1>8, <1>9, <1>10 DEF Next

-----------------------------------------------------------------------------
(* The theorems.                                                           *)

\* The invariant holds at first, and every step keeps it.
LEMMA InitInv == Init => Inv
<1> SUFFICES ASSUME Init
             PROVE  Inv
  OBVIOUS
<1>1. /\ added = {} /\ granted = [sc \in Filter \X Client |-> None]
      /\ retained = [t \in Topic |-> Nil] /\ finds = {} /\ calls = 0
      /\ pub \in [Publication -> Publish] /\ pc = [p \in Publication |-> "idle"]
      /\ todo = [p \in Publication |-> {}] /\ list = [p \in Publication |-> Nobody]
      /\ got = [c \in Client |-> {}] /\ panic = "none"
      /\ span = [p \in Publication |-> Unobserved]
  BY DEF Init
<1>2. GrantedType /\ FindsType /\ RetainedType /\ PhaseType /\ TodoType /\ GotType
  BY <1>1 DEF GrantedType, FindsType, RetainedType, PhaseType, TodoType, GotType, None
<1>3. ListType
  BY <1>1, NobodyType DEF ListType
<1>4. Called /\ Listed /\ Published
  BY <1>1, CallAssumption DEF Called, Listed, Published, Nobody
<1>5. Witnessed
  <2>1. Unobserved \in [Filter \X Client -> SUBSET (0 .. None)]
    BY DEF Unobserved
  <2>2. QED
    BY <1>1, <2>1 DEF Witnessed
<1>6. Searched /\ ServedWasSubscribed
  BY <1>1 DEF Searched, ServedWasSubscribed, Nobody
<1>7. OverrunNeedsEndMark /\ Reading /\ Owed
  BY <1>1 DEF OverrunNeedsEndMark, Reading, Owed
<1>8. QED
  BY <1>2, <1>3, <1>4, <1>5, <1>6, <1>7, TypeParts DEF Inv

LEMMA InvNext == Inv /\ [Next]_vars => Inv'
<1> SUFFICES ASSUME Inv, [Next]_vars
             PROVE  Inv'
  OBVIOUS
<1>1. TypeOK /\ Called /\ Listed /\ Witnessed /\ Published
  BY DEF Inv
<1>2. TypeOK' /\ Called' /\ Listed' /\ Witnessed' /\ Published'
  BY <1>1, TypeStep, CalledStep, ListedStep, WitnessedStep, PublishedStep
<1>3. Searched' /\ ServedWasSubscribed'
  BY <1>1, SearchedStep, ServedStep DEF Inv
<1>4. OverrunNeedsEndMark' /\ Reading' /\ Owed'
  BY <1>1, StaysStep, ReadingStep, OwedStep DEF Inv
<1>5. QED
  BY <1>2, <1>3, <1>4 DEF Inv

\* Inv holds in every state (router.go).
THEOREM Invariance == Spec => []Inv
<1>1. QED
  BY InitInv, InvNext, PTL DEF Spec

\* The state has its shape, for all strings in subscriptions and topics
\* (router.go:9-15).
THEOREM TypeCorrect == Spec => []TypeOK
<1>1. Inv => TypeOK
  BY DEF Inv
<1>2. QED
  BY <1>1, Invariance, PTL

\* The bitmap search finds what match accepts, but for "a/#" and the topic "a":
\* for all subscriptions, and all topics made of the names of plain ones
\* (router.go:43-67, 146-186).
THEOREM SearchIsMatch ==
  ASSUME NEW topic \in Seq(Element), topic # <<>>, NoNUL(topic), NoHash(topic),
         NEW subs, subs \subseteq Seq(Element)
  PROVE  {sub \in Search(subs, topic) : NoNUL(sub)} =
           {sub \in subs : NoNUL(sub) /\ Match(sub, topic) /\ ~ParentOf(topic, sub)}
<1>1. \A sub \in Search(subs, topic) :
        NoNUL(sub) => sub \in subs /\ Match(sub, topic) /\ ~ParentOf(topic, sub)
  BY SearchStays, SearchSound
<1>2. \A sub \in subs : Match(sub, topic) /\ ~ParentOf(topic, sub)
                          => sub \in Search(subs, topic)
  BY SearchComplete
<1>3. QED
  BY <1>1, <1>2

\* So it is in every state, for the subscriptions added and all others there
\* could be (router.go:43-67, 146-186).
THEOREM SearchIsRight == Spec => []SearchAgrees
<1>1. /\ Name \subseteq Element \ {"#", NUL} /\ Levels \in Nat
      /\ Name \cup {"+", "#"} \subseteq Element
  <2>1. ASSUME NEW e \in Name
        PROVE  e \in Element /\ e \notin {"#", NUL}
    <3>1. PICK t \in Topic : e \in {t[i] : i \in 1 .. Len(t)}
      BY DEF Name
    <3>2. PICK i \in 1 .. Len(t) : e = t[i]
      BY <3>1
    <3>3. t \in Seq(Element)
      BY Plain
    <3>4. e \in Element
      BY <3>2, <3>3
    <3>5. QED
      BY <3>4 DEF Name
  <2>2. Levels \in Nat
    BY LevelsAssumption
  <2>3. "+" \in Element /\ "#" \in Element
    BY DEF Element
  <2>4. QED
    BY <2>1, <2>2, <2>3
<1>2. ASSUME NEW names, NEW t \in Strings(names, Levels), names \subseteq Element
      PROVE  t \in Seq(Element) /\ t # <<>> /\ \A i \in 1 .. Len(t) : t[i] \in names
  <2>1. PICK k \in 1 .. Levels : t \in [1 .. k -> names]
    BY DEF Strings
  <2>2. k \in Nat /\ k >= 1 /\ t \in [1 .. k -> Element]
    <3>1. \A i \in 1 .. k : t[i] \in Element
      BY <1>2, <2>1
    <3>2. t = [i \in 1 .. k |-> t[i]] /\ k \in Nat /\ k >= 1
      BY <1>1, <2>1
    <3>3. QED
      BY <3>1, <3>2
  <2>3. t \in Seq(Element) /\ Len(t) = k
    BY <2>2
  <2>4. QED
    BY <2>1, <2>2, <2>3
<1>3. ASSUME TypeOK
      PROVE  SearchAgrees
  <2> DEFINE subs == added \cup Strings(Name \cup {"+", "#"}, Levels)
  <2>1. ASSUME NEW sub \in subs
        PROVE  sub \in Seq(Element)
    <3>1. CASE sub \in added
      BY <1>3, <3>1, Plain DEF TypeOK
    <3>2. CASE sub \in Strings(Name \cup {"+", "#"}, Levels)
      BY <1>1, <1>2, <3>2
    <3>3. QED
      BY <3>1, <3>2
  <2>2. ASSUME NEW t \in Strings(Name, Levels)
        PROVE  t \in Seq(Element) /\ t # <<>> /\ NoNUL(t) /\ NoHash(t)
    BY <1>1, <1>2 DEF NoNUL, NoHash
  <2>3. ASSUME NEW t \in Strings(Name, Levels)
        PROVE  {sub \in Search(subs, t) : NoNUL(sub)} =
                 {sub \in subs : NoNUL(sub) /\ Match(sub, t) /\ ~ParentOf(t, sub)}
    <3> HIDE DEF subs
    <3>1. subs \subseteq Seq(Element)
      BY <2>1
    <3>2. QED
      BY <2>2, <3>1, SearchIsMatch
  <2>4. QED
    BY <2>3, Zenon DEF SearchAgrees
<1>4. QED
  BY <1>3, TypeCorrect, PTL

\* Only a topic with an end mark on the bitmap's last level takes the search
\* past it, for all strings (router.go:119-120, 152-185).
THEOREM OverrunIsMarked == Spec => []OverrunNeedsEndMark
<1>1. Inv => OverrunNeedsEndMark
  BY DEF Inv
<1>2. QED
  BY <1>1, Invariance, PTL

\* Nobody is delivered to without a subscription it had since the search, nor
\* with another QoS (router.go:192-200).
THEOREM ServedRightly == Spec => []ServedWasSubscribed
<1>1. Inv => ServedWasSubscribed
  BY DEF Inv
<1>2. QED
  BY <1>1, Invariance, PTL

\* Nobody who stays subscribed is left out (router.go:146-200).
THEOREM SteadyServed == Spec => []SteadyIsServed
<1>1. Inv => SteadyIsServed
  BY DEF Inv, Reading, SteadyIsServed
<1>2. QED
  BY <1>1, Invariance, PTL

\* No subscriber misses a retained message (client.go:282-286, router.go:109-126).
THEOREM NoneMissed == Spec => []RetainedNotMissed
<1>1. ASSUME Inv, Quiet, NEW c \in Client, NEW sub \in added, NEW t \in Topic,
             granted[<<sub, c>>] # None, retained[t] # Nil, Reaches(sub, t)
      PROVE  \E qos \in Qos : <<retained[t], qos>> \in got[c]
  <2>1. retained[t] \in Publication
    BY <1>1 DEF Inv, TypeOK
  <2>2. pc[retained[t]] \in {"idle", "done"} /\ finds = {}
    BY <1>1, <2>1 DEF Quiet
  <2>3. Owed
    BY <1>1 DEF Inv
  <2>4. QED
    BY <1>1, <2>2, <2>3 DEF Owed
<1>2. Inv => RetainedNotMissed
  BY <1>1 DEF RetainedNotMissed
<1>3. QED
  BY <1>2, Invariance, PTL
=============================================================================
