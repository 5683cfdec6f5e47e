-------------------------- MODULE TopicMatchProofs --------------------------
(***************************************************************************)
(* What match and the bitmap search compute, for every subscription and    *)
(* topic.  Both are recursive functions, of which a proof knows only the   *)
(* equation they are CHOSEn by: each is shown to be a form without         *)
(* recursion, which solves that equation and is its only solution.         *)
(***************************************************************************)
EXTENDS TopicMatch, WellFoundedInduction, TLAPS

\* The strings, by a name that says of these that they are.
Element == STRING \cup {"+", "#"}

\* Elements take in the strings.
LEMMA StringsAreElements == Seq(STRING) \subseteq Seq(Element)
<1>1. STRING \subseteq Element
  BY DEF Element
<1>2. ASSUME NEW s \in Seq(STRING)
      PROVE  s \in Seq(Element)
  <2>1. /\ Len(s) \in Nat /\ s = [i \in 1 .. Len(s) |-> s[i]]
        /\ \A i \in 1 .. Len(s) : s[i] \in STRING
    OBVIOUS
  <2>2. \A i \in 1 .. Len(s) : s[i] \in Element
    BY <1>1, <2>1
  <2>3. QED
    BY <2>1, <2>2
<1>3. QED
  BY <1>2

-----------------------------------------------------------------------------
(* Induction over a range of numbers, as a fact about sets.                *)

\* A set of numbers has a least one.
LEMMA LeastNumber ==
  ASSUME NEW S, S \subseteq Nat, S # {}
  PROVE  \E i \in S : \A j \in S : i <= j
<1>1. PICK i \in S : \A j \in S : ~(<<j, i>> \in OpToRel(<, Nat))
  BY WFMin, NatLessThanWellFounded, Zenon
<1>2. \A j \in S : ~(j < i)
  BY <1>1 DEF OpToRel
<1>3. QED
  BY <1>2

\* What holds of 1 and of the successor of what it holds of, holds up to n.
LEMMA Climb ==
  ASSUME NEW n \in Nat, NEW T, 1 \in T, \A i \in T : i \in 1 .. n - 1 => i + 1 \in T
  PROVE  1 .. n \subseteq T
<1> DEFINE S == {i \in 1 .. n : i \notin T}
<1>1. SUFFICES ASSUME S # {} PROVE FALSE
  OBVIOUS
<1>2. PICK i \in S : \A j \in S : i <= j
  <2>1. S \subseteq Nat
    OBVIOUS
  <2>2. QED
    BY <1>1, <2>1, LeastNumber, Zenon
<1>3. i # 1 /\ i - 1 \in 1 .. n - 1 /\ i - 1 \notin S
  BY <1>2
<1>4. QED
  BY <1>3

\* What holds of n and of the predecessor of what it holds of, down to 1.
LEMMA Descend ==
  ASSUME NEW n \in Nat, NEW T, n \in T, \A i \in T : i \in 2 .. n => i - 1 \in T
  PROVE  1 .. n \subseteq T
<1> DEFINE S == {i \in Nat : n - i \in 1 .. n /\ n - i \notin T}
<1>1. SUFFICES ASSUME NEW k \in 1 .. n, k \notin T PROVE FALSE
  OBVIOUS
<1>2. n - k \in S
  <2>1. n - k \in Nat /\ n - (n - k) = k
    OBVIOUS
  <2>2. QED
    BY <1>1, <2>1
<1>3. PICK i \in S : \A j \in S : i <= j
  <2>1. S \subseteq Nat /\ S # {}
    BY <1>2
  <2>2. QED
    BY <2>1, LeastNumber, Zenon
<1>4. i # 0 /\ i - 1 \in Nat /\ n - (i - 1) = (n - i) + 1
  BY <1>3
<1>5. n - (i - 1) \in 2 .. n /\ n - (i - 1) \in T
  BY <1>3, <1>4
<1>6. QED
  BY <1>3, <1>4, <1>5

-----------------------------------------------------------------------------
(* match.                                                                  *)

\* The element of a subscription takes that of the topic.
Takes(route, topic, j) == j <= Len(topic) /\ route[j] \in {"+", topic[j]}

\* From element i on, the subscription takes the topic up to a "#", or whole.
MatchesFrom(route, topic, i) ==
  \/ \E k \in i .. Len(route) :
       route[k] = "#" /\ \A j \in i .. k - 1 : Takes(route, topic, j)
  \/ /\ Len(topic) <= Len(route)
     /\ \A j \in i .. Len(route) : Takes(route, topic, j)

\* The body of from in Match.
MatchStep(from, route, topic, i) ==
  IF i > Len(route)
    THEN i > Len(topic)
    ELSE \/ route[i] = "#"
         \/ i <= Len(topic) /\ route[i] \in {"+", topic[i]} /\ from[i + 1]

IsMatch(from, route, topic) ==
  from = [i \in 1 .. Len(route) + 1 |-> MatchStep(from, route, topic, i)]

\* One step of the recursion from the end.
LEMMA MatchesStep ==
  ASSUME NEW route \in Seq(Element), NEW topic \in Seq(Element),
         NEW i \in 1 .. Len(route)
  PROVE  MatchesFrom(route, topic, i) <=>
           \/ route[i] = "#"
           \/ Takes(route, topic, i) /\ MatchesFrom(route, topic, i + 1)
<1>1. CASE route[i] = "#"
  <2>1. i \in i .. Len(route) /\ \A j \in i .. i - 1 : FALSE
    OBVIOUS
  <2>2. QED
    BY <1>1, <2>1 DEF MatchesFrom
<1>2. CASE route[i] # "#" /\ Takes(route, topic, i)
  <2>1. \A k \in i .. Len(route) : route[k] = "#" => k \in i + 1 .. Len(route)
    BY <1>2
  <2>2. \A k \in i + 1 .. Len(route) :
          (\A j \in i .. k - 1 : Takes(route, topic, j))
            <=> (\A j \in i + 1 .. k - 1 : Takes(route, topic, j))
    BY <1>2
  <2>3. (\A j \in i .. Len(route) : Takes(route, topic, j))
          <=> (\A j \in i + 1 .. Len(route) : Takes(route, topic, j))
    BY <1>2
  <2>4. \A k \in i + 1 .. Len(route) : k \in i .. Len(route)
    OBVIOUS
  <2>5. QED
    BY <1>2, <2>1, <2>2, <2>3, <2>4, Zenon DEF MatchesFrom
<1>3. CASE route[i] # "#" /\ ~Takes(route, topic, i)
  <2>1. \A k \in i .. Len(route) : route[k] = "#" => i \in i .. k - 1
    BY <1>3
  <2>2. i \in i .. Len(route)
    OBVIOUS
  <2>3. QED
    BY <1>3, <2>1, <2>2 DEF MatchesFrom
<1>4. QED
  BY <1>1, <1>2, <1>3

\* After its last element a subscription takes only the topic that has ended.
LEMMA MatchesEnd ==
  ASSUME NEW route \in Seq(Element), NEW topic \in Seq(Element)
  PROVE  MatchesFrom(route, topic, Len(route) + 1) <=> Len(route) + 1 > Len(topic)
BY DEF MatchesFrom

\* match is the form without recursion.
LEMMA MatchIs ==
  ASSUME NEW route \in Seq(Element), NEW topic \in Seq(Element)
  PROVE  Match(route, topic) <=> MatchesFrom(route, topic, 1)
<1> DEFINE g == [i \in 1 .. Len(route) + 1 |-> MatchesFrom(route, topic, i)]
           n == Len(route) + 1
           from == CHOOSE f : IsMatch(f, route, topic)
<1>1. n \in Nat /\ 1 \in 1 .. n /\ n \in 1 .. n
  OBVIOUS
<1>2. \A i \in 1 .. n :
        MatchesFrom(route, topic, i) = MatchStep(g, route, topic, i)
  <2>1. TAKE i \in 1 .. n
  <2>2. CASE i = n
    <3>1. MatchesFrom(route, topic, i) <=> i > Len(topic)
      BY <2>2, MatchesEnd
    <3>2. i > Len(route)
      BY <2>2
    <3>3. MatchesFrom(route, topic, i) \in BOOLEAN /\ (i > Len(topic)) \in BOOLEAN
      BY DEF MatchesFrom
    <3>4. QED
      BY <3>1, <3>2, <3>3, Zenon DEF MatchStep
  <2>3. CASE i # n
    <3>1. i \in 1 .. Len(route) /\ i + 1 \in 1 .. n /\ ~(i > Len(route))
      BY <2>3
    <3>2. g[i + 1] = MatchesFrom(route, topic, i + 1)
      BY <3>1
    <3>3. MatchesFrom(route, topic, i) <=>
            \/ route[i] = "#"
            \/ Takes(route, topic, i) /\ MatchesFrom(route, topic, i + 1)
      BY <3>1, MatchesStep
    <3>4. MatchesFrom(route, topic, i) \in BOOLEAN
      BY DEF MatchesFrom
    <3>5. MatchStep(g, route, topic, i) <=>
            \/ route[i] = "#"
            \/ Takes(route, topic, i) /\ g[i + 1]
      BY <3>1, Zenon DEF MatchStep, Takes
    <3>6. QED
      BY <3>1, <3>2, <3>3, <3>4, <3>5, Zenon DEF MatchStep
  <2>4. QED
    BY <2>2, <2>3
<1>3. IsMatch(g, route, topic)
  BY <1>2, Zenon DEF IsMatch
<1>4. IsMatch(from, route, topic)
  BY <1>3, Zenon
<1>5. Match(route, topic) = from[1]
  BY Zenon DEF Match, IsMatch, MatchStep
<1> HIDE DEF from
<1> DEFINE T == {i \in 1 .. n : from[i] <=> MatchesFrom(route, topic, i)}
<1>6. \A i \in 1 .. n : from[i] = MatchStep(from, route, topic, i)
  BY <1>4, Zenon DEF IsMatch
<1>7. n \in T
  <2>1. MatchesFrom(route, topic, n) <=> n > Len(topic)
    BY MatchesEnd, Zenon
  <2>2. n > Len(route)
    OBVIOUS
  <2>3. from[n] <=> n > Len(topic)
    BY <1>1, <1>6, <2>2, Zenon DEF MatchStep
  <2>4. QED
    BY <1>1, <2>1, <2>3, Zenon
<1>8. ASSUME NEW i \in T, i \in 2 .. n
      PROVE  i - 1 \in T
  <2>1. i - 1 \in 1 .. Len(route) /\ i - 1 \in 1 .. n /\ (i - 1) + 1 = i
        /\ ~(i - 1 > Len(route))
    BY <1>8
  <2>2. from[i - 1] = MatchStep(from, route, topic, i - 1)
    BY <2>1, <1>6
  <2>3. from[i - 1] <=>
          \/ route[i - 1] = "#"
          \/ Takes(route, topic, i - 1) /\ from[(i - 1) + 1]
    BY <2>1, <2>2, Zenon DEF MatchStep, Takes
  <2>4. MatchesFrom(route, topic, i - 1) <=>
          \/ route[i - 1] = "#"
          \/ Takes(route, topic, i - 1) /\ MatchesFrom(route, topic, (i - 1) + 1)
    BY <2>1, MatchesStep, Zenon
  <2>5. from[i] <=> MatchesFrom(route, topic, i)
    BY <1>8
  <2>6. QED
    BY <2>1, <2>3, <2>4, <2>5, Zenon
<1>9. 1 .. n \subseteq T
  BY <1>1, <1>7, <1>8, Descend, Zenon
<1>10. QED
  BY <1>1, <1>5, <1>9

-----------------------------------------------------------------------------
(* The bitmap search.                                                      *)

\* The subscriptions that go on at each level up to i, ...
Going(subs, topic, i) ==
  {sub \in subs : \A j \in 1 .. i : sub \in Here(subs, topic, j)}

\* ... and those that went on to a level up to i and have a "#" there.
Caught(subs, topic, i) ==
  {sub \in subs : \E k \in 1 .. i :
     /\ sub \in Hash(subs, topic, k)
     /\ k = 1 \/ sub \notin Here(subs, topic, k)
     /\ \A j \in 1 .. k - 1 : sub \in Here(subs, topic, j)}

\* The body of level in Walk.
WalkStep(level, subs, topic, i) ==
  IF i = 1
    THEN [matches |-> Here(subs, topic, i), hashes |-> Hash(subs, topic, i)]
    ELSE [matches |-> level[i - 1].matches \cap Here(subs, topic, i),
          hashes |-> level[i - 1].hashes
                       \cup ((level[i - 1].matches \cap Hash(subs, topic, i))
                               \ Here(subs, topic, i))]

IsWalk(level, subs, topic) ==
  level = [i \in 1 .. Len(topic) + 1 |-> WalkStep(level, subs, topic, i)]

Walked(subs, topic, i) ==
  [matches |-> Going(subs, topic, i), hashes |-> Caught(subs, topic, i)]

\* The first level, ...
LEMMA WalkedFirst ==
  ASSUME NEW subs, NEW topic, NEW level
  PROVE  Walked(subs, topic, 1) = WalkStep(level, subs, topic, 1)
<1>1. Here(subs, topic, 1) \subseteq subs /\ Hash(subs, topic, 1) \subseteq subs
  BY DEF Here, Hash, Bitmap
<1>2. Going(subs, topic, 1) = Here(subs, topic, 1)
  BY <1>1 DEF Going
<1>3. Caught(subs, topic, 1) = Hash(subs, topic, 1)
  BY <1>1 DEF Caught
<1>4. QED
  BY <1>2, <1>3, Zenon DEF Walked, WalkStep

\* ... and one more.
LEMMA WalkedNext ==
  ASSUME NEW subs, NEW topic, NEW level, NEW i \in Nat, i > 1,
         level[i - 1] = Walked(subs, topic, i - 1)
  PROVE  Walked(subs, topic, i) = WalkStep(level, subs, topic, i)
<1>1. /\ Hash(subs, topic, i) \subseteq subs
      /\ level[i - 1].matches = Going(subs, topic, i - 1)
      /\ level[i - 1].hashes = Caught(subs, topic, i - 1)
  BY DEF Hash, Bitmap, Walked
<1>2. 1 .. i = (1 .. i - 1) \cup {i}
  OBVIOUS
<1>3. Going(subs, topic, i) = Going(subs, topic, i - 1) \cap Here(subs, topic, i)
  BY <1>2 DEF Going
<1>4. Caught(subs, topic, i) =
        Caught(subs, topic, i - 1)
          \cup ((Going(subs, topic, i - 1) \cap Hash(subs, topic, i))
                  \ Here(subs, topic, i))
  BY <1>1, <1>2 DEF Caught, Going
<1>5. WalkStep(level, subs, topic, i) =
        [matches |-> level[i - 1].matches \cap Here(subs, topic, i),
         hashes |-> level[i - 1].hashes
                      \cup ((level[i - 1].matches \cap Hash(subs, topic, i))
                              \ Here(subs, topic, i))]
  BY DEF WalkStep
<1>6. QED
  BY <1>1, <1>3, <1>4, <1>5, Zenon DEF Walked

\* The levels of the search are the form without recursion.
LEMMA WalkIs ==
  ASSUME NEW subs, NEW topic, Len(topic) \in Nat, NEW i \in 1 .. Len(topic) + 1
  PROVE  Walk(subs, topic)[i] = Walked(subs, topic, i)
<1> DEFINE n == Len(topic) + 1
           g == [j \in 1 .. n |-> Walked(subs, topic, j)]
           level == CHOOSE f : IsWalk(f, subs, topic)
<1>1. n \in Nat /\ 1 \in 1 .. n
  OBVIOUS
<1>2. \A j \in 1 .. n : Walked(subs, topic, j) = WalkStep(g, subs, topic, j)
  <2>1. TAKE j \in 1 .. n
  <2>2. CASE j = 1
    BY <2>2, WalkedFirst, Zenon
  <2>3. CASE j # 1
    <3>1. j \in Nat /\ j > 1 /\ j - 1 \in 1 .. n
      BY <2>3
    <3>2. g[j - 1] = Walked(subs, topic, j - 1)
      BY <3>1, Zenon
    <3>3. QED
      BY <3>1, <3>2, WalkedNext, Zenon
  <2>4. QED
    BY <2>2, <2>3
<1>3. IsWalk(g, subs, topic)
  BY <1>2, Zenon DEF IsWalk
<1>4. IsWalk(level, subs, topic)
  BY <1>3, Zenon
<1>5. Walk(subs, topic) = level
  BY Zenon DEF Walk, IsWalk, WalkStep
<1> HIDE DEF level
<1> DEFINE T == {j \in 1 .. n : level[j] = Walked(subs, topic, j)}
<1>6. \A j \in 1 .. n : level[j] = WalkStep(level, subs, topic, j)
  BY <1>4, Zenon DEF IsWalk
<1>7. 1 \in T
  BY <1>1, <1>6, WalkedFirst, Zenon
<1>8. ASSUME NEW j \in T, j \in 1 .. n - 1
      PROVE  j + 1 \in T
  <2>1. j + 1 \in 1 .. n /\ j + 1 \in Nat /\ j + 1 > 1 /\ (j + 1) - 1 = j
    BY <1>8
  <2>2. level[(j + 1) - 1] = Walked(subs, topic, (j + 1) - 1)
    BY <2>1, Zenon
  <2>3. Walked(subs, topic, j + 1) = WalkStep(level, subs, topic, j + 1)
    BY <2>1, <2>2, WalkedNext, Zenon
  <2>4. QED
    BY <1>6, <2>1, <2>3, Zenon
<1>9. 1 .. n \subseteq T
  BY <1>1, <1>7, <1>8, Climb, Zenon
<1>10. QED
  BY <1>5, <1>9, Zenon

-----------------------------------------------------------------------------
(* The two compared.                                                       *)

\* The elements of a string with its end mark.
LEMMA EndedIs ==
  ASSUME NEW s \in Seq(Element)
  PROVE  /\ \A i \in 1 .. Len(s) : Ended(s)[i] = s[i]
         /\ Ended(s)[Len(s) + 1] = NUL
BY DEF Ended, NUL

\* Who goes on at a level of the topic, ...
LEMMA HereIs ==
  ASSUME NEW sub \in Seq(Element), NEW topic \in Seq(Element), NEW subs, sub \in subs,
         NEW i \in 1 .. Len(topic)
  PROVE  sub \in Here(subs, topic, i) <=>
           /\ i <= Len(sub) + 1
           /\ \/ Ended(sub)[i] = topic[i]
              \/ ~(i > 1 /\ topic[i] = NUL) /\ Ended(sub)[i] = "+"
<1>1. Ended(topic)[i] = topic[i]
  BY EndedIs
<1>2. QED
  BY <1>1 DEF Here, Bitmap, Ends

\* ... and at its end.
LEMMA HereEnd ==
  ASSUME NEW sub \in Seq(Element), NEW topic \in Seq(Element), topic # <<>>,
         NEW subs, sub \in subs
  PROVE  sub \in Here(subs, topic, Len(topic) + 1) <=>
           /\ Len(topic) <= Len(sub)
           /\ Ended(sub)[Len(topic) + 1] = NUL
<1>1. Ended(topic)[Len(topic) + 1] = NUL /\ Len(topic) + 1 > 1
  BY EndedIs
<1>2. QED
  BY <1>1 DEF Here, Bitmap, Ends

\* Where a subscription has its "#", if it is asked for.
LEMMA HashIs ==
  ASSUME NEW sub \in Seq(Element), NEW topic \in Seq(Element), topic # <<>>,
         NEW subs, sub \in subs, NEW i \in 1 .. Len(topic) + 1
  PROVE  sub \in Hash(subs, topic, i) <=>
           /\ i \in 1 .. Len(topic) /\ ~(i > 1 /\ topic[i] = NUL)
           /\ i <= Len(sub) /\ sub[i] = "#"
<1>1. /\ i \in 1 .. Len(topic) => Ended(topic)[i] = topic[i]
      /\ i = Len(topic) + 1 => Ended(topic)[i] = NUL /\ i > 1
  BY EndedIs
<1>2. /\ i \in 1 .. Len(sub) => Ended(sub)[i] = sub[i]
      /\ i = Len(sub) + 1 => Ended(sub)[i] = NUL
  BY EndedIs
<1>3. NUL # "#"
  BY DEF NUL
<1>4. QED
  BY <1>1, <1>2, <1>3 DEF Hash, Bitmap, Ends

\* At a level of both that it goes on at, a subscription takes the topic.
LEMMA HereTakes ==
  ASSUME NEW sub \in Seq(Element), NEW topic \in Seq(Element), NEW subs, sub \in subs,
         NEW i \in 1 .. Len(topic), i <= Len(sub)
  PROVE  /\ sub \in Here(subs, topic, i) => Takes(sub, topic, i)
         /\ topic[i] # NUL /\ Takes(sub, topic, i) => sub \in Here(subs, topic, i)
<1>1. Ended(sub)[i] = sub[i]
  BY EndedIs
<1>2. QED
  BY <1>1, HereIs DEF Takes

\* The search gives who was caught and who went on to the end.
LEMMA SearchIs ==
  ASSUME NEW topic \in Seq(Element), NEW subs
  PROVE  Search(subs, topic) =
           Caught(subs, topic, Len(topic) + 1) \cup Going(subs, topic, Len(topic) + 1)
<1>1. Len(topic) \in Nat /\ Len(topic) + 1 \in 1 .. Len(topic) + 1
  OBVIOUS
<1>2. Walk(subs, topic)[Len(topic) + 1] = Walked(subs, topic, Len(topic) + 1)
  BY <1>1, WalkIs, Zenon
<1>3. /\ Walked(subs, topic, Len(topic) + 1).hashes = Caught(subs, topic, Len(topic) + 1)
      /\ Walked(subs, topic, Len(topic) + 1).matches = Going(subs, topic, Len(topic) + 1)
  BY DEF Walked
<1>4. QED
  BY <1>2, <1>3, Zenon DEF Search

\* What the search finds, match accepts, and it is not the topic's "#" child.
LEMMA SearchSound ==
  ASSUME NEW sub \in Seq(Element), NEW topic \in Seq(Element), topic # <<>>, NoNUL(sub),
         NEW subs, sub \in subs, sub \in Search(subs, topic)
  PROVE  Match(sub, topic) /\ ~ParentOf(topic, sub)
<1>1. CASE sub \in Going(subs, topic, Len(topic) + 1)
  <2>1. \A j \in 1 .. Len(topic) + 1 : sub \in Here(subs, topic, j)
    BY <1>1 DEF Going
  <2>2. Len(topic) <= Len(sub) /\ Ended(sub)[Len(topic) + 1] = NUL
    BY <2>1, HereEnd
  <2>3. Len(sub) = Len(topic)
    BY <2>2, EndedIs DEF NoNUL
  <2>4. \A j \in 1 .. Len(sub) : Takes(sub, topic, j)
    BY <2>1, <2>3, HereTakes
  <2>5. QED
    BY <2>3, <2>4, MatchIs DEF MatchesFrom, ParentOf
<1>2. CASE sub \in Caught(subs, topic, Len(topic) + 1)
  <2>1. PICK k \in 1 .. Len(topic) + 1 :
          /\ sub \in Hash(subs, topic, k)
          /\ \A j \in 1 .. k - 1 : sub \in Here(subs, topic, j)
    BY <1>2 DEF Caught
  <2>2. k \in 1 .. Len(topic) /\ k \in 1 .. Len(sub) /\ sub[k] = "#"
    BY <2>1, HashIs
  <2>3. \A j \in 1 .. k - 1 : Takes(sub, topic, j)
    BY <2>1, <2>2, HereTakes
  <2>4. QED
    BY <2>2, <2>3, MatchIs DEF MatchesFrom, ParentOf
<1>3. QED
  BY <1>1, <1>2, SearchIs

\* What match accepts the search finds, but for that "#".
LEMMA SearchComplete ==
  ASSUME NEW sub \in Seq(Element), NEW topic \in Seq(Element), topic # <<>>,
         NoNUL(topic), NoHash(topic), NEW subs, sub \in subs,
         Match(sub, topic), ~ParentOf(topic, sub)
  PROVE  sub \in Search(subs, topic)
<1>1. MatchesFrom(sub, topic, 1)
  BY MatchIs
<1>2. CASE /\ Len(topic) <= Len(sub)
           /\ \A j \in 1 .. Len(sub) : Takes(sub, topic, j)
  <2>1. Len(sub) = Len(topic)
    <3>1. Len(sub) \in 1 .. Len(sub)
      BY <1>2
    <3>2. QED
      BY <1>2, <3>1 DEF Takes
  <2>2. \A j \in 1 .. Len(topic) : sub \in Here(subs, topic, j)
    BY <1>2, <2>1, HereTakes DEF NoNUL
  <2>3. sub \in Here(subs, topic, Len(topic) + 1)
    BY <2>1, HereEnd, EndedIs
  <2>4. QED
    BY <2>2, <2>3, SearchIs DEF Going
<1>3. ASSUME NEW k \in 1 .. Len(sub), sub[k] = "#",
             \A j \in 1 .. k - 1 : Takes(sub, topic, j)
      PROVE  sub \in Search(subs, topic)
  <2>1. \A j \in 1 .. k - 1 : j <= Len(topic) /\ sub[j] # "#"
    BY <1>3 DEF Takes, NoHash
  <2>2. k <= Len(topic) + 1
    <3>1. CASE k = 1
      BY <3>1
    <3>2. CASE k # 1
      <4>1. k - 1 \in 1 .. k - 1
        BY <3>2
      <4>2. QED
        BY <2>1, <4>1
    <3>3. QED
      BY <3>1, <3>2
  <2>3. k # Len(topic) + 1
    BY <1>3, <2>1 DEF ParentOf
  <2>4. k \in 1 .. Len(topic)
    BY <2>2, <2>3
  <2>5. sub \in Hash(subs, topic, k)
    BY <1>3, <2>4, HashIs DEF NoNUL
  <2>6. sub \notin Here(subs, topic, k)
    BY <1>3, <2>4, HereTakes DEF Takes, NoHash
  <2>7. \A j \in 1 .. k - 1 : sub \in Here(subs, topic, j)
    BY <1>3, <2>4, HereTakes DEF NoNUL
  <2>8. sub \in Caught(subs, topic, Len(topic) + 1)
    BY <2>4, <2>5, <2>6, <2>7 DEF Caught
  <2>9. QED
    BY <2>8, SearchIs
<1>4. QED
  BY <1>1, <1>2, <1>3 DEF MatchesFrom

\* What has been added decides nothing but what can be found.
LEMMA SearchStays ==
  ASSUME NEW topic \in Seq(Element), NEW subs
  PROVE  Search(subs, topic) \subseteq subs
BY SearchIs DEF Caught, Going

\* Only a topic with an end mark on the last level takes the search past it, if
\* every subscription fits with its own, and only after one that just fits.
LEMMA OverrunIs ==
  ASSUME NEW topic \in Seq(Element), NEW subs, subs \subseteq Seq(Element),
         \A sub \in subs : Len(sub) < Levels, Overruns(subs, topic)
  PROVE  /\ Len(topic) >= Levels /\ topic[Levels] = NUL
         /\ \E sub \in subs : Len(sub) = Levels - 1
<1>1. PICK i \in Levels + 1 .. Len(topic) + 1 : Walk(subs, topic)[i - 1].matches # {}
  BY DEF Overruns
<1>2. Levels \in Nat /\ Levels >= 1 /\ i - 1 \in 1 .. Len(topic)
      /\ Levels \in 1 .. i - 1 /\ Levels \in 1 .. Len(topic)
  BY LevelsAssumption
<1>3. Walk(subs, topic)[i - 1].matches = Going(subs, topic, i - 1)
  <2>1. Walk(subs, topic)[i - 1] = Walked(subs, topic, i - 1)
    <3>1. Len(topic) \in Nat /\ i - 1 \in 1 .. Len(topic) + 1
      BY <1>2
    <3>2. QED
      BY <3>1, WalkIs, Zenon
  <2>2. Walked(subs, topic, i - 1).matches = Going(subs, topic, i - 1)
    BY DEF Walked
  <2>3. QED
    BY <2>1, <2>2, Zenon
<1>4. ASSUME NEW sub \in Going(subs, topic, i - 1)
      PROVE  topic[Levels] = NUL /\ Len(sub) = Levels - 1 /\ sub \in subs
  <2>1. sub \in subs /\ sub \in Seq(Element) /\ Len(sub) < Levels
    BY <1>4 DEF Going
  <2>2. sub \in Here(subs, topic, Levels)
    BY <1>2, <1>4 DEF Going
  <2>3. Levels = Len(sub) + 1 /\ Ended(sub)[Levels] = NUL
    BY <1>2, <2>1, <2>2, HereIs, EndedIs
  <2>4. QED
    BY <1>2, <2>1, <2>2, <2>3, HereIs DEF NUL
<1>5. PICK sub : sub \in Going(subs, topic, i - 1)
  BY <1>1, <1>3
<1>6. QED
  BY <1>2, <1>4, <1>5

\* Without wildcards match is equality.
LEMMA MatchPlain ==
  ASSUME NEW sub \in Seq(Element), NEW topic \in Seq(Element),
         \A i \in 1 .. Len(sub) : sub[i] \notin {"#", "+"}
  PROVE  Match(sub, topic) => topic = sub
<1>1. HAVE Match(sub, topic)
<1>2. Len(topic) <= Len(sub) /\ \A j \in 1 .. Len(sub) : Takes(sub, topic, j)
  BY <1>1, MatchIs DEF MatchesFrom
<1>3. Len(topic) = Len(sub)
  <2>1. CASE Len(sub) = 0
    BY <1>2, <2>1
  <2>2. CASE Len(sub) # 0
    <3>1. Len(sub) \in 1 .. Len(sub)
      BY <2>2
    <3>2. QED
      BY <1>2, <3>1 DEF Takes
  <2>3. QED
    BY <2>1, <2>2
<1>4. \A j \in 1 .. Len(sub) : topic[j] = sub[j]
  BY <1>2 DEF Takes
<1>5. QED
  BY <1>3, <1>4
=============================================================================
