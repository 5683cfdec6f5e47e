----------------------------- MODULE TopicMatch -----------------------------
(***************************************************************************)
(* Two answers to "does this subscription match this topic?" (router.go).  *)
(* FindRetained asks match, which walks both sides element by element.     *)
(* DeliverMessage asks the bitmap, which holds for every level the         *)
(* subscriptions that have a given element there.                          *)
(*                                                                         *)
(* A topic and a subscription are the sequences strings.Split(s, "/")      *)
(* gives, so they have at least one element; levels count from 1.          *)
(***************************************************************************)
EXTENDS Naturals, Sequences

CONSTANTS Levels   \* len(subBitmap): the levels the bitmap has

ASSUME LevelsAssumption == Levels \in Nat \ {0}

\* The element AddSub and DeliverMessage append to mark the end.
NUL == "NUL"
Ended(s) == Append(s, NUL)

\* What MQTT asks of strings and no code checks: the end mark is no element of
\* a subscription or a topic, and "#" none of a topic.  ("+" does no harm.)
NoNUL(s) == \A i \in 1 .. Len(s) : s[i] # NUL
NoHash(s) == \A i \in 1 .. Len(s) : s[i] # "#"

\* match: "#" takes what is left, and nothing at all; "+" takes one element.
Match(route, topic) ==
  LET from[i \in 1 .. Len(route) + 1] ==
        IF i > Len(route)
          THEN i > Len(topic)
          ELSE \/ route[i] = "#"
               \/ i <= Len(topic) /\ route[i] \in {"+", topic[i]} /\ from[i + 1]
  IN from[1]

\* subBitmap[i][element], for the subscriptions subs that were ever added.
Bitmap(subs, i, element) ==
  {sub \in subs : i <= Len(sub) + 1 /\ Ended(sub)[i] = element}

\* Mutant of Ends: a "+" or "#" below is looked for where the topic has ended.
MutEnds(topic, i) == FALSE

\* Below the first level, where the topic has ended, only its end is asked for.
Ends(topic, i) == i > 1 /\ Ended(topic)[i] = NUL

\* The subscriptions that go on at a level, and those whose "#" is there.
Here(subs, topic, i) ==
  Bitmap(subs, i, Ended(topic)[i])
    \cup IF Ends(topic, i) THEN {} ELSE Bitmap(subs, i, "+")
Hash(subs, topic, i) == IF Ends(topic, i) THEN {} ELSE Bitmap(subs, i, "#")

\* matches and hashMatches after each level of DeliverMessage's loop.  On the
\* first level "#" is asked of every subscription, below it only of those
\* that match so far and not on this level.
Walk(subs, topic) ==
  LET level[i \in 1 .. Len(topic) + 1] ==
        LET here == Here(subs, topic, i)
            hash == Hash(subs, topic, i)
        IN IF i = 1
             THEN [matches |-> here, hashes |-> hash]
             ELSE [matches |-> level[i - 1].matches \cap here,
                   hashes |-> level[i - 1].hashes
                               \cup ((level[i - 1].matches \cap hash) \ here)]
  IN level

\* The subscriptions DeliverMessage goes through.
Search(subs, topic) ==
  LET end == Walk(subs, topic)[Len(topic) + 1]
  IN end.hashes \cup end.matches

\* The loop goes on while there are matches: it indexes a level that the
\* bitmap does not have.
Overruns(subs, topic) ==
  \E i \in Levels + 1 .. Len(topic) + 1 : Walk(subs, topic)[i - 1].matches # {}

\* "a/#" and the topic "a": match says yes, the bitmap says no.
ParentOf(topic, sub) ==
  /\ Len(sub) > Len(topic) /\ sub[Len(topic) + 1] = "#"
  /\ \A i \in 1 .. Len(topic) : sub[i] # "#"
=============================================================================
