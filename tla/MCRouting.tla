------------------------------ MODULE MCRouting ------------------------------
(***************************************************************************)
(* Small instances of Routing for TLC.                                     *)
(***************************************************************************)
EXTENDS RoutingInv, TLC

\* Subscriptions that match alone, together and not at all, and one that is
\* as long as the bitmap is deep.
SomeFilters == {<<"a", "#">>, <<"+", "b">>, <<"a", "b", "b">>}

\* A retained message and one that clears it, on a topic every wildcard
\* subscription matches; one on the topic above; one that is longer than any
\* subscription; and one as long whose last element is the end mark.
SomePublishes ==
  {[topic |-> <<"a", "b">>, qos |-> 1, retain |-> TRUE, empty |-> FALSE],
   [topic |-> <<"a", "b">>, qos |-> 0, retain |-> TRUE, empty |-> TRUE],
   [topic |-> <<"a">>, qos |-> 2, retain |-> TRUE, empty |-> FALSE],
   [topic |-> <<"a", "b", "b">>, qos |-> 1, retain |-> FALSE, empty |-> FALSE],
   [topic |-> <<"a", "b", "NUL">>, qos |-> 1, retain |-> FALSE, empty |-> FALSE]}

Symmetry == Permutations(Client) \cup Permutations(Publication)
=============================================================================
