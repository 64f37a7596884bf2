-------------------------- MODULE MCPublishedSpend --------------------------
(* Two rounds with the published bonus counts, three of four dummies each. *)
EXTENDS PublishedSpend

MCLayout == <<[signed |-> 2, bonus |-> 1], [signed |-> 1, bonus |-> 2]>>
MCSearched == <<{0, 1, 3}, {0, 2, 3}>>
MCTried == {-1} \union 1 .. 7
=============================================================================
