---------------------------- MODULE MCToySearch ----------------------------
(* ToySearch with two of four table entries disclosed: six subsets, whose  *)
(* order moves the last index and carries into the first one twice.        *)
EXTENDS ToySearch
=============================================================================
