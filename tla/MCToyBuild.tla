----------------------------- MODULE MCToyBuild -----------------------------
(* ToyBuild with three versions of the patch over two Core files: the      *)
(* second drops a file the first touches, and the third swaps them.        *)
EXTENDS ToyBuild, TLC

CONSTANTS f, g

MCTouches == (1 :> {f, g}) @@ (2 :> {f}) @@ (3 :> {g})
=============================================================================
