---------------------------- MODULE MCPinHandoff ----------------------------
(* PinHandoff on every oracle over a small counter space, with the first   *)
(* or the second pair of recovery ids, one digest on which the programs are*)
(* compared, and at most one digest that lacks a key.                      *)
EXTENDS PinHandoff

CONSTANT vector

MCBranchSets == {{0, 1}, {2, 3}}
=============================================================================
