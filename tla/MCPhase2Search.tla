--------------------------- MODULE MCPhase2Search ---------------------------
(* Phase2Search on every oracle over a small counter space.                *)
EXTENDS Phase2Search
=============================================================================
