-------------------------- MODULE MCToyValidation --------------------------
(* Three cases: an honest spend, a control, and a spend that reuses the    *)
(* disclosed authorization.                                                *)
EXTENDS ToyValidation

MCExpected == <<TRUE, FALSE, TRUE>>
=============================================================================
