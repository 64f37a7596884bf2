------------------------- MODULE MCCaseValidation -------------------------
(* Four cases in the order a phase 2 run has them: an honest spend, two    *)
(* controls that must be rejected, and a second honest spend.              *)
EXTENDS CaseValidation

MCExpected == <<TRUE, FALSE, FALSE, TRUE>>
=============================================================================
