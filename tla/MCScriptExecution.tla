-------------------------- MODULE MCScriptExecution --------------------------
(* Every pair of a table of two or three entries and one or two selections: *)
(* one chosen, some chosen, all of them.  The messages of the .cfg have     *)
(* checksums of one and of two digits.                                      *)
EXTENDS ScriptExecution

TableSizes == 2 .. 3
Selections == 1 .. 2
MCParams == TableSizes \X Selections
=============================================================================
