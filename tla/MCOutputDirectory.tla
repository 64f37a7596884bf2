------------------------ MODULE MCOutputDirectory ------------------------
(* Three runs in one directory, of one setup file and two case files.      *)
EXTENDS OutputDirectory
=============================================================================
