-------------------------- MODULE MCCoreLifecycle --------------------------
(* CoreLifecycle with a few polls and body calls.                          *)
EXTENDS CoreLifecycle
=============================================================================
