---------------------------- MODULE MCHelperRoom ----------------------------
(* HelperRoom for TLC.  Its run checks liveness, so no symmetry is declared. *)
EXTENDS HelperRoom
==============================================================================
