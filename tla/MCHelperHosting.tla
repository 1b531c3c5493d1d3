--------------------------- MODULE MCHelperHosting ---------------------------
(* HelperHosting for TLC.  Its run checks liveness, so no symmetry is declared. *)
EXTENDS HelperHosting
==============================================================================
