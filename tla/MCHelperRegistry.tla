--------------------------- MODULE MCHelperRegistry ---------------------------
(* HelperRegistry for TLC.  Its runs check liveness, so no symmetry is declared. *)
EXTENDS HelperRegistry
==============================================================================
