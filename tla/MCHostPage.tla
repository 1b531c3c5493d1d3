------------------------------ MODULE MCHostPage ------------------------------
(* HostPage for TLC: two commands, two polls at a time, two surprises. *)
EXTENDS HostPage
==============================================================================
