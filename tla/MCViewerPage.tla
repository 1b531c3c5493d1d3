----------------------------- MODULE MCViewerPage -----------------------------
(* ViewerPage for TLC: three offers, so that two can meet a peer being built. *)
EXTENDS ViewerPage
==============================================================================
