----------------------------- MODULE MCNodeLoop -----------------------------
(* NodeLoop for two replicas of three; the third is down. *)
EXTENDS NodeLoop

CONSTANTS n1, n2
=============================================================================
