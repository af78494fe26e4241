----------------------------- MODULE MCSnapGen ------------------------------
(***************************************************************************)
(* SnapGen for TLC: a log in which the leader's term begins with the third *)
(* entry.                                                                  *)
(***************************************************************************)
EXTENDS SnapGen

TheTerms == <<1, 1, 2, 2, 2>>
=============================================================================
