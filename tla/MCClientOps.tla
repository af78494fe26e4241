---------------------------- MODULE MCClientOps -----------------------------
(***************************************************************************)
(* ClientOps for TLC: one call is a Set, the others are Gets or Deletes.   *)
(* Replicas are interchangeable.                                           *)
(***************************************************************************)
EXTENDS ClientOps, TLC

CONSTANT Writer

KindsOf == [o \in Op |-> IF o = Writer THEN {"set"} ELSE {"get", "del"}]

Symmetry == Permutations(Node)

=============================================================================
