----------------------------- MODULE MCReadPath -----------------------------
(***************************************************************************)
(* ReadPath for TLC.  The reads are only ever compared with each other.    *)
(***************************************************************************)
EXTENDS ReadPath, TLC

Symmetry == Permutations(Read)

=============================================================================
