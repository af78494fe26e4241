--------------------------- MODULE MCPeerStorage ---------------------------
(***************************************************************************)
(* PeerStorage for TLC.  Values are only ever compared with each other, so *)
(* they may be permuted; the run with two values uses that symmetry.       *)
(***************************************************************************)
EXTENDS PeerStorageInv, TLC

Symmetry == Permutations(Value)

=============================================================================
