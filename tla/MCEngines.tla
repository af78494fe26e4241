----------------------------- MODULE MCEngines ------------------------------
(***************************************************************************)
(* Engines for TLC.  Bytes are below 5; indexes whose first or second byte *)
(* is the same, keys of which one is a prefix of the other, the empty key  *)
(* and the empty value.                                                    *)
(***************************************************************************)
EXTENDS Engines

TheIndexes == {1, 6}
TheKeys == {<<>>, <<1>>, <<1, 0>>}
TheValues == {<<>>, <<4, 1>>}
=============================================================================
