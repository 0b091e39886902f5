----------------------------- MODULE MCRefStore -----------------------------
(***************************************************************************)
(* RefStore for TLC.  The processes run the same code and none is named in  *)
(* Init, so the safety runs identify states that differ by a permutation of *)
(* them; the liveness run does not.                                         *)
(***************************************************************************)
EXTENDS RefStore, TLC

Symmetry == Permutations(Proc)

=============================================================================
