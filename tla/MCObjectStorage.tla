-------------------------- MODULE MCObjectStorage --------------------------
(* Instances of ObjectStorage for TLC. *)
EXTENDS ObjectStorage

CONSTANTS o1, o2

Symmetry == Permutations(Proc)

TwoPacks == {{o1}, {o1, o2}}

NoAlternates  == {<<>>}
TwoAlternates == {<<{}, {}>>}
=============================================================================
