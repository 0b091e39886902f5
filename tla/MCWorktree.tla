----------------------------- MODULE MCWorktree -----------------------------
(* Instances of Worktree for TLC. *)
EXTENDS Worktree, TLC

CONSTANTS f, g, x, y, main, topic

\* A tree with both files, and one that has just the first, changed.
MCHistory == {(f :> x @@ g :> x), (f :> y @@ g :> None)}
MCBranches == {main, topic}
MCSymmetry == Permutations(MCBranches)
=============================================================================
