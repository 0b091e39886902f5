------------------------------- MODULE MCPush -------------------------------
EXTENDS Push, TLC

CONSTANTS c1, c2, main, topic

\* A root, the commit everybody starts from and two lines that diverge from it.
Diverging == <<{}, {1}, {2}, {2}, {3}>>

Symmetry == Permutations(Client)
=============================================================================
