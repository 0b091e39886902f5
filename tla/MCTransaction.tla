--------------------------- MODULE MCTransaction ---------------------------
EXTENDS Transaction, TLC

\* The arguments of SetShallow: no commits, or one.
FewShallow == {{}} \cup {{o} : o \in Object}

TwoCells == {"index", "config"}

Symmetry == Permutations(Name) \cup Permutations(Object)
============================================================================
