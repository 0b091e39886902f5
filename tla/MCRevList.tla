----------------------------- MODULE MCRevList -----------------------------
EXTENDS History

\* The third commit goes back to the tree of the first one.
Reverting == [c \in Commit |-> IF c = 3 THEN 1 ELSE c]

\* Every order of the commits, most of them at odds with the history, and
\* one where all times are equal.
AllOrders ==
    {t \in [Commit -> Commit] : \A c, d \in Commit : t[c] = t[d] => c = d}
        \cup {[c \in Commit |-> 1]}
============================================================================
