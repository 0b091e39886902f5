------------------------------ MODULE MCFetch ------------------------------
EXTENDS Fetch, TLC

\* A line of three commits, a side branch from the root, and their merge.
Merging == <<{}, {1}, {2}, {1}, {3, 4}>>

\* The side branch is there from the start, or it is not.
TwoStarts == {[main |-> 3, side |-> side] : side \in {None, 4}}
============================================================================
