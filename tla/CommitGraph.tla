---------------------------- MODULE CommitGraph ----------------------------
(***************************************************************************)
(* The history that repositories exchange: commits and their parents.  A   *)
(* commit stands for itself, its trees and its blobs; module RevList looks *)
(* at the walk that finds the objects of a pack.                           *)
(***************************************************************************)
EXTENDS Integers, FiniteSets

CONSTANT Parents    \* Parents[c] is the set of the parents of commit c

Commit == DOMAIN Parents

\* The value of a reference that does not exist (plumbing.ZeroHash).
None == 0

\* A commit is numbered after its parents.
ASSUME ParentsAssumption ==
    /\ Commit \subseteq Nat \ {None}
    /\ \A c \in Commit : Parents[c] \subseteq {p \in Commit : p < c}

\* The commits reachable from tips when the commits of cut count as having no
\* parents (grafts, shallow commits).
Reach(tips, cut) ==
    LET R[c \in Commit] ==
            {c} \cup IF c \in cut THEN {} ELSE UNION {R[p] : p \in Parents[c]}
    IN UNION {R[c] : c \in tips}

History(tips) == Reach(tips, {})

\* The commits a reference table points at.
Tips(refs) == {refs[n] : n \in DOMAIN refs} \ {None}
============================================================================
