------------------------------ MODULE History ------------------------------
(***************************************************************************)
(* The walks of module CommitWalk on the histories of module RevList:      *)
(* every graph, every assignment of committer times, and the commits the   *)
(* repository lacks.                                                       *)
(***************************************************************************)
EXTENDS RevList, CommitWalk

\* The parents of a commit in one of two orders.
Ordered(s, ascending) ==
    SetToSortSeq(s, LAMBDA a, b : IF ascending THEN a < b ELSE a > b)

\* The history of the run; graph holds the commits of the commit-graph file.
Repo(ascending, graph, v2) ==
    [par |-> [c \in Commit |-> Ordered(parents[c], ascending)],
     time |-> time, present |-> present, graph |-> graph, v2 |-> v2]

Loaded(ascending) == Repo(ascending, {}, FALSE)

\* Each history is looked at once, before the object walk from its tips starts.
Fresh == /\ pc = "seed" /\ haves = {} /\ shallows = {}
         /\ wants = Commit \ UNION {parents[c] : c \in Commit}

Complete == present = Commit

\* A commit-graph file holds the parents of its commits.
Graphs == {g \in SUBSET Commit : \A c \in g : parents[c] \subseteq g}

\* The common ancestors that no other common ancestor reaches.
Best(h, a, b) ==
    LET common == Ancestry(h, a) \cap Ancestry(h, b)
    IN {c \in common : \A d \in common \ {c} : c \notin Ancestry(h, d)}

\* A sequence that lists the elements of s, each once.
Lists(out, s) == ToSet(out) = s /\ Len(out) = Cardinality(s)

\* No commit comes before one of its children.
Topological(h, out) ==
    \A i, j \in DOMAIN out : i < j => out[i] \notin ToSet(h.par[out[j]])
----------------------------------------------------------------------------
(***************************************************************************)
(* In a repository that has its whole history, MergeBase returns exactly   *)
(* the best common ancestors and IsAncestor tells ancestors, whatever the  *)
(* committer times: the choice of the older commit, the limit at the newer *)
(* one's history and the shared limit of Independents lose no base and     *)
(* keep no redundant one.                                                  *)
(***************************************************************************)
MergeBaseIsBest ==
    (Fresh /\ Complete) =>
        LET h == Loaded(TRUE)
        IN \A a, b \in Commit :
              /\ MergeBase(h, a, b).ok
              /\ Lists(MergeBase(h, a, b).out, Best(h, a, b))
              /\ IsAncestor(h, a, b).found <=> a \in Ancestry(h, b)

(***************************************************************************)
(* Every order of Log yields each reachable commit once (--first-parent    *)
(* the chain of first parents); by committer time it is sorted when times  *)
(* agree with the history; on a linear history the log of a file lists the *)
(* commits that changed it.  The topological and the date order of the      *)
(* commit-graph walkers yield no commit before its children, for a file    *)
(* that covers any part of the history, as long as the commits outside it  *)
(* have times that agree with the history.                                 *)
(***************************************************************************)
LogIsExact ==
    (Fresh /\ Complete) =>
        \A ascending \in BOOLEAN, c \in Commit :
            LET h == Loaded(ascending)
            IN /\ \A order \in Orders \ {"first"} :
                     Lists(Log(h, order, c).out, Ancestry(h, c))
               /\ LET chain == Log(h, "first", c).out
                  IN \A i \in DOMAIN chain :
                        IF h.par[chain[i]] = <<>> THEN i = Len(chain)
                        ELSE i < Len(chain) /\ chain[i + 1] = h.par[chain[i]][1]
               /\ Monotone => LET out == Log(h, "ctime", c).out
                              IN out = ByDateDesc(h, out)
               /\ (\A d \in Ancestry(h, c) : Len(h.par[d]) <= 1) =>
                     ToSet(FileCommits(h, Log(h, "pre", c).out, Tree, ascending)) =
                        {d \in Ancestry(h, c) : \A p \in parents[d] : Tree[p] # Tree[d]}
               /\ \A g \in Graphs, v2 \in BOOLEAN, order \in {"topo", "date"} :
                     (Monotone \/ g = Commit) =>
                         LET r == Repo(ascending, g, v2)
                             out == NodeLog(r, order, c).out
                         IN Lists(out, Ancestry(h, c)) /\ Topological(r, out)

(***************************************************************************)
(* What the comment of the topological walker says without a condition:    *)
(* no parent is emitted before its children.  Commits outside the          *)
(* commit-graph file are explored by committer time alone, so clock skew   *)
(* breaks it.                                                              *)
(***************************************************************************)
TopoOrderKept ==
    (Fresh /\ Complete) =>
        \A ascending \in BOOLEAN, c \in Commit, g \in Graphs :
            LET r == Repo(ascending, g, TRUE)
                out == NodeLog(r, "topo", c).out
            IN Lists(out, Ancestry(r, c)) /\ Topological(r, out)

(***************************************************************************)
(* Log with All lists every commit of every reference.  addReference stops *)
(* at the first commit that is listed already, so the other side of a      *)
(* merge can be left out.                                                  *)
(***************************************************************************)
LogAllIsComplete ==
    (Fresh /\ Complete) =>
        \A order \in {"pre", "post", "bfs", "ctime"}, a, b \in Commit :
            LET h == Loaded(TRUE)
            IN Lists(LogAll(h, order, <<a, b>>), Ancestry(h, a) \cup Ancestry(h, b))

(***************************************************************************)
(* In a repository that lacks commits MergeBase answers correctly or       *)
(* fails.  The error of the walk from the older commit is dropped, so it   *)
(* may answer that there is no base instead.                               *)
(***************************************************************************)
MergeBaseAnswersOrFails ==
    Fresh =>
        LET h == Loaded(TRUE)
        IN \A a, b \in present :
              MergeBase(h, a, b).ok => Lists(MergeBase(h, a, b).out, Best(h, a, b))
============================================================================
