----------------------------- MODULE CommitWalk -----------------------------
(***************************************************************************)
(* Walks over the history: the iterators behind Log, the walkers over the  *)
(* commit-graph file, ancestry tests and merge bases (plumbing/object and  *)
(* plumbing/object/commitgraph).  They are sequential, so each is an       *)
(* operator that returns what the iterator yields, one turn of its loop    *)
(* per recursion:                                                          *)
(*                                                                         *)
(*     [out |-> the commits in the order of Next, ok |-> no error]         *)
(*                                                                         *)
(* A history h is a record: h.par[c] is the sequence of the parents of c,  *)
(* h.time[c] its committer time and h.present the commits the repository   *)
(* can read; reading another one is the error.                             *)
(***************************************************************************)
EXTENDS Integers, Sequences, SequencesExt, FiniteSets, TLC

Yield(out, ok) == [out |-> out, ok |-> ok]

\* The commits reachable from c.
RECURSIVE Ancestry(_, _)
Ancestry(h, c) == {c} \cup UNION {Ancestry(h, p) : p \in ToSet(h.par[c])}

\* Newest first, as sortByCommitDateDesc and the heaps of the walkers.
ByDateDesc(h, s) == SortSeq(s, LAMBDA a, b : h.time[a] > h.time[b])
-----------------------------------------------------------------------------
(***************************************************************************)
(* The walkers of plumbing/object.                                         *)
(***************************************************************************)

\* commitPreIterator: a stack of iterators over parents that were unseen when
\* their child was visited.  A parent is read when its turn comes.
RECURSIVE Preorder(_, _, _, _)
Preorder(h, stack, seen, out) ==
    IF stack = <<>> THEN Yield(out, TRUE)
    ELSE IF Last(stack) = <<>> THEN Preorder(h, Front(stack), seen, out)
    ELSE LET c == Head(Last(stack))
             rest == Append(Front(stack), Tail(Last(stack)))
             ps == SelectSeq(h.par[c], LAMBDA p : p \notin seen)
         IN IF c \notin h.present THEN Yield(out, FALSE)
            ELSE IF c \in seen THEN Preorder(h, rest, seen, out)
            ELSE Preorder(h, Append(rest, ps), seen \cup {c}, Append(out, c))

\* Where the parents of a visited commit go: on the stack (the last one on
\* top), at the end of the queue, or into the heap.
Enqueue(h, order, todo, ps) ==
    CASE order \in {"post", "first"} -> Reverse(ps) \o todo
      [] order = "bfs" -> todo \o ps
      [] order = "ctime" -> ByDateDesc(h, todo \o ps)

\* The parents the walker follows: the stacks take all of them, the queue and
\* the heap the unseen ones, --first-parent only the first.
Followed(h, order, c, seen) ==
    CASE order = "post" -> h.par[c]
      [] order = "first" -> SelectSeq(h.par[c], LAMBDA p : p = h.par[c][1])
      [] OTHER -> SelectSeq(h.par[c], LAMBDA p : p \notin seen)

\* The parents that are read when c is visited.
Read(h, order, c, seen) ==
    ToSet(IF order = "first" THEN h.par[c] ELSE Followed(h, order, c, seen))

\* commitPostIterator, commitPostIteratorFirstParent, bfsCommitIterator and
\* commitIteratorByCTime: take a commit, skip it when seen, queue its parents.
RECURSIVE Walk(_, _, _, _, _)
Walk(h, order, todo, seen, out) ==
    IF todo = <<>> THEN Yield(out, TRUE)
    ELSE LET c == Head(todo)
             now == seen \cup {c}
         IN IF c \in seen THEN Walk(h, order, Tail(todo), seen, out)
            ELSE IF ~ (Read(h, order, c, now) \subseteq h.present) THEN Yield(out, FALSE)
            ELSE Walk(h, order, Enqueue(h, order, Tail(todo), Followed(h, order, c, now)),
                      now, Append(out, c))

\* commitIterFunc: the walker of each LogOrder, started at commit c.
Orders == {"pre", "post", "first", "bfs", "ctime"}

Log(h, order, c) ==
    IF order = "pre" THEN Preorder(h, << <<c>> >>, {}, <<>>)
    ELSE Walk(h, order, <<c>>, {}, <<>>)

\* commitPathIter: a commit is yielded when the file differs between it and
\* the next commit of the walk, whether or not that is a parent of it unless
\* checkParent is set.  file[c] is the content of the file at c, 0 for none.
FileCommits(h, out, file, checkParent) ==
    LET next(i) == IF i = Len(out) THEN 0 ELSE out[i + 1]
        content(c) == IF c = 0 THEN 0 ELSE file[c]
        kept(i) == /\ content(out[i]) # content(next(i))
                   /\ \/ ~ checkParent \/ next(i) = 0
                      \/ next(i) \in ToSet(h.par[out[i]])
    IN [j \in 1 .. Cardinality({i \in DOMAIN out : kept(i)}) |->
           out[CHOOSE i \in DOMAIN out :
                  kept(i) /\ Cardinality({k \in 1 .. i : kept(k)}) = j]]

\* addReference: the commits of one reference, up to the first that is listed
\* already, go before that one.
AddReference(h, order, path, tip) ==
    LET out == Log(h, order, tip).out
        known == {i \in DOMAIN out : out[i] \in ToSet(path)}
        first == CHOOSE i \in known : \A j \in known : i <= j
        at == CHOOSE i \in DOMAIN path : path[i] = out[first]
    IN IF tip \in ToSet(path) THEN path
       ELSE IF known = {} THEN path \o out
       ELSE SubSeq(path, 1, at - 1) \o SubSeq(out, 1, first - 1)
            \o SubSeq(path, at, Len(path))

\* NewCommitAllIter: HEAD first, then every reference.
LogAll(h, order, tips) ==
    FoldLeft(LAMBDA path, tip : AddReference(h, order, path, tip), <<>>, tips)
-----------------------------------------------------------------------------
(***************************************************************************)
(* Ancestors and merge bases.                                              *)
(***************************************************************************)

\* filterCommitIter: breadth first; the parents of a commit in limit are not
\* followed and only commits in valid are yielded.
RECURSIVE FilterWalk(_, _, _, _, _, _)
FilterWalk(h, todo, visited, valid, limit, out) ==
    IF todo = <<>> THEN Yield(out, TRUE)
    ELSE LET c == Head(todo)
             now == visited \cup {c}
             ps == IF c \in limit THEN <<>>
                   ELSE SelectSeq(h.par[c], LAMBDA p : p \notin now)
         IN IF c \in visited THEN FilterWalk(h, Tail(todo), visited, valid, limit, out)
            ELSE IF ~ (ToSet(ps) \subseteq h.present) THEN Yield(out, FALSE)
            ELSE FilterWalk(h, Tail(todo) \o ps, now, valid, limit,
                            IF c \in valid THEN Append(out, c) ELSE out)

\* Mutant of IndependentsFrom: the position is not moved back when candidates
\* before it were removed.
RECURSIVE SkippingIndependents(_, _, _, _)
SkippingIndependents(h, candidates, pos, seen) ==
    LET from == candidates[pos]
        walk == FilterWalk(h, <<from>>, {}, h.present, seen, <<>>)
        left == SelectSeq(candidates, LAMBDA c : c = from \/ c \notin ToSet(walk.out))
    IN IF Len(left) = 1 THEN Yield(left, TRUE)
       ELSE IF pos + 1 >= Len(left) THEN Yield(left, walk.ok)
       ELSE SkippingIndependents(h, left, pos + 1, seen \cup ToSet(walk.out))

\* The loop of Independents: the walk from one candidate drops the candidates
\* it meets and does not go behind what earlier walks have seen; it stops when
\* one candidate is left.
RECURSIVE IndependentsFrom(_, _, _, _)
IndependentsFrom(h, candidates, pos, seen) ==
    LET from == candidates[pos]
        walk == FilterWalk(h, <<from>>, {}, h.present, seen, <<>>)
        left == SelectSeq(candidates, LAMBDA c : c = from \/ c \notin ToSet(walk.out))
        next == 1 + CHOOSE i \in DOMAIN left : left[i] = from
    IN IF Len(left) = 1 THEN Yield(left, TRUE)
       ELSE IF ~ walk.ok THEN Yield(<<>>, FALSE)
       ELSE IF next > Len(left) THEN Yield(left, TRUE)
       ELSE IndependentsFrom(h, left, next, seen \cup ToSet(walk.out))

Independents(h, commits) ==
    LET candidates == ByDateDesc(h, SetToSeq(ToSet(commits)))
    IN IF Len(candidates) < 2 THEN Yield(candidates, TRUE)
       ELSE IndependentsFrom(h, candidates, 1, {})

\* ancestorsIndex: the history of starting, or the news that it holds excluded.
AncestorsIndex(h, excluded, starting) ==
    LET walk == Log(h, "bfs", starting)
    IN [reachable |-> excluded \in ToSet(walk.out) \cup {starting},
        ok |-> walk.ok, index |-> ToSet(walk.out)]

\* Commit.MergeBase: the walk of the older commit's history stops at the newer
\* one's; its error is not looked at.
MergeBase(h, a, b) ==
    LET sorted == ByDateDesc(h, <<a, b>>)
        older == sorted[2]
        newer == AncestorsIndex(h, older, sorted[1])
    IN IF newer.reachable THEN Yield(<<older>>, TRUE)
       ELSE IF ~ newer.ok THEN Yield(<<>>, FALSE)
       ELSE Independents(h,
                FilterWalk(h, <<older>>, {}, newer.index, newer.index, <<>>).out)

\* Commit.IsAncestor; the walk ends when the commit is found.
IsAncestor(h, a, b) ==
    LET walk == Log(h, "pre", b)
    IN [found |-> a \in ToSet(walk.out), ok |-> a \in ToSet(walk.out) \/ walk.ok]
-----------------------------------------------------------------------------
(***************************************************************************)
(* The walkers of plumbing/object/commitgraph.  The commits in h.graph come *)
(* from the commit-graph file, with their parents; the others are read as   *)
(* objects and their generations count as infinite.  h.v2 tells whether     *)
(* the file has corrected commit dates.                                     *)
(***************************************************************************)
Infinity == 1000

\* The longest way to a root, as recorded in the file.
RECURSIVE Depth(_, _)
Depth(h, c) ==
    1 + IF h.par[c] = <<>> THEN 0
        ELSE CHOOSE d \in 1 .. Len(h.time) :
                /\ \E p \in ToSet(h.par[c]) : Depth(h, p) = d
                /\ \A p \in ToSet(h.par[c]) : Depth(h, p) <= d

\* The corrected commit date: at least the commit's own, later than any
\* parent's.
RECURSIVE CorrectedDate(_, _)
CorrectedDate(h, c) ==
    CHOOSE d \in 0 .. Infinity :
        /\ d = h.time[c] \/ \E p \in ToSet(h.par[c]) : d = CorrectedDate(h, p) + 1
        /\ d >= h.time[c] /\ \A p \in ToSet(h.par[c]) : d > CorrectedDate(h, p)

Generation(h, c) == IF c \in h.graph THEN Depth(h, c) ELSE Infinity

GenerationV2(h, c) == IF c \notin h.graph THEN Infinity
                      ELSE IF h.v2 THEN CorrectedDate(h, c) ELSE 0

\* generationAndDateOrderComparator: a comes before b.
Before(h, a, b) ==
    LET dated == h.time[a] > h.time[b]
        ga == Generation(h, a)    gb == Generation(h, b)
        va == GenerationV2(h, a)  vb == GenerationV2(h, b)
    IN IF va = Infinity THEN vb # Infinity \/ dated
       ELSE IF va = 0 \/ vb = 0 THEN ga > gb \/ (ga = gb /\ dated)
       ELSE va > vb

\* The stack that holds the commits to visit: last in first out, or a heap.
Push(h, order, stack, c) ==
    IF order = "topo" THEN <<c>> \o stack
    ELSE SortSeq(Append(stack, c), LAMBDA a, b : Before(h, a, b))

\* The EXPLORE loop of commitNodeIteratorTopological.Next: count the children
\* of commits down to the level of the commit to be returned.
RECURSIVE Explore(_, _, _, _, _)
Explore(h, next, level, heap, count) ==
    LET c == Head(heap)
        depth(d) == IF GenerationV2(h, next) # 0 THEN GenerationV2(h, d)
                    ELSE Generation(h, d)
        add == [d \in DOMAIN count |->
                   count[d] + Cardinality({i \in DOMAIN h.par[c] : h.par[c][i] = d})]
        new == SelectSeq(h.par[c], LAMBDA p : count[p] = 0)
    IN IF \/ heap = <<>>
          \/ c # next /\ Len(heap) = 1
          \/ depth(c) < level
       THEN [heap |-> heap, count |-> count]
       ELSE Explore(h, next, level,
                SortSeq(Tail(heap) \o new, LAMBDA a, b : Before(h, a, b)), add)

\* Mutant of TopoWalk: parents are visited as soon as one child was.
RECURSIVE EagerTopoWalk(_, _, _, _, _, _)
EagerTopoWalk(h, order, visit, heap, count, out) ==
    IF visit = <<>> \/ Len(out) > 2 * Len(h.time) THEN Yield(out, TRUE)
    ELSE LET next == Head(visit)
         IN IF next \in ToSet(out) THEN EagerTopoWalk(h, order, Tail(visit), heap, count, out)
            ELSE EagerTopoWalk(h, order,
                     FoldLeft(LAMBDA s, p : Push(h, order, s, p), Tail(visit), h.par[next]),
                     heap, count, Append(out, next))

\* commitNodeIteratorTopological: a commit is visited when its count of
\* children that were not visited is zero.  (A walk that repeats commits is cut
\* off, long after it has shown that it does.)
RECURSIVE TopoWalk(_, _, _, _, _, _)
TopoWalk(h, order, visit, heap, count, out) ==
    IF visit = <<>> \/ Len(out) > 2 * Len(h.time) THEN Yield(out, TRUE)
    ELSE LET next == Head(visit)
             v2 == GenerationV2(h, next) # 0
             levels == {IF v2 THEN GenerationV2(h, c) ELSE Generation(h, c) :
                           c \in ToSet(h.par[next]) \cup {next}}
             level == CHOOSE l \in levels : \A m \in levels : l <= m
             ex == Explore(h, next, level, heap, count)
             done == [c \in DOMAIN count |->
                         IF c = next THEN 0
                         ELSE ex.count[c] - Cardinality({i \in DOMAIN h.par[next] :
                                                           h.par[next][i] = c})]
             ready == SelectSeq(h.par[next], LAMBDA p : done[p] = 0)
         IN IF count[next] # 0 THEN TopoWalk(h, order, Tail(visit), heap, count, out)
            ELSE TopoWalk(h, order,
                     FoldLeft(LAMBDA s, p : Push(h, order, s, p), Tail(visit), ready),
                     ex.heap, done, Append(out, next))

\* NewCommitNodeIterTopoOrder and NewCommitNodeIterDateOrder.
NodeLog(h, order, c) ==
    TopoWalk(h, order, <<c>>, <<c>>, [d \in DOMAIN h.time |-> 0], <<>>)
=============================================================================
