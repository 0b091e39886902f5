------------------------------ MODULE TreeDiff ------------------------------
(***************************************************************************)
(* The comparison of two trees (utils/merkletrie) and the detection of     *)
(* renames among its changes (plumbing/object).  Status, checkout, reset   *)
(* and patches all rest on it.                                             *)
(*                                                                         *)
(* Two iterators go over the trees side by side; one turn of the loop is a *)
(* step.  An iterator is a stack of frames, a frame the siblings not yet   *)
(* visited; its current node is the first of the top frame.  A tree maps   *)
(* paths to nodes <<hash, mode>>; a path is a sequence of names, and names *)
(* are numbers in alphabetical order.                                      *)
(*                                                                         *)
(* Trees come from tree objects, where a directory has a hash, or from the *)
(* index and the filesystem, where it has none (opaque).  Index entries    *)
(* may be marked skip-worktree (sparse checkouts).                         *)
(***************************************************************************)
EXTENDS Integers, Sequences, SequencesExt, FiniteSets, FiniteSetsExt

CONSTANTS
    Trees,              \* the trees to compare
    Options,            \* the DiffTreeOptions to use
    MaxSkipped,         \* bound on the skip-worktree entries
    RenameScore,        \* DiffTreeOptions.RenameScore
    NameScore(_, _),    \* nameSimilarityScore of two paths, 0..100
    Similarity(_, _)    \* similarityIndex.score of two hashes, 0..100

Dir == <<0, "dir">>
None == <<>>

IsPrefixOf(p, q) == Len(p) <= Len(q) /\ SubSeq(q, 1, Len(p)) = p

\* Trees are finite, and hold the directories of their files.
ASSUME TreesAssumption ==
    \A t \in Trees :
        /\ IsFiniteSet(DOMAIN t)
        /\ \A p \in DOMAIN t :
              /\ p \in Seq(Nat) /\ p # None
              /\ \A i \in 1 .. Len(p) - 1 :
                    SubSeq(p, 1, i) \in DOMAIN t /\ t[SubSeq(p, 1, i)] = Dir

ASSUME ScoreAssumption ==
    \A p, q \in UNION {DOMAIN t : t \in Trees} : NameScore(p, q) \in Nat

VARIABLES
    from, to,       \* the trees
    opaque,         \* the trees are an index and a filesystem
    index,          \* which of them is the index, "from" or "to"
    skipped,        \* its entries with SkipWorktree
    opts,           \* the options
    stage,
    it,             \* the iterators: it.from and it.to
    changes,        \* the changes found
    hashes,         \* hashes whose exact renames are still to be looked for
    added, deleted, \* renameDetector.added and .deleted, as paths
    renamed         \* the modifications the detector made, as <<path, path>>

given == <<from, to, opaque, index, skipped, opts>>
detector == <<hashes, added, deleted, renamed>>
diffVars == <<given, stage, it, changes, detector>>

TreeOf(side) == IF side = "from" THEN from ELSE to

FilesUnder(t, p) == {q \in DOMAIN t : IsPrefixOf(p, q) /\ t[q] # Dir}

Children(t, p) == {q \in DOMAIN t : IsPrefixOf(p, q) /\ Len(q) = Len(p) + 1}

\* Path.Compare is negative.
PathLess(p, q) ==
    \E i \in 0 .. Len(p) :
        /\ i < Len(q)
        /\ SubSeq(p, 1, i) = SubSeq(q, 1, i)
        /\ i = Len(p) \/ p[i + 1] < q[i + 1]

\* A finite set of paths in that order.
InOrder(paths) ==
    CHOOSE s \in [1 .. Cardinality(paths) -> paths] :
        \A i \in DOMAIN s : \A j \in 1 .. i - 1 : PathLess(s[j], s[i])

\* frame.New
Frame(t, p) == InOrder(Children(t, p))

\* Iter.current
Current(s) == IF s = <<>> \/ Last(s) = <<>> THEN None ELSE Head(Last(s))

\* Iter.drop: the current node goes, and every frame this empties with the
\* node it belongs to.
DropCurrent(s) ==
    LET live == {k \in DOMAIN s : Len(s[k]) > 1}
    IN IF live = {} THEN <<>>
       ELSE Append(SubSeq(s, 1, Max(live) - 1), Tail(s[Max(live)]))

\* Iter.advance: Step descends into directories, Next does not.
Advance(side, descend) ==
    LET s == it[side]
        p == Current(s)
    IN IF descend /\ Children(TreeOf(side), p) # {}
       THEN Append(s, Frame(TreeOf(side), p))
       ELSE DropCurrent(s)

cf == Current(it.from)
ct == Current(it.to)

NextFrom == it' = [it EXCEPT !.from = Advance("from", FALSE)]
NextTo == it' = [it EXCEPT !.to = Advance("to", FALSE)]
NextBoth == it' = [from |-> Advance("from", FALSE), to |-> Advance("to", FALSE)]
StepBoth == it' = [from |-> Advance("from", TRUE), to |-> Advance("to", TRUE)]

\* node.Skip: an entry, or a directory all of whose entries are skipped.
Skip(side, p) ==
    /\ side = index
    /\ FilesUnder(TreeOf(side), p) # {}
    /\ FilesUnder(TreeOf(side), p) \subseteq skipped

\* Changes.addRecursive: the files at or below p, in the order of the iterator.
Files(side, p) ==
    InOrder({q \in FilesUnder(TreeOf(side), p) : ~ Skip(side, q)})

Deletes(p) == [i \in DOMAIN Files("from", p) |-> [from |-> Files("from", p)[i], to |-> None]]
Inserts(p) == [i \in DOMAIN Files("to", p) |-> [from |-> None, to |-> Files("to", p)[i]]]
Modify(p) == << [from |-> p, to |-> p] >>

\* The hashes of the nodes at p are equal; directories of an index or of a
\* filesystem have no hash.
SameHash(p) ==
    /\ from[p] = to[p]
    /\ from[p] = Dir =>
         /\ ~ opaque
         /\ {<<q, from[q]>> : q \in {r \in DOMAIN from : IsPrefixOf(p, r)}} =
            {<<q, to[q]>> : q \in {r \in DOMAIN to : IsPrefixOf(p, r)}}
-----------------------------------------------------------------------------
\* The index has no empty directories.
Entries(t) == \A p \in DOMAIN t : t[p] = Dir => FilesUnder(t, p) # {}

DiffInit ==
    /\ from \in Trees /\ to \in Trees
    /\ opaque \in BOOLEAN
    /\ index \in IF opaque THEN {"from", "to"} ELSE {"from"}
    /\ opaque => Entries(IF index = "from" THEN from ELSE to)
    /\ skipped \in IF opaque THEN {s \in SUBSET FilesUnder(TreeOf(index), None) :
                                       Cardinality(s) <= MaxSkipped}
                   ELSE {{}}
    /\ opts \in IF opaque THEN {[detect |-> FALSE, limit |-> 0, onlyExact |-> FALSE]}
                ELSE Options
    /\ stage = "walk"
    /\ it = [from |-> <<Frame(from, None)>>, to |-> <<Frame(to, None)>>]
    /\ changes = <<>>
    /\ hashes = {} /\ added = {} /\ deleted = {} /\ renamed = {}

Add(list) ==
    /\ changes' = changes \o list
    /\ UNCHANGED <<given, stage, detector>>

OnlyFromRemains ==
    /\ stage = "walk" /\ cf # None /\ ct = None
    /\ Add(IF Skip("from", cf) THEN <<>> ELSE Deletes(cf))
    /\ NextFrom

OnlyToRemains ==
    /\ stage = "walk" /\ cf = None /\ ct # None
    /\ Add(IF Skip("to", ct) THEN <<>> ELSE Inserts(ct))
    /\ NextTo

BothHaveNodes == stage = "walk" /\ cf # None /\ ct # None

\* A skipped node takes along the node of the other side that has its name:
\* the last name, not the path.
SkipFrom ==
    /\ BothHaveNodes /\ Skip("from", cf)
    /\ Add(<<>>)
    /\ IF Last(cf) = Last(ct) THEN NextBoth ELSE NextFrom

SkipTo ==
    /\ BothHaveNodes /\ ~ Skip("from", cf) /\ Skip("to", ct)
    /\ Add(<<>>)
    /\ IF Last(cf) = Last(ct) THEN NextBoth ELSE NextTo

Compared == BothHaveNodes /\ ~ Skip("from", cf) /\ ~ Skip("to", ct)

FromBeforeTo ==
    /\ Compared /\ PathLess(cf, ct)
    /\ Add(Deletes(cf))
    /\ NextFrom

ToBeforeFrom ==
    /\ Compared /\ PathLess(ct, cf)
    /\ Add(Inserts(ct))
    /\ NextTo

\* Mutant of DiffNodesSameName: a directory that replaces a file is not
\* inserted.
LostDirDiffNodesSameName ==
    /\ Compared /\ cf = ct
    /\ IF SameHash(cf) THEN Add(<<>>) /\ NextBoth
       ELSE IF from[cf] # Dir /\ to[ct] # Dir THEN Add(Modify(cf)) /\ NextBoth
       ELSE IF (from[cf] = Dir) # (to[ct] = Dir) THEN Add(Deletes(cf)) /\ NextBoth
       ELSE IF Children(from, cf) = {} THEN Add(Inserts(ct)) /\ NextBoth
       ELSE IF Children(to, ct) = {} THEN Add(Deletes(cf)) /\ NextBoth
       ELSE Add(<<>>) /\ StepBoth

\* diffNodesSameName and diffDirs.
DiffNodesSameName ==
    /\ Compared /\ cf = ct
    /\ IF SameHash(cf) THEN Add(<<>>) /\ NextBoth
       ELSE IF from[cf] # Dir /\ to[ct] # Dir THEN Add(Modify(cf)) /\ NextBoth
       ELSE IF (from[cf] = Dir) # (to[ct] = Dir)
            THEN Add(Deletes(cf) \o Inserts(ct)) /\ NextBoth
       ELSE IF Children(from, cf) = {} THEN Add(Inserts(ct)) /\ NextBoth
       ELSE IF Children(to, ct) = {} THEN Add(Deletes(cf)) /\ NextBoth
       ELSE Add(<<>>) /\ StepBoth

\* The context expires between two turns.
Cancel ==
    /\ stage = "walk"
    /\ stage' = "canceled"
    /\ UNCHANGED <<given, it, changes, detector>>
-----------------------------------------------------------------------------
(***************************************************************************)
(* Renames.                                                                *)
(***************************************************************************)
Deleted == {changes[i].from : i \in {j \in DOMAIN changes : changes[j].to = None}}
Inserted == {changes[i].to : i \in {j \in DOMAIN changes : changes[j].from = None}}

\* The walk is over.  DetectRenames sorts the changes by action and detect
\* starts, if there is something to match.
NoMoreNoders ==
    /\ stage = "walk" /\ cf = None /\ ct = None
    /\ added' = Inserted /\ deleted' = Deleted
    /\ IF opts.detect /\ Inserted # {} /\ Deleted # {}
       THEN stage' = "exact" /\ hashes' = {to[p][1] : p \in Inserted}
       ELSE stage' = "done" /\ UNCHANGED hashes
    /\ UNCHANGED <<given, it, changes, renamed>>

SameMode(d, a) == from[d][2] = to[a][2]

\* bestNameMatch: the first of the most similar ones, and none when there is
\* no similarity at all.
BestNameMatch(p, qs) ==
    LET best == {q \in qs : /\ NameScore(p, q) > 0
                            /\ \A r \in qs : NameScore(p, r) <= NameScore(p, q)}
    IN IF best = {} THEN None
       ELSE CHOOSE q \in best : \A r \in best : r = q \/ PathLess(q, r)

\* The matrix of detectExactRenames for several deletions and additions of one
\* hash: every pair up to the limit, the best first; modes do not count.
NameMatrix(ds, as) ==
    LET before(x, y) == PathLess(x[1], y[1]) \/ (x[1] = y[1] /\ PathLess(x[2], y[2]))
    IN {x \in ds \X as : \/ opts.limit = 0
                         \/ Cardinality({y \in ds \X as : before(y, x)}) < opts.limit}

\* Greedy matching: the pair with the highest score, then the later ones.
Matched(matrix) ==
    LET later(x, y) ==
            \/ NameScore(x[2], x[1]) > NameScore(y[2], y[1])
            \/ /\ NameScore(x[2], x[1]) = NameScore(y[2], y[1])
               /\ PathLess(y[2], x[2]) \/ (x[2] = y[2] /\ PathLess(y[1], x[1]))
        M[S \in SUBSET matrix] ==
            IF S = {} THEN {}
            ELSE LET x == CHOOSE x \in S : \A y \in S \ {x} : later(x, y)
                 IN {x} \cup M[{y \in S : y[1] # x[1] /\ y[2] # x[2]}]
    IN M[matrix]

\* Mutant of ExactMatches: the deletion matched stays with the others.
GreedyExactMatches(ds, as) == ds \X as

\* The renames among the deletions ds and the additions as of one hash.
ExactMatches(ds, as) ==
    LET a == CHOOSE a \in as : TRUE
        d == CHOOSE d \in ds : TRUE
        sole(e, b) == IF e # None /\ b # None /\ SameMode(e, b) THEN {<<e, b>>} ELSE {}
    IN IF ds = {} THEN {}
       ELSE IF Cardinality(as) = 1
       THEN sole(IF Cardinality(ds) = 1 THEN d ELSE BestNameMatch(a, ds), a)
       ELSE IF Cardinality(ds) = 1 THEN sole(d, BestNameMatch(d, as))
       ELSE Matched(NameMatrix(ds, as))

\* An addition with several deletions of its hash but no match among them is
\* kept by neither branch of the code.
Dropped(ds, as) ==
    IF Cardinality(as) = 1 /\ Cardinality(ds) > 1 /\ ExactMatches(ds, as) = {}
    THEN as ELSE {}

\* detectExactRenames, one hash at a time.
DetectExactRenames(h) ==
    LET ds == {p \in deleted : from[p][1] = h}
        as == {p \in added : to[p][1] = h}
        m == ExactMatches(ds, as)
    IN /\ stage = "exact" /\ h \in hashes
       /\ renamed' = renamed \cup m
       /\ deleted' = deleted \ {x[1] : x \in m}
       /\ added' = (added \ {x[2] : x \in m}) \ Dropped(ds, as)
       /\ hashes' = hashes \ {h}
       /\ UNCHANGED <<given, stage, it, changes>>

ExactRenamesDone ==
    /\ stage = "exact" /\ hashes = {}
    /\ stage' = IF opts.onlyExact
                \/ (opts.limit > 0
                      /\ Max({Cardinality(added), Cardinality(deleted)}) > opts.limit)
             THEN "done" ELSE "content"
    /\ UNCHANGED <<given, it, changes, detector>>

\* The score buildSimilarityMatrix gives a pair of regular files.
Score(d, a) == (Similarity(from[d][1], to[a][1]) * 99 + NameScore(d, a)) \div 100

SimilarityMatrix ==
    {x \in deleted \X added :
        /\ from[x[1]][2] = "regular" /\ to[x[2]][2] = "regular"
        /\ Score(x[1], x[2]) >= RenameScore}

\* detectContentRenames takes the pairs by falling score.  The order of equal
\* scores is that of the lists, which come out of maps.
DetectContentRename(x) ==
    /\ stage = "content" /\ x \in SimilarityMatrix
    /\ \A y \in SimilarityMatrix : Score(y[1], y[2]) <= Score(x[1], x[2])
    /\ renamed' = renamed \cup {x}
    /\ deleted' = deleted \ {x[1]} /\ added' = added \ {x[2]}
    /\ UNCHANGED <<given, stage, it, changes, hashes>>

ContentRenamesDone ==
    /\ stage = "content" /\ SimilarityMatrix = {}
    /\ stage' = "done"
    /\ UNCHANGED <<given, it, changes, detector>>

DiffReturned ==
    /\ stage \in {"done", "canceled"}
    /\ UNCHANGED diffVars

DiffNext ==
    \/ OnlyFromRemains \/ OnlyToRemains \/ SkipFrom \/ SkipTo
    \/ FromBeforeTo \/ ToBeforeFrom \/ DiffNodesSameName
    \/ Cancel \/ NoMoreNoders
    \/ \E h \in hashes : DetectExactRenames(h)
    \/ ExactRenamesDone
    \/ \E x \in deleted \X added : DetectContentRename(x)
    \/ ContentRenamesDone
    \/ DiffReturned

DiffSpec == DiffInit /\ [][DiffNext]_diffVars
-----------------------------------------------------------------------------
\* At or below a skipped node of the index.
Ignored(p) ==
    \E i \in 1 .. Len(p) : /\ SubSeq(p, 1, i) \in DOMAIN TreeOf(index)
                           /\ Skip(index, SubSeq(p, 1, i))

IsFile(t, p) == p \in DOMAIN t /\ t[p] # Dir

\* What the comparison must find, file by file.
Expected ==
    LET all == {p \in DOMAIN from \cup DOMAIN to : ~ Ignored(p)}
    IN {[from |-> p, to |-> None] : p \in {q \in all : IsFile(from, q) /\ ~ IsFile(to, q)}}
         \cup {[from |-> None, to |-> p] :
                  p \in {q \in all : ~ IsFile(from, q) /\ IsFile(to, q)}}
         \cup {[from |-> p, to |-> p] :
                  p \in {q \in all : IsFile(from, q) /\ IsFile(to, q) /\ from[q] # to[q]}}

\* A skipped node has the last name of a node of the other tree.
Collides ==
    \E p \in DOMAIN TreeOf(index), q \in DOMAIN TreeOf(IF index = "from" THEN "to" ELSE "from") :
        Skip(index, p) /\ Last(p) = Last(q)

Walked == stage \notin {"walk", "canceled"}

\* One step of the comparison at a time.
DiffTypeOK ==
    /\ from \in Trees /\ to \in Trees
    /\ stage \in {"walk", "exact", "content", "done", "canceled"}
    /\ added \subseteq DOMAIN to /\ deleted \subseteq DOMAIN from
    /\ renamed \subseteq (DOMAIN from) \X (DOMAIN to)

(***************************************************************************)
(* DiffTree finds every file that was inserted, deleted or modified, and   *)
(* nothing else, each once: comparing directories by hash, stepping into   *)
(* them on both sides and leaving them at different times loses and        *)
(* repeats nothing.  It also leaves out skip-worktree entries, provided    *)
(* no node of the other tree has their last name.                          *)
(***************************************************************************)
DiffIsExact ==
    (Walked /\ ~ Collides) =>
        /\ ToSet(changes) = Expected
        /\ Len(changes) = Cardinality(Expected)

(***************************************************************************)
(* The detection of renames groups insertions and deletions and changes    *)
(* nothing else: every deletion and every insertion comes out once, on its *)
(* own or in one rename.  Excepted is the insertion with several identical *)
(* deletions of which none matches it, which detectExactRenames loses.     *)
(***************************************************************************)
Lossy ==
    \E h \in {to[p][1] : p \in Inserted} :
        Dropped({p \in Deleted : from[p][1] = h}, {p \in Inserted : to[p][1] = h}) # {}

RenamesKeepChanges ==
    (stage \in {"content", "done"} /\ ~ Lossy) =>
        LET sources == {x[1] : x \in renamed}
            targets == {x[2] : x \in renamed}
        IN /\ Deleted = deleted \cup sources /\ deleted \cap sources = {}
           /\ Inserted = added \cup targets /\ added \cap targets = {}
           /\ Cardinality(renamed) = Cardinality(sources)
           /\ Cardinality(renamed) = Cardinality(targets)

(***************************************************************************)
(* The same without the exception: what the comment of DetectRenames says. *)
(***************************************************************************)
RenamesLoseNothing ==
    stage = "done" => Inserted = added \cup {x[2] : x \in renamed}

(***************************************************************************)
(* The comparison leaves out what is at or below a skip-worktree entry and *)
(* nothing else, whatever the other tree has.  The iterators fall out of   *)
(* step at skipped nodes: these are compared by last name and passed over  *)
(* although the other side is still before them.                           *)
(***************************************************************************)
SparseDiffIsExact == Walked => ToSet(changes) = Expected
=============================================================================
