----------------------------- MODULE WalkProofs -----------------------------
(***************************************************************************)
(* Proofs about the two walks: RevList, over commits, and TreeDiff, over   *)
(* two trees and then over the renames among their differences.            *)
(*                                                                         *)
(* RevList: for every history, every assignment of committer times, every  *)
(* cut of the graph and any number of commits.  The painting walk stops    *)
(* early, so the invariants say what the paint means at any turn: where    *)
(* "have" may stand, why a commit with "want" is not yet in the result,    *)
(* and what a missing parent is evidence of.                               *)
(***************************************************************************)
EXTENDS RevList, TreeDiff, FiniteSetTheorems, SequenceTheorems, TLAPS

Painting == pc \in {"paint", "collect"}

\* The flag "have" is only ever put on commits the peer holds.
HaveIsHeld == \A c \in Commit : "have" \in flags[c] => c \in Held

\* The wants are painted, and so are the parents of every new commit.
WantsSpread ==
    /\ Painting => wants \subseteq present
    /\ Painting => \A c \in wants : "want" \in flags[c]
    /\ \A c \in newCommits :
          c \in present /\ \A p \in {c} \cup ParentsOf(c) : "want" \in flags[p]

\* A commit painted "want" is still queued, held by the peer, or new; one that
\* the repository lacks was recorded as missing, with the child that names it.
WantIsAccounted ==
    /\ Painting =>
          \A c \in Commit : "want" \in flags[c] =>
              IF c \in present
              THEN c \in queue \/ "have" \in flags[c] \/ c \in newCommits
              ELSE \E d \in Commit : <<c, d>> \in missing
    /\ \A m \in missing : m[1] \in ParentsOf(m[2])

\* The call starts with nothing recorded.
FreshStart == pc = "seed" => newCommits = {} /\ missing = {} /\ result.commits = {}

\* The loop ends only when the queue is stale.
StaleAtEnd == pc = "collect" => AllStale(queue, flags)

\* Without haves there is no painting from the other side: every commit seen is
\* in the result or queued.
FullAccounted ==
    pc = "full" =>
        /\ KnownHaves = {}
        /\ \A c \in Commit : "have" \notin flags[c]
        /\ \A c \in wants : "want" \in flags[c]
        /\ \A c \in Commit : "want" \in flags[c] => c \in queue \cup result.commits
        /\ \A c \in result.commits :
              Tree[c] \in result.trees /\ \A p \in ParentsOf(c) : "want" \in flags[p]

CompleteInv ==
    /\ TypeOK /\ HaveIsHeld /\ WantsSpread /\ WantIsAccounted /\ StaleAtEnd
    /\ FreshStart /\ FullAccounted /\ ResultCompletes
-----------------------------------------------------------------------------
\* The parents of a commit are commits.
LEMMA ParentsType ==
    ASSUME TypeOK, NEW c \in Commit
    PROVE  ParentsOf(c) \subseteq Commit
  BY DEF TypeOK, ParentsOf

\* What a peer holds contains the known haves and the parents of what it holds.
LEMMA HeldClosed ==
    ASSUME TypeOK
    PROVE  /\ KnownHaves \subseteq Held
           /\ \A c \in Held : ParentsOf(c) \subseteq Held
  <1>1. KnownHaves \subseteq Held
    BY DEF TypeOK, KnownHaves, Held, Closed
  <1>2. ASSUME NEW c \in Held, NEW p \in ParentsOf(c) PROVE p \in Held
    <2>1. c \in Commit /\ p \in Commit
      BY ParentsType DEF Held
    <2>2. ASSUME NEW s \in SUBSET Commit, Closed(s, Commit) PROVE p \in s
      <3>1. c \in s
        BY <2>2 DEF Held
      <3> QED BY <2>1, <2>2, <3>1 DEF Closed
    <2> QED BY <2>1, <2>2 DEF Held
  <1> QED BY <1>1, <1>2

\* The walk does not change the history it walks.
LEMMA InputStays ==
    ASSUME UNCHANGED input
    PROVE  /\ KnownHaves' = KnownHaves
           /\ Held' = Held /\ Traced' = Traced
           /\ Monotone' = Monotone
           /\ \A c : ParentsOf(c)' = ParentsOf(c)
           /\ UNCHANGED <<parents, time, present, shallows, wants, haves>>
  BY DEF input, KnownHaves, ParentsOf, Closed, Held, Traced, Monotone

\* Before the call nothing is painted.
LEMMA WalkInit == Init => CompleteInv
  <1> SUFFICES ASSUME Init PROVE CompleteInv
    OBVIOUS
  <1>1. TypeOK
    BY TimesAssumption DEF Init, TypeOK, Histories, Tips
  <1>2. HaveIsHeld /\ WantsSpread /\ WantIsAccounted
    BY DEF Init, HaveIsHeld, WantsSpread, WantIsAccounted, Painting
  <1>3. FreshStart /\ StaleAtEnd /\ FullAccounted /\ ResultCompletes
    BY DEF Init, FreshStart, StaleAtEnd, FullAccounted, ResultCompletes
  <1> QED BY <1>1, <1>2, <1>3 DEF CompleteInv

\* Seeding the walk keeps the invariant.
LEMMA SeedStep == ASSUME CompleteInv, Seed PROVE CompleteInv'
  <1>1. UNCHANGED input /\ UNCHANGED <<newCommits, missing, result>> /\ pc = "seed"
    BY DEF Seed
  <1>2. TypeOK'
    BY <1>1 DEF Seed, TypeOK, CompleteInv, input, KnownHaves
  <1>3. HaveIsHeld'
    BY <1>1, InputStays, HeldClosed DEF Seed, HaveIsHeld, CompleteInv
  <1>4. newCommits = {} /\ missing = {} /\ result.commits = {}
    BY <1>1 DEF CompleteInv, FreshStart
  <1>5. WantsSpread' /\ WantIsAccounted'
    BY <1>1, <1>4, InputStays DEF Seed, WantsSpread, WantIsAccounted, Painting, CompleteInv, TypeOK
  <1>6. StaleAtEnd' /\ FreshStart' /\ ResultCompletes'
    BY DEF Seed, FreshStart, StaleAtEnd, ResultCompletes
  <1>7. FullAccounted'
    BY <1>1, <1>4, InputStays DEF Seed, FullAccounted, CompleteInv, TypeOK
  <1> QED BY <1>2, <1>3, <1>5, <1>6, <1>7 DEF CompleteInv

\* What one turn of the painting loop does to the paint: flags only grow, the
\* parents have all the flags of the commit taken, and a present parent that
\* gained one is queued.
LEMMA PaintFacts ==
    ASSUME TypeOK, NEW c \in Commit, Paint(c)
    PROVE  /\ c \in queue /\ c \in present
           /\ \A x \in Commit : flags[x] \subseteq flags'[x]
           /\ \A x \in Commit \ Repainted(c) : flags'[x] = flags[x]
           /\ \A x \in Commit : \A f \in flags'[x] \ flags[x] :
                 f \in flags[c] /\ x \in Repainted(c)
           /\ \A p \in ParentsOf(c) : flags[c] \subseteq flags'[p]
           /\ Repainted(c) \subseteq ParentsOf(c)
           /\ c \notin Repainted(c)
           /\ \A m \in missing' : m \in missing \/ \E p \in ParentsOf(c) : m = <<p, c>>
  <1>1. \A m \in missing' : m \in missing \/ \E p \in Repainted(c) : m = <<p, c>>
    BY DEF Paint
  <1> QED BY <1>1, ParentsType DEF TypeOK, Paint, Newest, Repainted

\* A turn of the painting loop keeps the types.
LEMMA PaintTypes == ASSUME TypeOK, NEW c \in Commit, Paint(c) PROVE TypeOK'
  <1>1. flags' \in [Commit -> SUBSET {"want", "have"}]
    BY DEF TypeOK, Paint
  <1>2. queue' \subseteq present' /\ newCommits' \subseteq Commit
    BY PaintFacts DEF TypeOK, Paint, input
  <1>3. missing' \subseteq Commit \X Commit
    BY PaintFacts, ParentsType DEF TypeOK
  <1> QED BY <1>1, <1>2, <1>3 DEF TypeOK, Paint, input

\* A turn of the painting loop keeps the invariant.
LEMMA PaintStep == ASSUME CompleteInv, NEW c \in Commit, Paint(c) PROVE CompleteInv'
  <1>1. UNCHANGED input /\ UNCHANGED result /\ pc = "paint" /\ pc' \in {"paint", "collect"}
    BY DEF Paint
  <1>2. TypeOK /\ TypeOK'
    BY PaintTypes DEF CompleteInv
  <1>3. HaveIsHeld'
    <2> SUFFICES ASSUME NEW x \in Commit, "have" \in flags'[x] PROVE x \in Held
      BY <1>1, InputStays DEF HaveIsHeld
    <2>1. CASE "have" \in flags[x]
      BY <2>1 DEF CompleteInv, HaveIsHeld
    <2>2. CASE "have" \notin flags[x]
      <3>1. "have" \in flags[c] /\ x \in ParentsOf(c)
        BY <1>2, <2>2, PaintFacts
      <3> QED BY <1>2, <3>1, HeldClosed DEF CompleteInv, HaveIsHeld
    <2> QED BY <2>1, <2>2
  <1>4. WantsSpread'
    <2>1. \A x \in newCommits' : x \in newCommits \/ (x = c /\ flags[c] = {"want"})
      BY DEF Paint
    <2>2. \A x \in newCommits' : \A p \in {x} \cup ParentsOf(x) : "want" \in flags'[p]
      BY <1>2, <2>1, PaintFacts, ParentsType DEF CompleteInv, WantsSpread, TypeOK
    <2>3. newCommits' \subseteq present
      BY <1>2, <2>1, PaintFacts DEF CompleteInv, WantsSpread
    <2>4. wants \subseteq present /\ \A x \in wants : "want" \in flags'[x]
      BY <1>1, <1>2, PaintFacts DEF CompleteInv, WantsSpread, Painting, TypeOK
    <2> QED BY <1>1, <2>2, <2>3, <2>4, InputStays DEF WantsSpread
  <1>5. WantIsAccounted'
    <2>1. ASSUME NEW x \in Commit, "want" \in flags'[x], x \in present
          PROVE  x \in queue' \/ "have" \in flags'[x] \/ x \in newCommits'
      <3>1. CASE x \in Repainted(c)
        BY <2>1, <3>1 DEF Paint
      <3>2. CASE x = c
        BY <1>2, <2>1, <3>2, PaintFacts DEF Paint, TypeOK
      <3>3. CASE x \notin Repainted(c) /\ x # c
        BY <1>1, <1>2, <2>1, <3>3, PaintFacts DEF Paint, CompleteInv, WantIsAccounted, Painting
      <3> QED BY <3>1, <3>2, <3>3
    <2>2. ASSUME NEW x \in Commit, "want" \in flags'[x], x \notin present
          PROVE  \E d \in Commit : <<x, d>> \in missing'
      <3>1. CASE x \in Repainted(c)
        BY <2>2, <3>1 DEF Paint
      <3>2. CASE x \notin Repainted(c)
        BY <1>1, <1>2, <2>2, <3>2, PaintFacts DEF Paint, CompleteInv, WantIsAccounted, Painting
      <3> QED BY <3>1, <3>2
    <2>3. \A m \in missing' : m[1] \in ParentsOf(m[2])
      BY <1>2, PaintFacts DEF CompleteInv, WantIsAccounted
    <2> QED BY <1>1, <2>1, <2>2, <2>3, InputStays DEF WantIsAccounted
  <1>6. StaleAtEnd' /\ FreshStart' /\ FullAccounted' /\ ResultCompletes'
    BY DEF Paint, StaleAtEnd, FreshStart, FullAccounted, ResultCompletes, AllStale
  <1> QED BY <1>2, <1>3, <1>4, <1>5, <1>6 DEF CompleteInv

\* At the end of the painting a commit painted "want" is kept or held.
LEMMA WantKeptOrHeld ==
    ASSUME CompleteInv, pc = "collect", Unexplained = {},
           NEW c \in Commit, "want" \in flags[c]
    PROVE  c \in Kept \cup Held
  <1>1. CASE "have" \in flags[c]
    BY <1>1 DEF CompleteInv, HaveIsHeld
  <1>2. CASE "have" \notin flags[c] /\ c \in present
    BY <1>2 DEF CompleteInv, WantIsAccounted, Painting, StaleAtEnd, AllStale, Kept
  <1>3. CASE c \notin present
    <2>1. PICK d \in Commit : <<c, d>> \in missing
      BY <1>3 DEF CompleteInv, WantIsAccounted, Painting
    <2>2. "have" \in flags[d] /\ c \in ParentsOf(d)
      BY <2>1 DEF Unexplained, CompleteInv, WantIsAccounted
    <2>3. d \in Held
      BY <2>2 DEF CompleteInv, HaveIsHeld
    <2> QED BY <2>2, <2>3, HeldClosed DEF CompleteInv
  <1> QED BY <1>1, <1>2, <1>3

\* Collecting the result keeps the invariant.
LEMMA CollectStep == ASSUME CompleteInv, Collect PROVE CompleteInv'
  <1>1. UNCHANGED input /\ UNCHANGED <<flags, queue, newCommits, missing>> /\ pc = "collect"
        /\ pc' \in {"error", "done"}
    BY DEF Collect
  <1>2. TypeOK /\ TypeOK'
    BY <1>1 DEF CompleteInv, TypeOK, Collect, Kept, input
  <1>3. HaveIsHeld' /\ WantsSpread' /\ WantIsAccounted'
    BY <1>1, InputStays DEF CompleteInv, HaveIsHeld, WantsSpread, WantIsAccounted, Painting
  <1>4. StaleAtEnd' /\ FreshStart' /\ FullAccounted'
    BY <1>1 DEF StaleAtEnd, FreshStart, FullAccounted
  <1>5. ResultCompletes'
    <2> SUFFICES ASSUME pc' = "done"
                 PROVE  /\ wants \subseteq Kept \cup Held
                        /\ \A c \in Kept :
                              /\ ParentsOf(c) \subseteq Kept \cup Held
                              /\ Tree[c] \in ({Tree[k] : k \in Kept} \ SeenTrees)
                                                \cup {Tree[h] : h \in Held}
      BY <1>1, InputStays DEF Collect, ResultCompletes
    <2>1. Unexplained = {}
      BY DEF Collect
    <2>2. wants \subseteq Kept \cup Held
      BY <1>1, <1>2, <2>1, WantKeptOrHeld DEF CompleteInv, WantsSpread, Painting, TypeOK
    <2>3. ASSUME NEW c \in Kept PROVE ParentsOf(c) \subseteq Kept \cup Held
      BY <1>1, <1>2, <2>1, WantKeptOrHeld, ParentsType DEF CompleteInv, WantsSpread, Kept, TypeOK
    <2>4. SeenTrees \subseteq {Tree[h] : h \in Held}
      BY <1>2, HeldClosed DEF SeenTrees, CompleteInv, HaveIsHeld, TypeOK
    <2> QED BY <2>2, <2>3, <2>4
  <1> QED BY <1>2, <1>3, <1>4, <1>5 DEF CompleteInv

\* A turn of walkFull keeps the invariant.
LEMMA FullStep == ASSUME CompleteInv, NEW c \in Commit, WalkFull(c) PROVE CompleteInv'
  <1> DEFINE next == {p \in ParentsOf(c) : "want" \notin flags[p]}
  <1>1. /\ UNCHANGED input /\ UNCHANGED <<newCommits, missing>>
        /\ pc = "full" /\ pc' \in {"full", "error"}
        /\ c \in queue
        /\ flags' = [p \in Commit |-> IF p \in next THEN {"want"} ELSE flags[p]]
        /\ queue' = (queue \ {c}) \cup (next \cap present)
        /\ pc' = "full" => next \subseteq present
        /\ result' = [commits |-> result.commits \cup {c},
                      trees |-> result.trees \cup {Tree[c]}]
    BY DEF WalkFull, Newest
  <1>2. TypeOK /\ next \subseteq Commit
    BY ParentsType DEF CompleteInv
  <1> HIDE DEF next
  <1>3. TypeOK'
    BY <1>1, <1>2 DEF TypeOK, input
  <1>4. \A x \in Commit : /\ "have" \notin flags'[x] /\ "have" \notin flags[x]
                          /\ "want" \in flags'[x] <=> "want" \in flags[x] \/ x \in next
    BY <1>1, <1>2 DEF CompleteInv, FullAccounted
  <1>5. HaveIsHeld'
    BY <1>4 DEF HaveIsHeld
  <1>6. WantsSpread' /\ WantIsAccounted'
    <2>1. \A x \in newCommits : \A p \in {x} \cup ParentsOf(x) : "want" \in flags'[p]
      BY <1>2, <1>4, ParentsType DEF CompleteInv, WantsSpread, TypeOK
    <2> QED BY <1>1, <2>1, InputStays DEF CompleteInv, WantsSpread, WantIsAccounted, Painting
  <1>7. StaleAtEnd' /\ FreshStart' /\ ResultCompletes'
    BY <1>1 DEF StaleAtEnd, FreshStart, ResultCompletes
  <1>8. FullAccounted'
    <2> SUFFICES ASSUME pc' = "full" PROVE FullAccounted'
      BY DEF FullAccounted
    <2>1. \A x \in wants : "want" \in flags'[x]
      BY <1>1, <1>2, <1>4 DEF CompleteInv, FullAccounted, TypeOK
    <2>2. \A x \in Commit : "want" \in flags'[x] => x \in queue' \cup result'.commits
      BY <1>1, <1>2, <1>4 DEF CompleteInv, FullAccounted
    <2>3. \A p \in ParentsOf(c) : "want" \in flags'[p]
      BY <1>2, <1>4, ParentsType DEF next
    <2>4. ASSUME NEW x \in result'.commits
          PROVE Tree[x] \in result'.trees /\ \A p \in ParentsOf(x) : "want" \in flags'[p]
      BY <1>1, <1>2, <1>4, <2>3, ParentsType DEF CompleteInv, FullAccounted, TypeOK
    <2> QED BY <1>1, <1>4, <2>1, <2>2, <2>4, InputStays DEF CompleteInv, FullAccounted
  <1> QED BY <1>3, <1>5, <1>6, <1>7, <1>8 DEF CompleteInv

\* The end of walkFull keeps the invariant: the queue is empty.
LEMMA FullDoneStep == ASSUME CompleteInv, FullDone PROVE CompleteInv'
  <1>1. UNCHANGED input /\ UNCHANGED <<flags, queue, newCommits, missing, result>>
        /\ pc = "full" /\ pc' = "done" /\ queue = {}
    BY DEF FullDone
  <1>2. TypeOK /\ TypeOK'
    BY <1>1 DEF CompleteInv, TypeOK, input
  <1>3. HaveIsHeld' /\ WantsSpread' /\ WantIsAccounted'
    BY <1>1, InputStays DEF CompleteInv, HaveIsHeld, WantsSpread, WantIsAccounted, Painting
  <1>4. StaleAtEnd' /\ FreshStart' /\ FullAccounted'
    BY <1>1 DEF StaleAtEnd, FreshStart, FullAccounted
  <1>5. ResultCompletes'
    <2>1. wants \subseteq result.commits
      BY <1>1, <1>2 DEF CompleteInv, FullAccounted, TypeOK
    <2>2. \A c \in result.commits : ParentsOf(c) \subseteq result.commits
      BY <1>1, <1>2, ParentsType DEF CompleteInv, FullAccounted, TypeOK
    <2> QED BY <1>1, <2>1, <2>2, InputStays DEF CompleteInv, FullAccounted, ResultCompletes
  <1> QED BY <1>2, <1>3, <1>4, <1>5 DEF CompleteInv

\* The invariant of the walk, in every behaviour.
LEMMA WalkInvariant == Spec => []CompleteInv
  <1>1. ASSUME CompleteInv, [Next]_vars PROVE CompleteInv'
    <2>1. CASE UNCHANGED vars
      <3>1. UNCHANGED input /\ UNCHANGED <<pc, flags, queue, newCommits, missing, result>>
        BY <2>1 DEF vars
      <3>2. TypeOK' /\ HaveIsHeld' /\ StaleAtEnd' /\ FreshStart' /\ ResultCompletes'
        BY <1>1, <3>1, InputStays DEF CompleteInv, TypeOK, HaveIsHeld, StaleAtEnd,
           FreshStart, ResultCompletes, AllStale
      <3>3. WantsSpread' /\ WantIsAccounted' /\ FullAccounted'
        BY <1>1, <3>1, InputStays DEF CompleteInv, WantsSpread, WantIsAccounted,
           FullAccounted, Painting
      <3> QED BY <3>2, <3>3 DEF CompleteInv
    <2> QED BY <1>1, <2>1, SeedStep, PaintStep, FullStep, CollectStep, FullDoneStep
           DEF Next, Returned
  <1> QED BY WalkInit, <1>1, PTL DEF Spec

\* The state of the walk keeps its shape.
THEOREM WalkTypes == Spec => []TypeOK
  <1>1. CompleteInv => TypeOK
    BY DEF CompleteInv
  <1> QED BY WalkInvariant, <1>1, PTL

(***************************************************************************)
(* Whatever the history, the committer times and the cuts, what            *)
(* revlist.Objects returns completes the wants for a peer that holds the   *)
(* haves: stopping early loses no commit, a tolerated missing parent is    *)
(* with the peer, and so is every tree left out as seen.                   *)
(***************************************************************************)
THEOREM WalkCompletes == Spec => []ResultCompletes
  <1>1. CompleteInv => ResultCompletes
    BY DEF CompleteInv
  <1> QED BY WalkInvariant, <1>1, PTL
-----------------------------------------------------------------------------
(* When the committer times increase along the history the walk is exact.   *)

\* The commits that were taken out with nothing newer left behind them: the new
\* commits and the children whose parent is missing.
Judged == newCommits \cup {m[2] : m \in missing}

\* The queue never holds a commit newer than one already judged.
QueueIsOlder ==
    (Painting /\ Monotone) => \A c \in Judged : \A d \in queue : time[d] <= time[c]

\* A have is still queued or has passed the flag to all its parents.
HaveSpreads ==
    Painting =>
        /\ \A c \in KnownHaves : "have" \in flags[c]
        /\ \A c \in present \ queue :
              "have" \in flags[c] => \A p \in ParentsOf(c) : "have" \in flags[p]

ExactInv == QueueIsOlder /\ HaveSpreads /\ NothingResent /\ ErrorsAreReal

\* What the flag "have" covers and what the queued haves can still reach.
Covered ==
    {x \in Commit : \/ "have" \in flags[x]
                    \/ \E d \in queue : "have" \in flags[d] /\ time[x] < time[d]}

\* With increasing times everything traceable from the haves is covered.
LEMMA TracedCovered ==
    ASSUME CompleteInv, HaveSpreads, Painting, Monotone
    PROVE  Traced \subseteq Covered
  <1>1. TypeOK
    BY DEF CompleteInv
  <1>2. KnownHaves \subseteq Covered
    BY <1>1 DEF HaveSpreads, Covered, KnownHaves, TypeOK
  <1>3. ASSUME NEW x \in Covered \cap present, NEW p \in ParentsOf(x)
        PROVE  p \in Covered
    <2>1. x \in Commit /\ p \in Commit /\ p \in parents[x] /\ time[p] < time[x]
      BY <1>1, ParentsType DEF Covered, ParentsOf, Monotone
    <2>2. time[p] \in Nat /\ time[x] \in Nat
      BY <1>1, <2>1 DEF TypeOK
    <2>3. CASE "have" \in flags[x] /\ x \in queue
      BY <2>1, <2>3 DEF Covered
    <2>4. CASE "have" \in flags[x] /\ x \notin queue
      BY <2>1, <2>4 DEF HaveSpreads, Covered
    <2>5. CASE \E d \in queue : "have" \in flags[d] /\ time[x] < time[d]
      <3>1. PICK d \in queue : "have" \in flags[d] /\ time[x] < time[d]
        BY <2>5
      <3>2. time[d] \in Nat
        BY <1>1 DEF TypeOK
      <3>3. time[p] < time[d]
        BY <2>1, <2>2, <3>1, <3>2
      <3> QED BY <2>1, <3>1, <3>3 DEF Covered
    <2> QED BY <2>3, <2>4, <2>5 DEF Covered
  <1>4. Covered \in SUBSET Commit /\ Closed(Covered, present)
    BY <1>2, <1>3 DEF Closed, Covered
  <1> QED BY <1>4 DEF Traced

\* At the end of the painting a judged commit without "have" cannot be traced.
LEMMA JudgedNotTraced ==
    ASSUME CompleteInv, ExactInv, Painting, Monotone,
           NEW c \in Judged, "have" \notin flags[c]
    PROVE  c \notin Traced
  <1>1. TypeOK
    BY DEF CompleteInv
  <1>2. c \in Commit
    BY <1>1 DEF TypeOK, Judged
  <1>3. \A d \in queue : ~ (time[c] < time[d])
    BY <1>1, <1>2 DEF ExactInv, QueueIsOlder, TypeOK
  <1>4. c \notin Covered
    BY <1>3 DEF Covered
  <1> QED BY <1>4, TracedCovered DEF ExactInv

\* Without known haves nothing can be traced.
LEMMA NothingTraced == ASSUME KnownHaves = {} PROVE Traced = {}
  <1>1. {} \in SUBSET Commit /\ Closed({}, present)
    BY DEF Closed
  <1> QED BY <1>1 DEF Traced

\* A turn of the painting loop keeps the queue older than what was judged, and
\* passes "have" on.
LEMMA PaintExact ==
    ASSUME CompleteInv, ExactInv, NEW c \in Commit, Paint(c) PROVE ExactInv'
  <1>1. UNCHANGED input /\ pc = "paint" /\ pc' \in {"paint", "collect"}
    BY DEF Paint
  <1>2. TypeOK /\ TypeOK'
    BY PaintTypes DEF CompleteInv
  <1>3. QueueIsOlder'
    <2> SUFFICES ASSUME Monotone, NEW x \in Judged', NEW d \in queue'
                 PROVE  time[d] <= time[x]
      BY <1>1, InputStays DEF QueueIsOlder
    <2>1. x \in Judged \/ x = c
      BY <1>2, PaintFacts DEF Judged, Paint
    <2>2. d \in Commit /\ x \in Commit
      BY <1>2, <2>1 DEF TypeOK, Judged
    <2>3. time[d] \in Nat /\ time[x] \in Nat /\ time[c] \in Nat
      BY <1>2, <2>2 DEF TypeOK
    <2>4. time[d] <= time[c]
      <3>1. CASE d \in queue
        BY <3>1 DEF Paint, Newest
      <3>2. CASE d \in ParentsOf(c)
        BY <2>3, <3>2 DEF ParentsOf, Monotone
      <3> QED BY <1>2, <3>1, <3>2, PaintFacts DEF Paint
    <2>5. time[c] <= time[x]
      BY <1>1, <1>2, <2>1, <2>3, PaintFacts DEF ExactInv, QueueIsOlder, Painting
    <2> QED BY <2>3, <2>4, <2>5
  <1>4. HaveSpreads'
    <2>1. \A x \in KnownHaves : "have" \in flags'[x]
      BY <1>1, <1>2, PaintFacts DEF ExactInv, HaveSpreads, Painting, KnownHaves, TypeOK
    <2>2. ASSUME NEW x \in present \ queue', "have" \in flags'[x], NEW p \in ParentsOf(x)
          PROVE  "have" \in flags'[p]
      <3>1. x \in Commit /\ p \in Commit
        BY <1>2, ParentsType DEF TypeOK
      <3>2. x \notin Repainted(c)
        BY <2>2 DEF Paint
      <3>3. "have" \in flags[x]
        BY <1>2, <2>2, <3>1, <3>2, PaintFacts
      <3>4. CASE x = c
        BY <1>2, <2>2, <3>3, <3>4, PaintFacts
      <3>5. CASE x # c
        <4>1. x \notin queue
          BY <2>2, <3>5 DEF Paint
        <4>2. "have" \in flags[p]
          BY <1>1, <2>2, <3>3, <4>1 DEF ExactInv, HaveSpreads, Painting
        <4> QED BY <1>2, <3>1, <4>2, PaintFacts
      <3> QED BY <3>4, <3>5
    <2> QED BY <1>1, <2>1, <2>2, InputStays DEF HaveSpreads
  <1>5. NothingResent' /\ ErrorsAreReal'
    BY <1>1 DEF NothingResent, ErrorsAreReal
  <1> QED BY <1>3, <1>4, <1>5 DEF ExactInv

\* Collecting the result sends nothing traceable and fails only for a commit
\* that is not.
LEMMA CollectExact == ASSUME CompleteInv, ExactInv, Collect PROVE ExactInv'
  <1>1. UNCHANGED input /\ UNCHANGED missing /\ pc = "collect" /\ pc' \in {"error", "done"}
    BY DEF Collect
  <1>2. QueueIsOlder' /\ HaveSpreads'
    BY <1>1 DEF QueueIsOlder, HaveSpreads, Painting
  <1>3. NothingResent'
    <2>1. ASSUME pc' = "done" PROVE result'.commits = Kept
      BY <2>1 DEF Collect
    <2>2. Monotone => Kept \cap Traced = {}
      BY <1>1, JudgedNotTraced DEF Kept, Judged, Painting
    <2> QED BY <1>1, <2>1, <2>2, InputStays DEF NothingResent
  <1>4. ErrorsAreReal'
    <2> SUFFICES ASSUME pc' = "error", Monotone PROVE \E m \in missing : m[2] \notin Traced
      BY <1>1, InputStays DEF ErrorsAreReal
    <2>1. PICK m \in missing : "have" \notin flags[m[2]]
      BY DEF Collect, Unexplained
    <2>2. m[2] \in Judged
      BY DEF Judged
    <2> QED BY <1>1, <2>1, <2>2, JudgedNotTraced DEF Painting
  <1> QED BY <1>2, <1>3, <1>4 DEF ExactInv

\* The other steps: seeding starts from nothing judged, and a walk without
\* haves has nothing to trace.
LEMMA OtherExact ==
    ASSUME CompleteInv, ExactInv,
           Seed \/ FullDone \/ (\E c \in Commit : WalkFull(c)) \/ UNCHANGED vars
    PROVE  ExactInv'
  <1>1. CASE Seed
    <2>1. UNCHANGED input /\ UNCHANGED <<newCommits, missing>> /\ newCommits = {} /\ missing = {}
      BY <1>1 DEF Seed, CompleteInv, FreshStart
    <2>2. QueueIsOlder'
      BY <2>1 DEF QueueIsOlder, Judged
    <2>3. HaveSpreads'
      <3>1. \A c \in Commit : "have" \in flags'[c] <=> c \in KnownHaves
        BY <1>1 DEF Seed
      <3>2. KnownHaves \subseteq Commit /\ KnownHaves \subseteq queue' /\ present \subseteq Commit
        BY <1>1 DEF Seed, CompleteInv, TypeOK, KnownHaves
      <3> QED BY <2>1, <3>1, <3>2, InputStays DEF HaveSpreads
    <2>4. NothingResent' /\ ErrorsAreReal'
      BY <1>1, <2>1, InputStays DEF Seed, NothingResent, ErrorsAreReal
    <2> QED BY <2>2, <2>3, <2>4 DEF ExactInv
  <1>2. CASE FullDone
    <2>1. UNCHANGED input /\ pc = "full" /\ pc' = "done"
      BY <1>2 DEF FullDone
    <2>2. Traced = {}
      BY <2>1, NothingTraced DEF CompleteInv, FullAccounted
    <2> QED BY <2>1, <2>2, InputStays DEF ExactInv, QueueIsOlder, HaveSpreads,
           NothingResent, ErrorsAreReal, Painting
  <1>3. ASSUME NEW c \in Commit, WalkFull(c) PROVE ExactInv'
    <2>1. UNCHANGED input /\ pc = "full" /\ pc' \in {"full", "error"} /\ KnownHaves = {}
      BY <1>3 DEF WalkFull, CompleteInv, FullAccounted
    <2>2. QueueIsOlder' /\ HaveSpreads' /\ NothingResent'
      BY <2>1 DEF QueueIsOlder, HaveSpreads, NothingResent, Painting
    <2>3. ErrorsAreReal'
      <3> SUFFICES ASSUME pc' = "error"
                   PROVE  c \in result'.commits /\ ~ (ParentsOf(c) \subseteq present)
        BY <2>1, InputStays DEF ErrorsAreReal
      <3> QED BY <1>3 DEF WalkFull
    <2> QED BY <2>2, <2>3 DEF ExactInv
  <1>4. CASE UNCHANGED vars
    <2>1. UNCHANGED input /\ UNCHANGED <<pc, flags, queue, newCommits, missing, result>>
      BY <1>4 DEF vars
    <2>2. QueueIsOlder' /\ HaveSpreads'
      BY <2>1, InputStays DEF ExactInv, QueueIsOlder, HaveSpreads, Judged, Painting
    <2>3. NothingResent' /\ ErrorsAreReal'
      BY <2>1, InputStays DEF ExactInv, NothingResent, ErrorsAreReal
    <2> QED BY <2>2, <2>3 DEF ExactInv
  <1> QED BY <1>1, <1>2, <1>3, <1>4

\* The walk is exact in every behaviour.
LEMMA WalkExactInvariant == Spec => []ExactInv
  <1>1. Init => ExactInv
    BY DEF Init, ExactInv, QueueIsOlder, HaveSpreads, NothingResent, ErrorsAreReal, Painting
  <1>2. CompleteInv /\ ExactInv /\ [Next]_vars => ExactInv'
    BY PaintExact, CollectExact, OtherExact DEF Next, Returned
  <1> QED BY <1>1, <1>2, WalkInvariant, PTL DEF Spec

(***************************************************************************)
(* When committer times increase along the history, revlist.Objects sends  *)
(* no commit that can be traced from the haves: at the moment allStale     *)
(* stops the loop, the queued haves are too old to reach a new commit.     *)
(***************************************************************************)
THEOREM WalkIsExact == Spec => []NothingResent
  <1>1. ExactInv => NothingResent
    BY DEF ExactInv
  <1> QED BY WalkExactInvariant, <1>1, PTL

(***************************************************************************)
(* When committer times increase along the history, the walk refuses a     *)
(* missing parent only for a commit that had to be sent.                   *)
(***************************************************************************)
THEOREM WalkErrorsAreReal == Spec => []ErrorsAreReal
  <1>1. ExactInv => ErrorsAreReal
    BY DEF ExactInv
  <1> QED BY WalkExactInvariant, <1>1, PTL
-----------------------------------------------------------------------------
(* The walk ends: every turn lowers a measure.                              *)

Unpainted == {pair \in Commit \X {"want", "have"} : pair[2] \notin flags[pair[1]]}

\* A turn that paints nothing shortens the queue; one that paints may lengthen
\* it by less than the weight of a flag.
LEMMA MeasureDrops ==
    ASSUME NEW u \in Nat, NEW v \in Nat, NEW q \in Nat, NEW r \in Nat, N \in Nat,
           v < u, r <= N
    PROVE  v * (N + 1) + r < u * (N + 1) + q
  <1>1. PICK k \in Nat : u = v + 1 + k
    <2>1. u - v - 1 \in Nat /\ u = v + 1 + (u - v - 1)
      OBVIOUS
    <2> QED BY <2>1
  <1>2. u * (N + 1) = v * (N + 1) + (N + 1) + k * (N + 1)
    BY <1>1
  <1>3. k * (N + 1) \in Nat /\ v * (N + 1) \in Nat
    OBVIOUS
  <1> QED BY <1>2, <1>3

\* The sets behind the measure are finite.
LEMMA WalkFinite ==
    ASSUME NEW q \in SUBSET Commit, NEW u \in SUBSET (Commit \X {"want", "have"})
    PROVE  /\ IsFiniteSet(u) /\ Cardinality(u) \in Nat
           /\ IsFiniteSet(q) /\ Cardinality(q) \in Nat /\ Cardinality(q) <= N
  <1>1. IsFiniteSet(Commit) /\ Cardinality(Commit) = N
    BY NAssumption, FS_Interval DEF Commit
  <1>2. IsFiniteSet({"want", "have"})
    <2>1. IsFiniteSet({"want"})
      BY FS_Singleton
    <2>2. {"want", "have"} = {"want"} \cup {"have"}
      OBVIOUS
    <2> QED BY <2>1, <2>2, FS_AddElement
  <1>3. IsFiniteSet(Commit \X {"want", "have"})
    BY <1>1, <1>2, FS_Product
  <1> QED BY <1>1, <1>3, FS_Subset, FS_CardinalityType

\* A turn of either loop: the flags only grow, the commit taken leaves the
\* queue, and unless some commit gained a flag nothing joins it.
LEMMA TurnFacts ==
    ASSUME CompleteInv, NEW c \in Commit, Paint(c) \/ WalkFull(c)
    PROVE  /\ TypeOK /\ TypeOK' /\ c \in queue
           /\ Unpainted' \subseteq Unpainted
           /\ Unpainted' = Unpainted => queue' = queue \ {c}
  <1>1. TypeOK
    BY DEF CompleteInv
  <1>2. CASE Paint(c)
    <2>1. Unpainted' \subseteq Unpainted
      BY <1>1, <1>2, PaintFacts DEF Unpainted
    <2>2. ASSUME Unpainted' = Unpainted PROVE Repainted(c) = {}
      <3> SUFFICES ASSUME NEW p \in Repainted(c) PROVE FALSE
        OBVIOUS
      <3>1. PICK f \in flags[c] : f \notin flags[p]
        BY DEF Repainted
      <3>2. p \in Commit /\ p \in ParentsOf(c) /\ f \in {"want", "have"}
        BY <1>1, <3>1, ParentsType DEF Repainted, TypeOK
      <3>3. <<p, f>> \in Unpainted
        BY <3>1, <3>2 DEF Unpainted
      <3>4. f \in flags'[p]
        BY <1>1, <1>2, <3>1, <3>2, PaintFacts
      <3>5. <<p, f>> \notin Unpainted'
        BY <3>4 DEF Unpainted
      <3> QED BY <2>2, <3>3, <3>5
    <2>3. Unpainted' = Unpainted => queue' = queue \ {c}
      BY <1>2, <2>2 DEF Paint
    <2> QED BY <1>1, <1>2, <2>1, <2>3, PaintFacts, PaintTypes
  <1>3. CASE WalkFull(c)
    <2> DEFINE next == {p \in ParentsOf(c) : "want" \notin flags[p]}
    <2>1. /\ c \in queue
          /\ flags' = [p \in Commit |-> IF p \in next THEN {"want"} ELSE flags[p]]
          /\ queue' = (queue \ {c}) \cup (next \cap present)
      BY <1>3 DEF WalkFull, Newest
    <2>2. next \subseteq Commit /\ \A p \in next : "want" \notin flags[p]
      BY <1>1, ParentsType
    <2>3. \A x \in Commit : "have" \notin flags[x]
      BY <1>3 DEF WalkFull, CompleteInv, FullAccounted
    <2> HIDE DEF next
    <2>4. Unpainted' \subseteq Unpainted
      BY <1>1, <2>1, <2>2, <2>3 DEF Unpainted, TypeOK
    <2>5. ASSUME Unpainted' = Unpainted PROVE next = {}
      <3> SUFFICES ASSUME NEW p \in next PROVE FALSE
        OBVIOUS
      <3>1. <<p, "want">> \in Unpainted /\ <<p, "want">> \notin Unpainted'
        BY <2>1, <2>2 DEF Unpainted
      <3> QED BY <2>5, <3>1
    <2>6. TypeOK'
      BY <1>3, FullStep DEF CompleteInv
    <2> QED BY <1>1, <2>1, <2>4, <2>5, <2>6
  <1> QED BY <1>2, <1>3

(***************************************************************************)
(* The loops of walk and walkFull end on every graph: propagate queues a   *)
(* commit again only when it gains a flag, so every turn lowers the        *)
(* measure.                                                                *)
(***************************************************************************)
THEOREM WalkTurnsCount == Spec => EveryTurnCounts
  <1>1. ASSUME CompleteInv, NEW c \in Commit, Paint(c) \/ WalkFull(c)
        PROVE  Measure' < Measure
    <2> DEFINE u == Cardinality(Unpainted)
               v == Cardinality(Unpainted')
               q == Cardinality(queue)
               r == Cardinality(queue')
    <2>1. /\ TypeOK /\ TypeOK' /\ c \in queue
          /\ Unpainted' \subseteq Unpainted
          /\ Unpainted' = Unpainted => queue' = queue \ {c}
      BY <1>1, TurnFacts
    <2>2. /\ IsFiniteSet(Unpainted) /\ IsFiniteSet(queue)
          /\ u \in Nat /\ q \in Nat /\ N \in Nat
      BY <2>1, WalkFinite, NAssumption DEF TypeOK, Unpainted
    <2>3. IsFiniteSet(Unpainted') /\ v \in Nat /\ r \in Nat /\ r <= N
      BY <2>1, WalkFinite DEF TypeOK, Unpainted
    <2>4. Measure = u * (N + 1) + q /\ Measure' = v * (N + 1) + r
      BY DEF Measure, Unpainted
    <2>5. CASE Unpainted' = Unpainted
      <3>1. v = u /\ r = q - 1
        BY <2>1, <2>2, <2>5, FS_RemoveElement
      <3>2. u * (N + 1) \in Nat
        BY <2>2
      <3> QED BY <2>2, <2>4, <3>1, <3>2
    <2>6. CASE Unpainted' # Unpainted
      <3>1. v < u
        BY <2>1, <2>2, <2>3, <2>6, FS_Subset
      <3> HIDE DEF u, v, q, r
      <3> QED BY <2>2, <2>3, <2>4, <3>1, MeasureDrops
    <2> QED BY <2>5, <2>6
  <1> DEFINE Counts == \A c \in Commit : (Paint(c) \/ WalkFull(c)) => Measure' < Measure
  <1>2. CompleteInv /\ [Next]_vars => [Counts]_vars
    BY <1>1
  <1> QED BY WalkInvariant, <1>2, PTL DEF Spec, EveryTurnCounts

-----------------------------------------------------------------------------
(***************************************************************************)
(* TreeDiff: for every two finite trees, every set of skip-worktree        *)
(* entries and every option.  An iterator stands for the set of nodes it   *)
(* has still to come to, so the invariant of the walk can say what is      *)
(* listed: the changes no iterator can still come to.  Paths and stacks of *)
(* frames come first, then the changes below a node, then the turns of the *)
(* loop, then the renames.                                                 *)
(***************************************************************************)
Path == Seq(Nat)

\* A set of natural numbers has a least element.
LEMMA LeastNatural ==
    ASSUME NEW T \in SUBSET Nat, T # {}
    PROVE  \E n \in T : \A m \in T : n <= m
  <1> DEFINE Below == {0..n : n \in T}
  <1>1. \A n \in Nat : 0..n \in SUBSET Nat /\ IsFiniteSet(0..n)
    BY FS_Interval
  <1>2. Below \subseteq FiniteSubsetsOf(Nat) /\ Below # {}
    BY <1>1 DEF FiniteSubsetsOf
  <1>3. PICK b \in Below : \A d \in Below : ~ (<<d, b>> \in StrictSubsetOrdering(Nat))
    <2> HIDE DEF Below
    <2> QED BY <1>2, WFMin, FS_StrictSubsetOrderingWellFounded
  <1>4. PICK n \in T : b = 0..n
    OBVIOUS
  <1>5. ASSUME NEW m \in T PROVE n <= m
    <2> SUFFICES ASSUME m < n PROVE FALSE
      OBVIOUS
    <2>1. 0..m \subseteq 0..n /\ 0..m # 0..n /\ 0..m \in SUBSET Nat /\ 0..n \in SUBSET Nat
      OBVIOUS
    <2>2. <<0..m, 0..n>> \in StrictSubsetOrdering(Nat)
      BY <2>1 DEF StrictSubsetOrdering
    <2> QED BY <1>3, <1>4, <2>2
  <1> QED BY <1>5

\* The first i names of two paths agree.
LEMMA SameStart ==
    ASSUME NEW p \in Path, NEW q \in Path, NEW i \in 0..Len(p), i <= Len(q)
    PROVE  SubSeq(p, 1, i) = SubSeq(q, 1, i) <=> \A k \in 1..i : p[k] = q[k]
  <1>1. /\ Len(SubSeq(p, 1, i)) = i /\ \A k \in 1..i : SubSeq(p, 1, i)[k] = p[k]
        /\ Len(SubSeq(q, 1, i)) = i /\ \A k \in 1..i : SubSeq(q, 1, i)[k] = q[k]
        /\ SubSeq(p, 1, i) \in Seq(Nat) /\ SubSeq(q, 1, i) \in Seq(Nat)
    BY DEF Path
  <1>2. (\A k \in 1..i : p[k] = q[k]) => SubSeq(p, 1, i) = SubSeq(q, 1, i)
    BY <1>1, SeqEqual
  <1> QED BY <1>1, <1>2

LEMMA PrefixNames ==
    ASSUME NEW p \in Path, NEW q \in Path
    PROVE  IsPrefixOf(p, q) <=> Len(p) <= Len(q) /\ \A k \in 1..Len(p) : p[k] = q[k]
  <1>1. Len(p) \in Nat /\ Len(q) \in Nat /\ SubSeq(p, 1, Len(p)) = p
    BY SubSeqFull DEF Path
  <1> QED BY <1>1, SameStart DEF IsPrefixOf

LEMMA LessNames ==
    ASSUME NEW p \in Path, NEW q \in Path
    PROVE  PathLess(p, q) <=>
             \E i \in 0..Len(p) : /\ i < Len(q) /\ \A k \in 1..i : p[k] = q[k]
                                  /\ i = Len(p) \/ p[i + 1] < q[i + 1]
  <1>1. Len(p) \in Nat /\ Len(q) \in Nat
    BY DEF Path
  <1>2. \A i \in 0..Len(p) : i < Len(q) =>
           (SubSeq(p, 1, i) = SubSeq(q, 1, i) <=> \A k \in 1..i : p[k] = q[k])
    BY <1>1, SameStart
  <1> QED BY <1>1, <1>2 DEF PathLess

LEMMA LessIrreflexive == ASSUME NEW p \in Path PROVE ~ PathLess(p, p)
  <1>1. Len(p) \in Nat /\ \A i \in 1..Len(p) : p[i] \in Nat
    BY DEF Path
  <1> QED BY <1>1, LessNames

LEMMA LessTransitive ==
    ASSUME NEW p \in Path, NEW q \in Path, NEW r \in Path, PathLess(p, q), PathLess(q, r)
    PROVE  PathLess(p, r)
  <1>1. /\ Len(p) \in Nat /\ Len(q) \in Nat /\ Len(r) \in Nat
        /\ \A i \in 1..Len(p) : p[i] \in Nat
        /\ \A i \in 1..Len(q) : q[i] \in Nat
        /\ \A i \in 1..Len(r) : r[i] \in Nat
    BY DEF Path
  <1>2. PICK i \in 0..Len(p) : /\ i < Len(q) /\ \A k \in 1..i : p[k] = q[k]
                               /\ i = Len(p) \/ p[i + 1] < q[i + 1]
    BY LessNames
  <1>3. PICK j \in 0..Len(q) : /\ j < Len(r) /\ \A k \in 1..j : q[k] = r[k]
                               /\ j = Len(q) \/ q[j + 1] < r[j + 1]
    BY LessNames
  <1>4. CASE i < j
    <2>1. /\ i < Len(r) /\ \A k \in 1..i : p[k] = r[k]
          /\ i = Len(p) \/ p[i + 1] < r[i + 1]
      BY <1>1, <1>2, <1>3, <1>4
    <2> QED BY <2>1, LessNames
  <1>5. CASE i = j
    <2>1. i < Len(r) /\ \A k \in 1..i : p[k] = r[k]
      BY <1>2, <1>3, <1>5
    <2>2. q[i + 1] < r[i + 1] /\ q[i + 1] \in Nat /\ r[i + 1] \in Nat
      BY <1>1, <1>2, <1>3, <1>5
    <2>3. ASSUME i # Len(p) PROVE p[i + 1] < r[i + 1]
      <3>1. p[i + 1] \in Nat /\ p[i + 1] < q[i + 1]
        BY <1>1, <1>2, <2>3
      <3> QED BY <2>2, <3>1
    <2> QED BY <2>1, <2>3, LessNames
  <1>6. CASE j < i
    <2>1. /\ j \in 0..Len(p) /\ j < Len(r) /\ \A k \in 1..j : p[k] = r[k]
          /\ p[j + 1] < r[j + 1]
      BY <1>1, <1>2, <1>3, <1>6
    <2> QED BY <2>1, LessNames
  <1> QED BY <1>4, <1>5, <1>6

LEMMA LessTotal ==
    ASSUME NEW p \in Path, NEW q \in Path, p # q
    PROVE  PathLess(p, q) \/ PathLess(q, p)
  <1>1. /\ Len(p) \in Nat /\ Len(q) \in Nat
        /\ \A i \in 1..Len(p) : p[i] \in Nat
        /\ \A i \in 1..Len(q) : q[i] \in Nat
    BY DEF Path
  <1> DEFINE Apart == {i \in Nat : i >= Len(p) \/ i >= Len(q) \/ p[i + 1] # q[i + 1]}
  <1>2. Len(p) \in Apart
    BY <1>1
  <1>3. PICK i \in Apart : \A m \in Apart : i <= m
    <2> HIDE DEF Apart
    <2>1. Apart # {}
      BY <1>2
    <2>2. Apart \in SUBSET Nat
      BY DEF Apart
    <2> QED BY <2>1, <2>2, LeastNatural
  <1>4. \A k \in 1..i : p[k] = q[k]
    <2> SUFFICES ASSUME NEW k \in 1..i PROVE p[k] = q[k]
      OBVIOUS
    <2>1. k - 1 \in Nat /\ ~ (i <= k - 1) /\ (k - 1) + 1 = k
      OBVIOUS
    <2>2. k - 1 \notin Apart
      BY <1>3, <2>1
    <2> QED BY <2>1, <2>2
  <1>5. i <= Len(p) /\ i <= Len(q)
    <2>1. Len(q) \in Apart
      BY <1>1
    <2> QED BY <1>2, <1>3, <2>1
  <1>6. ~ (i = Len(p) /\ i = Len(q))
    BY <1>4, SeqEqual DEF Path
  <1>7. CASE i < Len(p) /\ i < Len(q)
    <2>1. p[i + 1] # q[i + 1] /\ p[i + 1] \in Nat /\ q[i + 1] \in Nat
      BY <1>1, <1>7
    <2>2. p[i + 1] < q[i + 1] \/ q[i + 1] < p[i + 1]
      BY <2>1
    <2> QED BY <1>1, <1>4, <1>5, <1>7, <2>2, LessNames
  <1>8. CASE i = Len(p) /\ i < Len(q)
    <2>1. i \in 0..Len(p)
      BY <1>1, <1>8
    <2> QED BY <1>4, <1>8, <2>1, LessNames
  <1>9. CASE i = Len(q) /\ i < Len(p)
    <2>1. i \in 0..Len(q)
      BY <1>1, <1>9
    <2> QED BY <1>4, <1>9, <2>1, LessNames
  <1> QED BY <1>1, <1>5, <1>6, <1>7, <1>8, <1>9

\* R orders S strictly and totally.
StrictOrder(S, R) ==
    /\ \A x \in S : <<x, x>> \notin R
    /\ \A x, y, z \in S : <<x, y>> \in R /\ <<y, z>> \in R => <<x, z>> \in R
    /\ \A x, y \in S : x = y \/ <<x, y>> \in R \/ <<y, x>> \in R

\* A finite set with a strict total order can be listed in that order.
LEMMA Sorted ==
    ASSUME NEW S, IsFiniteSet(S), NEW R, StrictOrder(S, R)
    PROVE  \E s \in [1..Cardinality(S) -> S] :
              /\ \A i \in DOMAIN s : \A j \in 1..(i - 1) : <<s[j], s[i]>> \in R
  <1> DEFINE down(x) == {y \in S : <<y, x>> \in R \/ y = x}
             rank == [x \in S |-> Cardinality(down(x))]
             n == Cardinality(S)
  <1>1. n \in Nat
    BY FS_CardinalityType
  <1>2. ASSUME NEW x \in S PROVE IsFiniteSet(down(x)) /\ rank[x] \in 1..n
    <2>1. down(x) \in SUBSET S /\ down(x) # {}
      OBVIOUS
    <2>2. IsFiniteSet(down(x)) /\ Cardinality(down(x)) <= n
      BY <2>1, FS_Subset
    <2>3. Cardinality(down(x)) \in Nat /\ Cardinality(down(x)) # 0
      BY <2>1, <2>2, FS_CardinalityType, FS_EmptySet
    <2> QED BY <1>1, <2>2, <2>3
  <1>3. ASSUME NEW x \in S, NEW y \in S, <<x, y>> \in R PROVE rank[x] < rank[y]
    <2>1. down(x) \in SUBSET down(y) /\ y \in down(y) /\ y \notin down(x)
      BY <1>3 DEF StrictOrder
    <2>2. Cardinality(down(x)) <= Cardinality(down(y)) /\ Cardinality(down(y)) # Cardinality(down(x))
      <3> HIDE DEF down
      <3> QED BY <1>2, <2>1, FS_Subset
    <2>3. rank[x] \in 1..n /\ rank[y] \in 1..n
      <3> HIDE DEF rank
      <3> QED BY <1>2
    <2>4. rank[x] <= rank[y] /\ rank[x] # rank[y]
      BY <2>2
    <2> HIDE DEF rank
    <2> QED BY <1>1, <2>3, <2>4
  <1>4. rank \in Injection(S, 1..n)
    <2>1. rank \in [S -> 1..n]
      BY <1>2
    <2>2. \A x, y \in S : rank[x] = rank[y] => x = y
      <3>1. \A x \in S : rank[x] \in 1..n
        <4> HIDE DEF rank
        <4> QED BY <1>2
      <3>2. \A x, y \in S : <<x, y>> \in R => rank[x] < rank[y]
        <4> HIDE DEF rank
        <4> QED BY <1>3
      <3> HIDE DEF rank
      <3> SUFFICES ASSUME NEW x \in S, NEW y \in S, rank[x] = rank[y], x # y PROVE FALSE
        OBVIOUS
      <3>3. rank[x] < rank[y] \/ rank[y] < rank[x]
        BY <3>2 DEF StrictOrder
      <3> QED BY <1>1, <3>1, <3>3
    <2> HIDE DEF rank
    <2> QED BY <2>1, <2>2 DEF Injection, IsInjective
  <1> HIDE DEF rank
  <1>5. rank \in Surjection(S, 1..n)
    <2>1. IsFiniteSet(1..n) /\ Cardinality(1..n) = n
      BY <1>1, FS_Interval
    <2> QED BY <1>4, <2>1, FS_Injection
  <1> DEFINE s == [i \in 1..n |-> CHOOSE x \in S : rank[x] = i]
  <1>6. \A i \in 1..n : s[i] \in S /\ rank[s[i]] = i
    BY <1>5 DEF Surjection
  <1>7. s \in [1..n -> S]
    BY <1>6
  <1>8. ASSUME NEW i \in 1..n, NEW j \in 1..(i - 1) PROVE <<s[j], s[i]>> \in R
    <2>1. /\ j \in 1..n /\ s[i] \in S /\ s[j] \in S /\ rank[s[j]] < rank[s[i]]
          /\ rank[s[i]] \in Nat /\ rank[s[j]] \in Nat
      BY <1>1, <1>6
    <2> HIDE DEF s
    <2>2. ~ (<<s[i], s[j]>> \in R) /\ s[i] # s[j]
      BY <1>3, <2>1
    <2> QED BY <2>1, <2>2 DEF StrictOrder
  <1> HIDE DEF s
  <1> QED BY <1>7, <1>8

\* InOrder lists a finite set of paths.
LEMMA InOrderLists ==
    ASSUME NEW S \in SUBSET Path, IsFiniteSet(S)
    PROVE  /\ InOrder(S) \in Seq(S) /\ Len(InOrder(S)) = Cardinality(S)
           /\ ToSet(InOrder(S)) = S
           /\ \A i \in 1..Len(InOrder(S)) : \A j \in 1..(i - 1) : PathLess(InOrder(S)[j], InOrder(S)[i])
           /\ \A i, j \in 1..Len(InOrder(S)) : InOrder(S)[i] = InOrder(S)[j] => i = j
  <1> DEFINE R == {x \in S \X S : PathLess(x[1], x[2])}
             n == Cardinality(S)
  <1>1. \A x, y \in S : <<x, y>> \in R <=> PathLess(x, y)
    OBVIOUS
  <1>2. StrictOrder(S, R)
    <2> HIDE DEF R
    <2>1. \A x \in S : x \in Path
      OBVIOUS
    <2> QED BY <1>1, <2>1, LessIrreflexive, LessTransitive, LessTotal DEF StrictOrder
  <1>3. PICK f \in [1..n -> S] : \A i \in DOMAIN f : \A j \in 1..(i - 1) : <<f[j], f[i]>> \in R
    <2> HIDE DEF R
    <2> QED BY <1>2, Sorted
  <1>4. n \in Nat
    BY FS_CardinalityType
  <1>5. \A i \in DOMAIN f : \A j \in 1..(i - 1) : PathLess(f[j], f[i])
    BY <1>1, <1>3, <1>4
  <1> DEFINE s == InOrder(S)
  <1>6. s \in [1..n -> S] /\ \A i \in DOMAIN s : \A j \in 1..(i - 1) : PathLess(s[j], s[i])
    BY <1>3, <1>5 DEF InOrder
  <1> HIDE DEF s
  <1>7. s \in Seq(S) /\ Len(s) = n
    BY <1>4, <1>6
  <1>8. ASSUME NEW i \in 1..n, NEW j \in 1..n, s[i] = s[j] PROVE i = j
    <2>1. s[i] \in Path /\ ~ PathLess(s[i], s[i])
      BY <1>6, LessIrreflexive
    <2> QED BY <1>4, <1>6, <1>8, <2>1
  <1>9. s \in Injection(1..n, S)
    BY <1>6, <1>8 DEF Injection, IsInjective
  <1>10. s \in Surjection(1..n, S)
    <2>1. Cardinality(1..n) = n
      BY <1>4, FS_Interval
    <2> QED BY <1>9, <2>1, FS_Injection
  <1>11. ToSet(s) = S
    BY <1>6, <1>10 DEF ToSet, Surjection
  <1> QED BY <1>6, <1>7, <1>8, <1>11 DEF s

-----------------------------------------------------------------------------
\* A path of a tree.
LEMMA TreePaths ==
    ASSUME NEW t \in Trees, NEW p \in DOMAIN t
    PROVE  /\ p \in Path /\ p # None /\ Len(p) \in Nat \ {0}
           /\ \A i \in 1..Len(p) : p[i] \in Nat
           /\ \A i \in 1..(Len(p) - 1) : SubSeq(p, 1, i) \in DOMAIN t /\ t[SubSeq(p, 1, i)] = Dir
  <1>1. /\ p \in Seq(Nat) /\ p # None
        /\ \A i \in 1..(Len(p) - 1) : SubSeq(p, 1, i) \in DOMAIN t /\ t[SubSeq(p, 1, i)] = Dir
    BY TreesAssumption DEF TreesAssumption
  <1>2. Len(p) \in Nat \ {0} /\ \A i \in 1..Len(p) : p[i] \in Nat
    BY <1>1, EmptySeq DEF None
  <1> QED BY <1>1, <1>2 DEF Path

\* The nodes an iterator has still to visit: those of the top frame, and those
\* of the frames below except the node that is being visited.
Pending(t, s) ==
    {p \in DOMAIN t :
        \E k \in 1..Len(s) : \E i \in 1..Len(s[k]) : p = s[k][i] /\ (i > 1 \/ k = Len(s))}

\* Frame k holds siblings at depth k in increasing order, below the first node
\* of every frame under it.
Placed(s, k, i) ==
    /\ Len(s[k][i]) = k
    /\ \A l \in 1..(k - 1) : \A m \in 1..l : s[k][i][m] = s[l][1][m]
    /\ \A j \in 1..(i - 1) :
          s[k][j][k] < s[k][i][k] /\ \A m \in 1..(k - 1) : s[k][j][m] = s[k][i][m]

Stack(t, s) ==
    /\ s \in Seq(Seq(DOMAIN t))
    /\ s = << <<>> >> \/ \A k \in 1..Len(s) : s[k] # <<>>
    /\ \A k \in 1..Len(s) : \A i \in 1..Len(s[k]) : Placed(s, k, i)

LEMMA StackTypes ==
    ASSUME NEW t \in Trees, NEW s, Stack(t, s)
    PROVE  /\ s \in Seq(Seq(DOMAIN t)) /\ Len(s) \in Nat
           /\ \A k \in 1..Len(s) :
                /\ s[k] \in Seq(DOMAIN t) /\ Len(s[k]) \in Nat
                /\ s[k] # <<>> => Len(s[k]) > 0
                /\ \A i \in 1..Len(s[k]) :
                     /\ s[k][i] \in DOMAIN t /\ s[k][i] \in Path /\ Len(s[k][i]) = k
                     /\ \A m \in 1..k : s[k][i][m] \in Nat
  <1>1. s \in Seq(Seq(DOMAIN t)) /\ Len(s) \in Nat
    BY DEF Stack
  <1>2. ASSUME NEW k \in 1..Len(s)
        PROVE  s[k] \in Seq(DOMAIN t) /\ Len(s[k]) \in Nat /\ (s[k] # <<>> => Len(s[k]) > 0)
    <2>1. s[k] \in Seq(DOMAIN t)
      BY <1>1
    <2> QED BY <2>1, EmptySeq
  <1>3. ASSUME NEW k \in 1..Len(s), NEW i \in 1..Len(s[k])
        PROVE  /\ s[k][i] \in DOMAIN t /\ s[k][i] \in Path /\ Len(s[k][i]) = k
               /\ \A m \in 1..k : s[k][i][m] \in Nat
    <2>1. s[k][i] \in DOMAIN t
      BY <1>2
    <2>2. Len(s[k][i]) = k
      BY DEF Stack, Placed
    <2> QED BY <2>1, <2>2, TreePaths
  <1> QED BY <1>1, <1>2, <1>3

\* The current node is the first of the top frame.
LEMMA StackTop ==
    ASSUME NEW t \in Trees, NEW s, Stack(t, s)
    PROVE  /\ Current(s) = None => Pending(t, s) = {}
           /\ Current(s) # None =>
                /\ Len(s) > 0 /\ (\A k \in 1..Len(s) : s[k] # <<>>)
                /\ 1 \in 1..Len(s[Len(s)]) /\ Current(s) = s[Len(s)][1]
                /\ Current(s) \in Pending(t, s)
  <1>1. CASE s = <<>>
    BY <1>1 DEF Current, Pending, None
  <1>2. CASE s = << <<>> >>
    <2>1. Len(s) = 1 /\ s[1] = <<>> /\ Last(s) = <<>>
      BY <1>2 DEF Last
    <2> QED BY <2>1 DEF Current, Pending, None
  <1>3. CASE s # <<>> /\ s # << <<>> >>
    <2>1. Len(s) \in Nat \ {0}
      BY <1>3, StackTypes, EmptySeq
    <2>2. \A k \in 1..Len(s) : s[k] # <<>>
      BY <1>3 DEF Stack
    <2>3. /\ Last(s) = s[Len(s)] /\ Len(s) \in 1..Len(s)
          /\ s[Len(s)] \in Seq(DOMAIN t) /\ s[Len(s)] # <<>> /\ 1 \in 1..Len(s[Len(s)])
      BY <2>1, <2>2, StackTypes DEF Last
    <2>4. Current(s) = s[Len(s)][1]
      BY <1>3, <2>3 DEF Current
    <2>5. s[Len(s)][1] \in DOMAIN t
      BY <2>3, StackTypes
    <2>6. Current(s) # None
      BY <2>4, <2>5, TreePaths
    <2>7. Current(s) \in Pending(t, s)
      BY <2>3, <2>4, <2>5 DEF Pending
    <2> QED BY <2>1, <2>2, <2>3, <2>4, <2>6, <2>7
  <1> QED BY <1>1, <1>2, <1>3

\* Every other pending node comes later: at the depth where they part, the
\* current node or its ancestor is the first of the frame.
LEMMA StackOrder ==
    ASSUME NEW t \in Trees, NEW s, Stack(t, s), Current(s) # None,
           NEW k \in 1..Len(s), NEW i \in 1..Len(s[k]), i > 1
    PROVE  PathLess(Current(s), s[k][i]) /\ s[k][i] # Current(s)
  <1> DEFINE n == Len(s)  c == s[n][1]  r == s[k][i]
  <1>1. /\ Current(s) = c /\ n \in 1..n /\ 1 \in 1..Len(s[n]) /\ c \in Path /\ r \in Path
        /\ Len(c) = n /\ Len(r) = k /\ k <= n /\ n \in Nat /\ Len(s[k]) \in Nat
    <2>1. n \in Nat /\ Len(s[k]) \in Nat /\ r \in Path /\ Len(r) = k
      BY StackTypes
    <2>2. Current(s) = c /\ n \in 1..n /\ 1 \in 1..Len(s[n])
      <3>1. Len(s) > 0 /\ 1 \in 1..Len(s[Len(s)]) /\ Current(s) = s[Len(s)][1]
        BY StackTop
      <3> QED BY <2>1, <3>1
    <2>3. c \in Path /\ Len(c) = n
      <3>1. Len(s) \in 1..Len(s) /\ 1 \in 1..Len(s[Len(s)])
        BY <2>2
      <3>2. s[Len(s)][1] \in Path /\ Len(s[Len(s)][1]) = Len(s)
        BY <3>1, StackTypes
      <3> QED BY <3>2
    <2> QED BY <2>1, <2>2, <2>3
  <1>2. 1 \in 1..Len(s[k]) /\ 1 \in 1..(i - 1)
    BY <1>1
  <1>3. s[k][1][k] < r[k] /\ \A m \in 1..(k - 1) : s[k][1][m] = r[m]
    <2>1. Placed(s, k, i)
      BY DEF Stack
    <2> QED BY <1>2, <2>1 DEF Placed
  <1>4. \A m \in 1..k : c[m] = s[k][1][m]
    <2>1. CASE k = n
      BY <2>1
    <2>2. CASE k < n
      <3>1. k \in 1..(n - 1)
        BY <1>1, <2>2
      <3>2. Placed(s, n, 1)
        BY <1>1 DEF Stack
      <3> QED BY <3>1, <3>2 DEF Placed
    <2> QED BY <1>1, <2>1, <2>2
  <1>5. /\ k - 1 \in 0..Len(c) /\ k - 1 < Len(r) /\ (k - 1) + 1 = k /\ k \in 1..k
    BY <1>1
  <1>6. (\A m \in 1..(k - 1) : c[m] = r[m]) /\ c[k] < r[k]
    BY <1>3, <1>4
  <1> HIDE DEF c, r, n
  <1>7. PathLess(c, r)
    BY <1>1, <1>5, <1>6, LessNames
  <1>8. c # r
    BY <1>1, <1>7, LessIrreflexive
  <1> QED BY <1>1, <1>7, <1>8 DEF r

LEMMA PendingOrder ==
    ASSUME NEW t \in Trees, NEW s, Stack(t, s), NEW r \in Pending(t, s), r # Current(s)
    PROVE  PathLess(Current(s), r)
  <1>1. Current(s) # None
    BY StackTop
  <1>2. PICK k \in 1..Len(s) : \E i \in 1..Len(s[k]) : r = s[k][i] /\ (i > 1 \/ k = Len(s))
    BY DEF Pending
  <1>3. PICK i \in 1..Len(s[k]) : r = s[k][i] /\ (i > 1 \/ k = Len(s))
    BY <1>2
  <1>4. i > 1
    <2>1. Current(s) = s[Len(s)][1]
      BY <1>1, StackTop
    <2> QED BY <1>3, <2>1
  <1> QED BY <1>1, <1>3, <1>4, StackOrder

\* No pending node is below another.
LEMMA PendingApart ==
    ASSUME NEW t \in Trees, NEW s, Stack(t, s),
           NEW p \in Pending(t, s), NEW q \in Pending(t, s), IsPrefixOf(p, q)
    PROVE  p = q
  <1>1. PICK k \in 1..Len(s) : \E i \in 1..Len(s[k]) : p = s[k][i] /\ (i > 1 \/ k = Len(s))
    BY DEF Pending
  <1>2. PICK i \in 1..Len(s[k]) : p = s[k][i] /\ (i > 1 \/ k = Len(s))
    BY <1>1
  <1>3. PICK l \in 1..Len(s) : \E j \in 1..Len(s[l]) : q = s[l][j]
    BY DEF Pending
  <1>4. PICK j \in 1..Len(s[l]) : q = s[l][j]
    BY <1>3
  <1>5. /\ p \in Path /\ q \in Path /\ Len(p) = k /\ Len(q) = l /\ Len(s) \in Nat
        /\ p[k] \in Nat /\ Len(s[k]) \in Nat
    BY <1>2, <1>4, StackTypes
  <1>6. k <= l /\ \A m \in 1..k : p[m] = q[m]
    BY <1>5, PrefixNames
  <1>7. CASE k = l
    BY <1>5, <1>6, <1>7, SeqEqual DEF Path
  <1>8. CASE k < l
    <2>1. i > 1 /\ 1 \in 1..(i - 1) /\ k \in 1..(l - 1) /\ 1 \in 1..Len(s[k])
      BY <1>2, <1>5, <1>8
    <2>2. q[k] = s[k][1][k]
      <3>1. Placed(s, l, j)
        BY DEF Stack
      <3> QED BY <1>4, <2>1, <3>1 DEF Placed
    <2>3. s[k][1][k] < p[k]
      <3>1. Placed(s, k, i)
        BY DEF Stack
      <3> QED BY <1>2, <2>1, <3>1 DEF Placed
    <2>4. s[k][1][k] \in Nat
      <3>1. \A m \in 1..k : s[k][1][m] \in Nat
        BY <2>1, StackTypes
      <3> QED BY <1>5, <3>1
    <2>5. p[k] = q[k]
      BY <1>6
    <2> QED BY <1>5, <2>2, <2>3, <2>4, <2>5
  <1> QED BY <1>5, <1>6, <1>7, <1>8

LEMMA GreatestIndex ==
    ASSUME NEW n \in Nat, NEW S \in SUBSET (1..n), S # {}
    PROVE  Max(S) \in S /\ \A y \in S : Max(S) >= y
  <1> DEFINE T == {n - k : k \in S}
  <1>1. T \in SUBSET Nat /\ T # {}
    <2>1. \A k \in S : n - k \in Nat
      OBVIOUS
    <2> QED BY <2>1
  <1>2. PICK a \in T : \A b \in T : a <= b
    <2> HIDE DEF T
    <2> QED BY <1>1, LeastNatural
  <1>3. PICK k \in S : a = n - k
    OBVIOUS
  <1>4. \A y \in S : k >= y
    <2> SUFFICES ASSUME NEW y \in S PROVE k >= y
      OBVIOUS
    <2>1. n - k <= n - y
      BY <1>2, <1>3
    <2> QED BY <2>1
  <1> QED BY <1>3, <1>4 DEF Max

\* Dropping the current node leaves the others pending.
LEMMA DropStack ==
    ASSUME NEW t \in Trees, NEW s, Stack(t, s), Current(s) # None
    PROVE  /\ Stack(t, DropCurrent(s))
           /\ Pending(t, DropCurrent(s)) = Pending(t, s) \ {Current(s)}
  <1> DEFINE n == Len(s)
             live == {k \in DOMAIN s : Len(s[k]) > 1}
             u == DropCurrent(s)
  <1>1. /\ n \in Nat \ {0} /\ DOMAIN s = 1..n /\ Current(s) = s[n][1] /\ 1 \in 1..Len(s[n])
        /\ s \in Seq(Seq(DOMAIN t)) /\ \A k \in 1..n : s[k] # <<>> /\ Len(s[k]) \in Nat \ {0}
    <2>1. n \in Nat /\ s \in Seq(Seq(DOMAIN t)) /\ DOMAIN s = 1..n
      BY StackTypes
    <2>2. n > 0 /\ Current(s) = s[n][1] /\ 1 \in 1..Len(s[n]) /\ \A k \in 1..n : s[k] # <<>>
      BY StackTop
    <2>3. \A k \in 1..n : Len(s[k]) \in Nat \ {0}
      BY <2>2, StackTypes
    <2> QED BY <2>1, <2>2, <2>3
  <1>2. ASSUME NEW p, p \in Pending(t, s), p # Current(s)
        PROVE  \E k \in live : \E i \in 2..Len(s[k]) : p = s[k][i]
    <2>1. PICK k \in 1..n : \E i \in 1..Len(s[k]) : p = s[k][i] /\ (i > 1 \/ k = n)
      BY <1>2 DEF Pending
    <2>2. PICK i \in 1..Len(s[k]) : p = s[k][i] /\ (i > 1 \/ k = n)
      BY <2>1
    <2>3. i > 1
      <3>1. CASE i = 1
        BY <1>1, <1>2, <2>2, <3>1
      <3>2. Len(s[k]) \in Nat
        BY <1>1
      <3> QED BY <3>1, <3>2
    <2>4. Len(s[k]) \in Nat /\ k \in DOMAIN s
      BY <1>1
    <2>5. k \in live /\ i \in 2..Len(s[k])
      BY <2>3, <2>4
    <2> HIDE DEF live
    <2> QED BY <2>2, <2>5
  <1>3. CASE live = {}
    <2>1. u = <<>>
      BY <1>3 DEF DropCurrent
    <2>2. Stack(t, <<>>) /\ Pending(t, <<>>) = {}
      BY DEF Stack, Pending
    <2>3. Pending(t, s) \ {Current(s)} = {}
      <3> HIDE DEF live
      <3> QED BY <1>2, <1>3
    <2> QED BY <2>1, <2>2, <2>3
  <1>4. CASE live # {}
    <2> DEFINE K == Max(live)
    <2>1. K \in live /\ \A y \in live : K >= y
      <3>1. live \in SUBSET (1..n)
        BY <1>1
      <3> HIDE DEF live
      <3> QED BY <1>1, <1>4, <3>1, GreatestIndex
    <2> HIDE DEF K
    <2>2. K \in 1..n /\ Len(s[K]) \in Nat /\ Len(s[K]) > 1 /\ s[K] \in Seq(DOMAIN t) /\ s[K] # <<>>
      BY <1>1, <2>1
    <2>3. u = Append(SubSeq(s, 1, K - 1), Tail(s[K]))
      BY <1>4 DEF DropCurrent, K
    <2>4. /\ Tail(s[K]) \in Seq(DOMAIN t) /\ Len(Tail(s[K])) = Len(s[K]) - 1
          /\ \A i \in 1..Len(Tail(s[K])) : Tail(s[K])[i] = s[K][i + 1]
      BY <2>2, HeadTailProperties
    <2>5. /\ SubSeq(s, 1, K - 1) \in Seq(Seq(DOMAIN t)) /\ Len(SubSeq(s, 1, K - 1)) = K - 1
          /\ \A k \in 1..(K - 1) : SubSeq(s, 1, K - 1)[k] = s[k]
      <3>1. \A k \in 1..(K - 1) : s[k] \in Seq(DOMAIN t)
        BY <1>1, <2>2
      <3> QED BY <1>1, <2>2, <3>1, SubSeqProperties
    <2>6. u \in Seq(Seq(DOMAIN t)) /\ Len(u) = K /\ (\A k \in 1..(K - 1) : u[k] = s[k]) /\ u[K] = Tail(s[K])
      BY <2>2, <2>3, <2>4, <2>5
    <2>7. /\ Len(u[K]) = Len(s[K]) - 1 /\ Len(u[K]) \in Nat \ {0}
          /\ \A i \in 1..Len(u[K]) : u[K][i] = s[K][i + 1] /\ i + 1 \in 2..Len(s[K])
      BY <2>2, <2>4, <2>6
    <2> HIDE DEF u, live
    <2>8. \A k \in 1..Len(u) : u[k] # <<>>
      <3>1. u[K] # <<>>
        <4>1. Len(u[K]) # 0
          BY <2>7
        <4> QED BY <4>1
      <3>2. ASSUME NEW k \in 1..Len(u), k # K PROVE u[k] # <<>>
        <4>1. k \in 1..(K - 1) /\ k \in 1..n
          BY <1>1, <2>2, <2>6, <3>2
        <4> QED BY <1>1, <2>6, <4>1
      <3> QED BY <3>1, <3>2
    <2>9. ASSUME NEW k \in 1..(K - 1), NEW i \in 1..Len(u[k]) PROVE Placed(u, k, i)
      <3>1. k \in 1..n /\ u[k] = s[k] /\ \A l \in 1..(k - 1) : u[l] = s[l]
        <4>1. k \in 1..n /\ \A l \in 1..(k - 1) : l \in 1..(K - 1)
          BY <1>1, <2>2
        <4> QED BY <2>6, <4>1
      <3>2. Placed(s, k, i)
        BY <3>1 DEF Stack
      <3>3. Len(u[k][i]) = k
        BY <3>1, <3>2 DEF Placed
      <3>4. ASSUME NEW l \in 1..(k - 1), NEW m \in 1..l PROVE u[k][i][m] = u[l][1][m]
        <4>1. u[k] = s[k] /\ u[l] = s[l]
          BY <3>1
        <4>2. s[k][i][m] = s[l][1][m]
          BY <3>2 DEF Placed
        <4> QED BY <4>1, <4>2
      <3>5. \A j \in 1..(i - 1) :
               u[k][j][k] < u[k][i][k] /\ \A m \in 1..(k - 1) : u[k][j][m] = u[k][i][m]
        BY <3>1, <3>2 DEF Placed
      <3> QED BY <3>3, <3>4, <3>5 DEF Placed
    <2>10. ASSUME NEW i \in 1..Len(u[K]) PROVE Placed(u, K, i)
      <3>1. i + 1 \in 1..Len(s[K]) /\ u[K][i] = s[K][i + 1]
        BY <2>2, <2>7
      <3>2. Placed(s, K, i + 1)
        BY <2>2, <3>1 DEF Stack
      <3>3. Len(u[K][i]) = K
        BY <3>1, <3>2 DEF Placed
      <3>4. \A l \in 1..(K - 1) : \A m \in 1..l : u[K][i][m] = u[l][1][m]
        BY <2>6, <3>1, <3>2 DEF Placed
      <3>5. ASSUME NEW j \in 1..(i - 1)
            PROVE  u[K][j][K] < u[K][i][K] /\ \A m \in 1..(K - 1) : u[K][j][m] = u[K][i][m]
        <4>1. j + 1 \in 1..((i + 1) - 1) /\ u[K][j] = s[K][j + 1]
          BY <2>7
        <4> QED BY <3>1, <3>2, <4>1 DEF Placed
      <3> QED BY <3>3, <3>4, <3>5 DEF Placed
    <2>11. Stack(t, u)
      <3>1. \A k \in 1..Len(u) : \A i \in 1..Len(u[k]) : Placed(u, k, i)
        <4>1. \A k \in 1..Len(u) : k = K \/ k \in 1..(K - 1)
          BY <2>2, <2>6
        <4> QED BY <2>9, <2>10, <4>1
      <3> QED BY <2>6, <2>8, <3>1 DEF Stack
    <2>12. ASSUME NEW p, p \in Pending(t, u) PROVE p \in Pending(t, s) /\ p # Current(s)
      <3>1. PICK k \in 1..K : \E i \in 1..Len(u[k]) : p = u[k][i] /\ (i > 1 \/ k = K)
        BY <2>6, <2>12 DEF Pending
      <3>2. PICK i \in 1..Len(u[k]) : p = u[k][i] /\ (i > 1 \/ k = K)
        BY <3>1
      <3>3. \E j \in 1..Len(s[k]) : j > 1 /\ p = s[k][j]
        <4>1. CASE k = K
          BY <2>2, <2>7, <3>2, <4>1
        <4>2. CASE k # K
          <5>1. k \in 1..(K - 1)
            BY <2>2, <4>2
          <5> QED BY <2>6, <3>2, <4>2, <5>1
        <4> QED BY <4>1, <4>2
      <3>4. k \in 1..n
        BY <1>1, <2>2
      <3>5. p \in DOMAIN t
        BY <2>12 DEF Pending
      <3> QED BY <3>3, <3>4, <3>5, StackOrder DEF Pending
    <2>13. ASSUME NEW p, p \in Pending(t, s), p # Current(s) PROVE p \in Pending(t, u)
      <3>1. PICK k \in live : \E i \in 2..Len(s[k]) : p = s[k][i]
        BY <1>2, <2>13
      <3>2. PICK i \in 2..Len(s[k]) : p = s[k][i]
        BY <3>1
      <3>3. k \in 1..n /\ k <= K /\ Len(s[k]) \in Nat /\ p \in DOMAIN t
        BY <1>1, <2>1, <2>13 DEF live, Pending
      <3>4. CASE k = K
        <4>1. i - 1 \in 1..Len(u[K]) /\ p = u[K][i - 1]
          BY <2>2, <2>7, <3>2, <3>4
        <4>2. K \in 1..Len(u) /\ K = Len(u)
          BY <2>2, <2>6
        <4> QED BY <3>3, <4>1, <4>2 DEF Pending
      <3>5. CASE k < K
        <4>1. k \in 1..(K - 1) /\ i > 1 /\ i \in 1..Len(s[k])
          BY <2>2, <3>2, <3>3, <3>5
        <4>2. k \in 1..Len(u) /\ i \in 1..Len(u[k]) /\ p = u[k][i]
          BY <2>2, <2>6, <3>2, <4>1
        <4> QED BY <3>3, <4>1, <4>2 DEF Pending
      <3> QED BY <2>2, <3>3, <3>4, <3>5
    <2> QED BY <2>11, <2>12, <2>13 DEF u
  <1> QED BY <1>3, <1>4

\* The children of a node, or of the root.
LEMMA ChildPaths ==
    ASSUME NEW t \in Trees, NEW c \in Path
    PROVE  /\ IsFiniteSet(Children(t, c)) /\ Children(t, c) \in SUBSET Path
           /\ \A q \in Children(t, c) :
                 /\ q \in DOMAIN t /\ q \in Path /\ Len(q) = Len(c) + 1
                 /\ \A m \in 1..Len(c) : q[m] = c[m]
           /\ \A q, r \in Children(t, c) :
                 PathLess(q, r) => q[Len(c) + 1] < r[Len(c) + 1]
  <1>1. Len(c) \in Nat
    BY DEF Path
  <1>2. ASSUME NEW q \in Children(t, c)
        PROVE  /\ q \in DOMAIN t /\ q \in Path /\ Len(q) = Len(c) + 1
               /\ \A m \in 1..Len(c) : q[m] = c[m]
               /\ \A i \in 1..(Len(c) + 1) : q[i] \in Nat
    BY TreePaths, PrefixNames DEF Children
  <1>3. IsFiniteSet(Children(t, c))
    <2>1. Children(t, c) \in SUBSET DOMAIN t /\ IsFiniteSet(DOMAIN t)
      BY TreesAssumption DEF Children, TreesAssumption
    <2> QED BY <2>1, FS_Subset
  <1>4. ASSUME NEW q \in Children(t, c), NEW r \in Children(t, c), PathLess(q, r)
        PROVE  q[Len(c) + 1] < r[Len(c) + 1]
    <2>1. PICK i \in 0..Len(q) : /\ i < Len(r) /\ \A k \in 1..i : q[k] = r[k]
                                 /\ i = Len(q) \/ q[i + 1] < r[i + 1]
      BY <1>2, <1>4, LessNames
    <2>2. i \in 0..Len(c) /\ i + 1 \in 1..(Len(c) + 1) /\ q[i + 1] < r[i + 1]
      BY <1>1, <1>2, <2>1
    <2>3. q[i + 1] # r[i + 1]
      BY <1>2, <2>2
    <2>4. ~ (i + 1 \in 1..Len(c))
      BY <1>2, <2>3
    <2>5. i = Len(c)
      BY <1>1, <2>2, <2>4
    <2> QED BY <2>2, <2>5
  <1>5. Children(t, c) \in SUBSET Path
    BY <1>2
  <1> QED BY <1>2, <1>3, <1>4, <1>5

\* A frame lists the children in increasing order of their last names.
LEMMA FrameLists ==
    ASSUME NEW t \in Trees, NEW c \in Path
    PROVE  /\ Frame(t, c) \in Seq(DOMAIN t) /\ ToSet(Frame(t, c)) = Children(t, c)
           /\ \A i \in 1..Len(Frame(t, c)) :
                /\ Frame(t, c)[i] \in Children(t, c)
                /\ \A j \in 1..(i - 1) : Frame(t, c)[j][Len(c) + 1] < Frame(t, c)[i][Len(c) + 1]
  <1> DEFINE f == Frame(t, c)
  <1>1. /\ f \in Seq(Children(t, c)) /\ ToSet(f) = Children(t, c)
        /\ \A i \in 1..Len(f) : \A j \in 1..(i - 1) : PathLess(f[j], f[i])
    BY ChildPaths, InOrderLists DEF Frame
  <1> HIDE DEF f
  <1>2. Len(f) \in Nat /\ \A i \in 1..Len(f) : f[i] \in Children(t, c)
    BY <1>1
  <1>3. f \in Seq(DOMAIN t)
    <2>1. Children(t, c) \subseteq DOMAIN t
      BY DEF Children
    <2> QED BY <1>1, <2>1, SeqMonotonic
  <1>4. ASSUME NEW i \in 1..Len(f), NEW j \in 1..(i - 1) PROVE f[j][Len(c) + 1] < f[i][Len(c) + 1]
    <2>1. f[i] \in Children(t, c) /\ f[j] \in Children(t, c) /\ PathLess(f[j], f[i])
      BY <1>1, <1>2
    <2> QED BY <2>1, ChildPaths
  <1> QED BY <1>1, <1>2, <1>3, <1>4 DEF f

\* The frame of the root.
LEMMA RootStack ==
    ASSUME NEW t \in Trees
    PROVE  /\ Stack(t, <<Frame(t, None)>>)
           /\ Pending(t, <<Frame(t, None)>>) = Children(t, None)
  <1> DEFINE f == Frame(t, None)  s == <<f>>
  <1>1. None \in Path /\ Len(None) = 0
    BY DEF None, Path
  <1>2. /\ f \in Seq(DOMAIN t) /\ ToSet(f) = Children(t, None) /\ Len(f) \in Nat /\ DOMAIN f = 1..Len(f)
        /\ \A i \in 1..Len(f) : Len(f[i]) = 1 /\ f[i] \in DOMAIN t /\ \A j \in 1..(i - 1) : f[j][1] < f[i][1]
    <2>1. /\ f \in Seq(DOMAIN t) /\ ToSet(f) = Children(t, None)
          /\ \A i \in 1..Len(f) : f[i] \in Children(t, None)
          /\ \A i \in 1..Len(f) : \A j \in 1..(i - 1) : f[j][0 + 1] < f[i][0 + 1]
      BY <1>1, FrameLists
    <2>2. \A q \in Children(t, None) : Len(q) = 0 + 1 /\ q \in DOMAIN t
      BY <1>1, ChildPaths
    <2> HIDE DEF f
    <2> QED BY <2>1, <2>2
  <1> HIDE DEF f
  <1>3. s \in Seq(Seq(DOMAIN t)) /\ Len(s) = 1 /\ s[1] = f
    BY <1>2
  <1> HIDE DEF s
  <1>4. s = << <<>> >> \/ \A k \in 1..Len(s) : s[k] # <<>>
    BY <1>3 DEF s
  <1>5. \A k \in 1..Len(s) : k = 1
    BY <1>3
  <1>6. \A i \in 1..Len(f) : Placed(s, 1, i)
    BY <1>2, <1>3 DEF Placed
  <1>7. Stack(t, s)
    BY <1>3, <1>4, <1>5, <1>6 DEF Stack
  <1>8. Pending(t, s) = {p \in DOMAIN t : \E i \in 1..Len(f) : p = f[i]}
    BY <1>3, <1>5 DEF Pending
  <1>9. Pending(t, s) = Children(t, None)
    BY <1>2, <1>8 DEF ToSet
  <1> QED BY <1>7, <1>9 DEF s, f

\* Stepping into the current node leaves its children pending in its place.
LEMMA PushStack ==
    ASSUME NEW t \in Trees, NEW s, Stack(t, s), Current(s) # None,
           Children(t, Current(s)) # {}
    PROVE  /\ Stack(t, Append(s, Frame(t, Current(s))))
           /\ Pending(t, Append(s, Frame(t, Current(s)))) =
                (Pending(t, s) \ {Current(s)}) \cup Children(t, Current(s))
  <1> DEFINE n == Len(s)  c == Current(s)  f == Frame(t, c)  u == Append(s, f)
  <1>1. /\ n \in Nat \ {0} /\ c = s[n][1] /\ 1 \in 1..Len(s[n]) /\ c \in Path /\ Len(c) = n
        /\ s \in Seq(Seq(DOMAIN t)) /\ \A k \in 1..n : s[k] # <<>>
    <2>1. n \in Nat /\ s \in Seq(Seq(DOMAIN t))
      BY StackTypes
    <2>2. n > 0 /\ c = s[n][1] /\ 1 \in 1..Len(s[n]) /\ \A k \in 1..n : s[k] # <<>>
      BY StackTop
    <2>3. c \in Path /\ Len(c) = n
      BY <2>1, <2>2, StackTypes
    <2> QED BY <2>1, <2>2, <2>3
  <1>2. /\ f \in Seq(DOMAIN t) /\ ToSet(f) = Children(t, c) /\ Len(f) \in Nat /\ DOMAIN f = 1..Len(f)
        /\ \A i \in 1..Len(f) :
             /\ f[i] \in DOMAIN t /\ Len(f[i]) = n + 1 /\ \A m \in 1..n : f[i][m] = c[m]
             /\ \A j \in 1..(i - 1) : f[j][n + 1] < f[i][n + 1]
    <2> HIDE DEF c
    <2>1. /\ f \in Seq(DOMAIN t) /\ ToSet(f) = Children(t, c)
          /\ \A i \in 1..Len(f) : f[i] \in Children(t, c)
          /\ \A i \in 1..Len(f) : \A j \in 1..(i - 1) : f[j][n + 1] < f[i][n + 1]
      BY <1>1, FrameLists
    <2>2. \A q \in Children(t, c) : Len(q) = n + 1 /\ q \in DOMAIN t /\ \A m \in 1..n : q[m] = c[m]
      BY <1>1, ChildPaths
    <2> HIDE DEF f, n
    <2> QED BY <2>1, <2>2
  <1> HIDE DEF f
  <1>3. f # <<>>
    BY <1>2 DEF ToSet
  <1>4. /\ u \in Seq(Seq(DOMAIN t)) /\ Len(u) = n + 1 /\ u[n + 1] = f
        /\ \A k \in 1..n : u[k] = s[k]
    BY <1>1, <1>2
  <1> HIDE DEF u
  <1>5. \A k \in 1..Len(u) : k = n + 1 \/ k \in 1..n
    BY <1>1, <1>4
  <1>6. \A k \in 1..Len(u) : u[k] # <<>>
    BY <1>1, <1>3, <1>4, <1>5
  <1>7. ASSUME NEW k \in 1..n, NEW i \in 1..Len(u[k]) PROVE Placed(u, k, i)
    <2>1. u[k] = s[k] /\ \A l \in 1..(k - 1) : l \in 1..n /\ u[l] = s[l]
      <3>1. \A l \in 1..(k - 1) : l \in 1..n
        BY <1>1
      <3> QED BY <1>4, <3>1
    <2>2. Placed(s, k, i)
      BY <2>1 DEF Stack
    <2> QED BY <2>1, <2>2 DEF Placed
  <1>8. ASSUME NEW i \in 1..Len(f) PROVE Placed(u, n + 1, i)
    <2>1. Len(u[n + 1][i]) = n + 1
      BY <1>2, <1>4
    <2>2. ASSUME NEW l \in 1..n, NEW m \in 1..l PROVE u[n + 1][i][m] = u[l][1][m]
      <3>1. u[n + 1][i][m] = c[m] /\ u[l] = s[l]
        BY <1>1, <1>2, <1>4
      <3>2. CASE l = n
        BY <1>1, <3>1, <3>2
      <3>3. CASE l # n
        <4>1. l \in 1..(n - 1) /\ n \in 1..n
          BY <1>1, <3>3
        <4>2. Placed(s, n, 1)
          BY <1>1, <4>1 DEF Stack
        <4> QED BY <1>1, <3>1, <4>1, <4>2 DEF Placed
      <3> QED BY <3>2, <3>3
    <2>3. ASSUME NEW j \in 1..(i - 1)
          PROVE  /\ u[n + 1][j][n + 1] < u[n + 1][i][n + 1]
                 /\ \A m \in 1..n : u[n + 1][j][m] = u[n + 1][i][m]
      <3>1. j \in 1..Len(f)
        BY <1>2
      <3> QED BY <1>2, <1>4, <3>1
    <2>4. (n + 1) - 1 = n
      BY <1>1
    <2> QED BY <2>1, <2>2, <2>3, <2>4 DEF Placed
  <1>9. Stack(t, u)
    <2>1. \A k \in 1..Len(u) : \A i \in 1..Len(u[k]) : Placed(u, k, i)
      BY <1>4, <1>5, <1>7, <1>8
    <2> QED BY <1>4, <1>6, <2>1 DEF Stack
  <1>10. ASSUME NEW p \in Pending(t, u) PROVE p \in Children(t, c) \/ (p \in Pending(t, s) /\ p # c)
    <2>1. PICK k \in 1..Len(u) : \E i \in 1..Len(u[k]) : p = u[k][i] /\ (i > 1 \/ k = n + 1)
      BY <1>4 DEF Pending
    <2>2. PICK i \in 1..Len(u[k]) : p = u[k][i] /\ (i > 1 \/ k = n + 1)
      BY <2>1
    <2>3. CASE k = n + 1
      BY <1>2, <1>4, <2>2, <2>3 DEF ToSet
    <2>4. CASE k \in 1..n /\ k # n + 1
      <3>1. p = s[k][i] /\ i \in 1..Len(s[k]) /\ i > 1
        BY <1>4, <2>2, <2>4
      <3>2. p \in DOMAIN t
        BY DEF Pending
      <3>3. p # c
        BY <2>4, <3>1, StackOrder
      <3> QED BY <2>4, <3>1, <3>2, <3>3 DEF Pending
    <2> QED BY <1>5, <2>3, <2>4
  <1>11. ASSUME NEW p \in Children(t, c) PROVE p \in Pending(t, u)
    <2>1. PICK i \in 1..Len(f) : p = f[i]
      BY <1>2 DEF ToSet
    <2>2. p \in DOMAIN t /\ n + 1 \in 1..Len(u)
      BY <1>1, <1>2, <1>4, <2>1
    <2> QED BY <1>4, <2>1, <2>2 DEF Pending
  <1>12. ASSUME NEW p \in Pending(t, s), p # c PROVE p \in Pending(t, u)
    <2>1. PICK k \in 1..n : \E i \in 1..Len(s[k]) : p = s[k][i] /\ (i > 1 \/ k = n)
      BY DEF Pending
    <2>2. PICK i \in 1..Len(s[k]) : p = s[k][i] /\ (i > 1 \/ k = n)
      BY <2>1
    <2>3. i > 1
      <3>1. CASE i = 1
        BY <1>1, <1>12, <2>2, <3>1
      <3>2. Len(s[k]) \in Nat
        BY StackTypes
      <3> QED BY <3>1, <3>2
    <2>4. k \in 1..Len(u) /\ u[k] = s[k]
      BY <1>1, <1>4
    <2>5. p \in DOMAIN t
      BY DEF Pending
    <2> QED BY <2>2, <2>3, <2>4, <2>5 DEF Pending
  <1> QED BY <1>9, <1>10, <1>11, <1>12 DEF u, f

-----------------------------------------------------------------------------
\* Prefixes of paths.
LEMMA PrefixOrder ==
    ASSUME NEW p \in Path, NEW q \in Path, NEW r \in Path
    PROVE  /\ IsPrefixOf(p, p)
           /\ IsPrefixOf(p, q) /\ IsPrefixOf(q, r) => IsPrefixOf(p, r)
           /\ IsPrefixOf(p, r) /\ IsPrefixOf(q, r) => IsPrefixOf(p, q) \/ IsPrefixOf(q, p)
  <1>1. Len(p) \in Nat /\ Len(q) \in Nat /\ Len(r) \in Nat
    BY DEF Path
  <1>2. IsPrefixOf(p, p)
    BY <1>1, PrefixNames
  <1>3. IsPrefixOf(p, q) /\ IsPrefixOf(q, r) => IsPrefixOf(p, r)
    BY <1>1, PrefixNames
  <1>4. IsPrefixOf(p, r) /\ IsPrefixOf(q, r) => IsPrefixOf(p, q) \/ IsPrefixOf(q, p)
    BY <1>1, PrefixNames
  <1> QED BY <1>2, <1>3, <1>4

LEMMA PrefixSame ==
    ASSUME NEW p \in Path, NEW q \in Path, IsPrefixOf(p, q), Len(p) = Len(q)
    PROVE  p = q
  BY PrefixNames, SeqEqual DEF Path

\* A prefix of a path of a tree is a directory of the tree.
LEMMA PrefixTree ==
    ASSUME NEW t \in Trees, NEW q \in DOMAIN t, NEW p \in Path, p # None, IsPrefixOf(p, q)
    PROVE  p \in DOMAIN t /\ (p # q => t[p] = Dir)
  <1>1. /\ q \in Path /\ Len(q) \in Nat
        /\ \A i \in 1..(Len(q) - 1) : SubSeq(q, 1, i) \in DOMAIN t /\ t[SubSeq(q, 1, i)] = Dir
    BY TreePaths
  <1>2. Len(p) \in Nat /\ Len(p) # 0 /\ Len(p) <= Len(q) /\ SubSeq(q, 1, Len(p)) = p
    <2>1. Len(p) \in Nat \ {0}
      BY EmptySeq DEF Path, None
    <2> QED BY <2>1 DEF IsPrefixOf
  <1>3. CASE Len(p) = Len(q)
    BY <1>1, <1>3, PrefixSame
  <1>4. CASE Len(p) < Len(q)
    <2>1. Len(p) \in 1..(Len(q) - 1)
      BY <1>1, <1>2, <1>4
    <2>2. SubSeq(q, 1, Len(p)) \in DOMAIN t /\ t[SubSeq(q, 1, Len(p))] = Dir
      BY <1>1, <2>1
    <2> QED BY <1>2, <2>2
  <1> QED BY <1>1, <1>2, <1>3, <1>4

\* What is below a node is at or below one of its children.
LEMMA PrefixChild ==
    ASSUME NEW t \in Trees, NEW q \in DOMAIN t, NEW c \in Path, IsPrefixOf(c, q), q # c
    PROVE  \E r \in Children(t, c) : IsPrefixOf(r, q)
  <1> DEFINE r == SubSeq(q, 1, Len(c) + 1)
  <1>1. /\ q \in Path /\ Len(q) \in Nat /\ Len(c) \in Nat
        /\ \A i \in 1..(Len(q) - 1) : SubSeq(q, 1, i) \in DOMAIN t
    BY TreePaths DEF Path
  <1>2. Len(c) <= Len(q) /\ \A k \in 1..Len(c) : c[k] = q[k]
    BY <1>1, PrefixNames
  <1>3. Len(c) < Len(q)
    BY <1>1, <1>2, PrefixSame
  <1>4. r \in Path /\ Len(r) = Len(c) + 1 /\ \A k \in 1..(Len(c) + 1) : r[k] = q[k]
    BY <1>1, <1>3 DEF Path
  <1>5. r \in DOMAIN t
    <2>1. CASE Len(c) + 1 = Len(q)
      BY <1>1, <2>1, SubSeqFull DEF Path
    <2>2. CASE Len(c) + 1 < Len(q)
      BY <1>1, <2>2
    <2> QED BY <1>1, <1>3, <2>1, <2>2
  <1> HIDE DEF r
  <1>6. IsPrefixOf(r, q)
    BY <1>1, <1>3, <1>4, PrefixNames
  <1>7. IsPrefixOf(c, r)
    <2>1. Len(c) <= Len(r) /\ \A k \in 1..Len(c) : c[k] = r[k]
      BY <1>1, <1>2, <1>4
    <2> QED BY <1>4, <2>1, PrefixNames
  <1> QED BY <1>4, <1>5, <1>6, <1>7 DEF Children

\* Nothing is below a file.
LEMMA BelowFile ==
    ASSUME NEW t \in Trees, NEW c \in DOMAIN t, t[c] # Dir
    PROVE  /\ \A q \in DOMAIN t : IsPrefixOf(c, q) => q = c
           /\ FilesUnder(t, c) = {c}
  <1>1. c \in Path /\ c # None
    BY TreePaths
  <1>2. \A q \in DOMAIN t : IsPrefixOf(c, q) => q = c
    BY <1>1, PrefixTree
  <1>3. IsPrefixOf(c, c)
    BY <1>1, PrefixOrder
  <1> QED BY <1>2, <1>3 DEF FilesUnder

\* The trees and the side that is an index.
Given == from \in Trees /\ to \in Trees /\ index \in {"from", "to"}

LEMMA GivenTrees ==
    ASSUME Given, NEW side \in {"from", "to"}
    PROVE  /\ TreeOf(side) \in Trees
           /\ TreeOf("from") = from /\ TreeOf("to") = to
  BY DEF Given, TreeOf

\* A node of both trees is not ignored, or a skipped node would have the name
\* of a node of the other tree: its own.
LEMMA SharedNotIgnored ==
    ASSUME Given, ~ Collides, NEW q \in DOMAIN from \cap DOMAIN to
    PROVE  ~ Ignored(q) /\ ~ Skip("from", q) /\ ~ Skip("to", q)
  <1> DEFINE other == IF index = "from" THEN "to" ELSE "from"
  <1>1. /\ from \in Trees /\ to \in Trees /\ q \in Path /\ q # None /\ Len(q) \in Nat \ {0}
        /\ TreeOf(index) \in {from, to} /\ TreeOf(other) \in {from, to}
    BY TreePaths DEF Given, TreeOf
  <1>2. ASSUME NEW p \in DOMAIN from \cap DOMAIN to PROVE ~ Skip(index, p)
    BY <1>1, <1>2 DEF Collides
  <1>3. ASSUME NEW i \in 1..Len(q) PROVE SubSeq(q, 1, i) \in DOMAIN from \cap DOMAIN to
    <2>1. CASE i = Len(q)
      BY <1>1, <2>1, SubSeqFull DEF Path
    <2>2. CASE i < Len(q)
      <3>1. i \in 1..(Len(q) - 1)
        BY <1>1, <2>2
      <3> QED BY <1>1, <3>1, TreePaths
    <2> QED BY <1>1, <2>1, <2>2
  <1>4. ~ Ignored(q)
    BY <1>2, <1>3 DEF Ignored
  <1> QED BY <1>2, <1>4 DEF Skip

\* A file is ignored when it is skipped.
LEMMA IgnoredIsSkipped ==
    ASSUME Given, ~ Collides, NEW side \in {"from", "to"},
           NEW q \in DOMAIN TreeOf(side), TreeOf(side)[q] # Dir
    PROVE  Ignored(q) <=> Skip(side, q)
  <1> DEFINE t == TreeOf(side)
             other == IF index = "from" THEN "to" ELSE "from"
  <1>1. t \in Trees /\ q \in Path /\ q # None /\ Len(q) \in Nat \ {0}
    BY GivenTrees, TreePaths
  <1>2. SubSeq(q, 1, Len(q)) = q
    BY <1>1, SubSeqFull DEF Path
  <1>3. ASSUME Skip(side, q) PROVE Ignored(q)
    <2>1. side = index /\ Len(q) \in 1..Len(q)
      BY <1>1, <1>3 DEF Skip
    <2> QED BY <1>2, <1>3, <2>1 DEF Ignored
  <1>4. ASSUME Ignored(q) PROVE Skip(side, q)
    <2>1. PICK i \in 1..Len(q) : SubSeq(q, 1, i) \in DOMAIN TreeOf(index) /\ Skip(index, SubSeq(q, 1, i))
      BY <1>4 DEF Ignored
    <2> DEFINE p == SubSeq(q, 1, i)
    <2>2. p \in DOMAIN t
      <3>1. CASE i = Len(q)
        BY <1>2, <3>1
      <3>2. CASE i < Len(q)
        <4>1. i \in 1..(Len(q) - 1)
          BY <1>1, <3>2
        <4> QED BY <1>1, <4>1, TreePaths
      <3> QED BY <1>1, <3>1, <3>2
    <2>3. p \in Path /\ Len(p) = i /\ \A k \in 1..i : p[k] = q[k]
      BY <1>1 DEF Path
    <2>4. IsPrefixOf(p, q)
      <3> HIDE DEF p
      <3> QED BY <1>1, <2>3, PrefixNames
    <2>5. side = index
      <3> SUFFICES ASSUME side # index PROVE FALSE
        OBVIOUS
      <3>1. side = other
        BY DEF Given
      <3> HIDE DEF p
      <3>2. Collides
        BY <2>1, <2>2, <3>1 DEF Collides, p
      <3> QED BY <3>2
    <2> HIDE DEF p
    <2>6. q \in FilesUnder(t, p)
      BY <2>4 DEF FilesUnder
    <2>7. q \in skipped
      BY <2>1, <2>5, <2>6 DEF Skip, p
    <2>8. FilesUnder(t, q) = {q}
      BY <1>1, BelowFile
    <2> QED BY <2>5, <2>7, <2>8 DEF Skip
  <1> QED BY <1>3, <1>4

\* The nodes at or below a set of nodes.
Under(t, nodes) == {q \in DOMAIN t : \E r \in nodes : IsPrefixOf(r, q)}

FromNodes == Pending(from, it.from)
ToNodes == Pending(to, it.to)

\* A change at a path that an iterator has still to come to.
Open(x, fs, ts) == x.from \in Under(from, fs) \/ x.to \in Under(to, ts)

\* Dropping a pending node leaves what is not below it under the others.
LEMMA UnderDrop ==
    ASSUME NEW t \in Trees, NEW s, Stack(t, s), NEW c \in Pending(t, s), NEW q \in DOMAIN t
    PROVE  /\ q \in Under(t, Pending(t, s) \ {c}) <=> q \in Under(t, Pending(t, s)) /\ ~ IsPrefixOf(c, q)
           /\ IsPrefixOf(c, q) => q \in Under(t, Pending(t, s))
  <1>1. q \in Path /\ \A r \in Pending(t, s) : r \in Path
    BY TreePaths DEF Pending
  <1>2. ASSUME NEW r \in Pending(t, s), IsPrefixOf(r, q), IsPrefixOf(c, q) PROVE r = c
    <2>1. IsPrefixOf(r, c) \/ IsPrefixOf(c, r)
      BY <1>1, <1>2, PrefixOrder
    <2> QED BY <2>1, PendingApart
  <1> QED BY <1>2 DEF Under

\* Stepping into a directory leaves everything but the directory pending.
LEMMA UnderPush ==
    ASSUME NEW t \in Trees, NEW s, NEW c \in Pending(t, s), NEW q \in DOMAIN t, q # c
    PROVE  q \in Under(t, (Pending(t, s) \ {c}) \cup Children(t, c)) <=> q \in Under(t, Pending(t, s))
  <1>1. c \in Path /\ q \in Path
    BY TreePaths DEF Pending
  <1>2. ASSUME NEW r \in Children(t, c), IsPrefixOf(r, q) PROVE IsPrefixOf(c, q)
    <2>1. r \in Path /\ IsPrefixOf(c, r)
      BY <1>1, ChildPaths DEF Children
    <2> QED BY <1>1, <1>2, <2>1, PrefixOrder
  <1>3. IsPrefixOf(c, q) => \E r \in Children(t, c) : IsPrefixOf(r, q)
    BY <1>1, PrefixChild
  <1> QED BY <1>2, <1>3 DEF Under

\* The three kinds of changes.
LEMMA ExpectedKinds ==
    ASSUME NEW x
    PROVE  x \in Expected <=>
             \E q \in DOMAIN from \cup DOMAIN to :
                /\ ~ Ignored(q)
                /\ \/ x = [from |-> q, to |-> None] /\ IsFile(from, q) /\ ~ IsFile(to, q)
                   \/ x = [from |-> None, to |-> q] /\ ~ IsFile(from, q) /\ IsFile(to, q)
                   \/ x = [from |-> q, to |-> q] /\ IsFile(from, q) /\ IsFile(to, q) /\ from[q] # to[q]
  <1> DEFINE all == {p \in DOMAIN from \cup DOMAIN to : ~ Ignored(p)}
             D == {q \in all : IsFile(from, q) /\ ~ IsFile(to, q)}
             I == {q \in all : ~ IsFile(from, q) /\ IsFile(to, q)}
             M == {q \in all : IsFile(from, q) /\ IsFile(to, q) /\ from[q] # to[q]}
  <1>1. Expected = {[from |-> p, to |-> None] : p \in D} \cup {[from |-> None, to |-> p] : p \in I}
                    \cup {[from |-> p, to |-> p] : p \in M}
    BY Zenon DEF Expected
  <1>2. x \in Expected <=> \/ \E q \in D : x = [from |-> q, to |-> None]
                           \/ \E q \in I : x = [from |-> None, to |-> q]
                           \/ \E q \in M : x = [from |-> q, to |-> q]
    <2> HIDE DEF D, I, M
    <2> QED BY <1>1
  <1>3. /\ \A q : q \in D <=> q \in DOMAIN from \cup DOMAIN to /\ ~ Ignored(q) /\ IsFile(from, q) /\ ~ IsFile(to, q)
        /\ \A q : q \in I <=> q \in DOMAIN from \cup DOMAIN to /\ ~ Ignored(q) /\ ~ IsFile(from, q) /\ IsFile(to, q)
        /\ \A q : q \in M <=> /\ q \in DOMAIN from \cup DOMAIN to /\ ~ Ignored(q)
                              /\ IsFile(from, q) /\ IsFile(to, q) /\ from[q] # to[q]
    OBVIOUS
  <1> HIDE DEF D, I, M
  <1> QED BY <1>2, <1>3

\* The path of a change.
LEMMA ExpectedPaths ==
    ASSUME Given, NEW x \in Expected
    PROVE  \/ /\ x.from \in DOMAIN from /\ x.to = None /\ x = [from |-> x.from, to |-> None]
              /\ from[x.from] # Dir /\ ~ IsFile(to, x.from) /\ ~ Ignored(x.from)
           \/ /\ x.from = None /\ x.to \in DOMAIN to /\ x = [from |-> None, to |-> x.to]
              /\ to[x.to] # Dir /\ ~ IsFile(from, x.to) /\ ~ Ignored(x.to)
           \/ /\ x.from = x.to /\ x.from \in DOMAIN from \cap DOMAIN to
              /\ x = [from |-> x.from, to |-> x.from] /\ ~ Ignored(x.from)
              /\ from[x.from] # Dir /\ to[x.from] # Dir /\ from[x.from] # to[x.from]
  <1>1. PICK q \in DOMAIN from \cup DOMAIN to :
                /\ ~ Ignored(q)
                /\ \/ x = [from |-> q, to |-> None] /\ IsFile(from, q) /\ ~ IsFile(to, q)
                   \/ x = [from |-> None, to |-> q] /\ ~ IsFile(from, q) /\ IsFile(to, q)
                   \/ x = [from |-> q, to |-> q] /\ IsFile(from, q) /\ IsFile(to, q) /\ from[q] # to[q]
    BY ExpectedKinds
  <1>2. CASE x = [from |-> q, to |-> None] /\ IsFile(from, q) /\ ~ IsFile(to, q)
    BY <1>1, <1>2 DEF IsFile
  <1>3. CASE x = [from |-> None, to |-> q] /\ ~ IsFile(from, q) /\ IsFile(to, q)
    BY <1>1, <1>3 DEF IsFile
  <1>4. CASE x = [from |-> q, to |-> q] /\ IsFile(from, q) /\ IsFile(to, q) /\ from[q] # to[q]
    BY <1>1, <1>4 DEF IsFile
  <1> QED BY <1>1, <1>2, <1>3, <1>4

NoneNotIn == None \notin DOMAIN from /\ None \notin DOMAIN to

LEMMA NoneIsNoNode == Given => NoneNotIn
  BY TreePaths DEF Given, NoneNotIn

DeletesBelow(c) == {[from |-> q, to |-> None] : q \in {r \in FilesUnder(from, c) : ~ Skip("from", r)}}
InsertsBelow(c) == {[from |-> None, to |-> q] : q \in {r \in FilesUnder(to, c) : ~ Skip("to", r)}}

\* Leaving a node of from that to does not have.
LEMMA LeaveFrom ==
    ASSUME Given, ~ Collides, Stack(from, it.from), NEW c \in FromNodes, c \notin DOMAIN to
    PROVE  /\ \A x \in Expected : Open(x, FromNodes \ {c}, ToNodes) => Open(x, FromNodes, ToNodes)
           /\ DeletesBelow(c) =
                {x \in Expected : Open(x, FromNodes, ToNodes) /\ ~ Open(x, FromNodes \ {c}, ToNodes)}
  <1>1. /\ from \in Trees /\ to \in Trees /\ NoneNotIn /\ c \in DOMAIN from /\ c \in Path /\ c # None
    BY NoneIsNoNode, TreePaths DEF Given, FromNodes, Pending
  <1>2. \A q \in DOMAIN from :
           /\ q \in Under(from, FromNodes \ {c}) <=> q \in Under(from, FromNodes) /\ ~ IsPrefixOf(c, q)
           /\ IsPrefixOf(c, q) => q \in Under(from, FromNodes)
    BY <1>1, UnderDrop DEF FromNodes
  <1>3. /\ \A s : Under(from, s) \subseteq DOMAIN from
        /\ \A s : Under(to, s) \subseteq DOMAIN to
    BY DEF Under
  <1>4. \A x \in Expected : Open(x, FromNodes \ {c}, ToNodes) => Open(x, FromNodes, ToNodes)
    BY <1>2, <1>3 DEF Open
  <1>5. \A q \in DOMAIN to : ~ IsPrefixOf(c, q)
    BY <1>1, PrefixTree
  <1>6. ASSUME NEW x \in Expected, Open(x, FromNodes, ToNodes), ~ Open(x, FromNodes \ {c}, ToNodes)
        PROVE  x \in DeletesBelow(c)
    <2>1. x.from \in DOMAIN from /\ IsPrefixOf(c, x.from)
      BY <1>2, <1>3, <1>6 DEF Open
    <2>2. /\ x = [from |-> x.from, to |-> None] /\ from[x.from] # Dir /\ ~ Ignored(x.from)
      BY <1>1, <1>5, <2>1, ExpectedPaths DEF NoneNotIn
    <2>3. ~ Skip("from", x.from)
      BY <2>1, <2>2, IgnoredIsSkipped, GivenTrees
    <2>4. x.from \in {r \in FilesUnder(from, c) : ~ Skip("from", r)}
      BY <2>1, <2>2, <2>3 DEF FilesUnder
    <2> QED BY <2>2, <2>4 DEF DeletesBelow
  <1>7. ASSUME NEW x \in DeletesBelow(c)
        PROVE  x \in Expected /\ Open(x, FromNodes, ToNodes) /\ ~ Open(x, FromNodes \ {c}, ToNodes)
    <2>1. PICK q \in {r \in FilesUnder(from, c) : ~ Skip("from", r)} : x = [from |-> q, to |-> None]
      BY DEF DeletesBelow
    <2>2. q \in DOMAIN from /\ from[q] # Dir /\ IsPrefixOf(c, q) /\ ~ Skip("from", q)
      BY <2>1 DEF FilesUnder
    <2>3. ~ Ignored(q)
      BY <2>2, IgnoredIsSkipped, GivenTrees
    <2>4. x \in Expected
      BY <1>5, <2>1, <2>2, <2>3, ExpectedKinds DEF IsFile
    <2>5. x.from = q /\ x.to = None
      BY <2>1
    <2> QED BY <1>1, <1>2, <1>3, <2>2, <2>4, <2>5 DEF Open, NoneNotIn
  <1> QED BY <1>4, <1>6, <1>7

\* Leaving a node of to that from does not have.
LEMMA LeaveTo ==
    ASSUME Given, ~ Collides, Stack(to, it.to), NEW c \in ToNodes, c \notin DOMAIN from
    PROVE  /\ \A x \in Expected : Open(x, FromNodes, ToNodes \ {c}) => Open(x, FromNodes, ToNodes)
           /\ InsertsBelow(c) =
                {x \in Expected : Open(x, FromNodes, ToNodes) /\ ~ Open(x, FromNodes, ToNodes \ {c})}
  <1>1. /\ to \in Trees /\ from \in Trees /\ NoneNotIn /\ c \in DOMAIN to /\ c \in Path /\ c # None
    BY NoneIsNoNode, TreePaths DEF Given, ToNodes, Pending
  <1>2. \A q \in DOMAIN to :
           /\ q \in Under(to, ToNodes \ {c}) <=> q \in Under(to, ToNodes) /\ ~ IsPrefixOf(c, q)
           /\ IsPrefixOf(c, q) => q \in Under(to, ToNodes)
    BY <1>1, UnderDrop DEF ToNodes
  <1>3. /\ \A s : Under(to, s) \subseteq DOMAIN to
        /\ \A s : Under(from, s) \subseteq DOMAIN from
    BY DEF Under
  <1>4. \A x \in Expected : Open(x, FromNodes, ToNodes \ {c}) => Open(x, FromNodes, ToNodes)
    BY <1>2, <1>3 DEF Open
  <1>5. \A q \in DOMAIN from : ~ IsPrefixOf(c, q)
    BY <1>1, PrefixTree
  <1>6. ASSUME NEW x \in Expected, Open(x, FromNodes, ToNodes), ~ Open(x, FromNodes, ToNodes \ {c})
        PROVE  x \in InsertsBelow(c)
    <2>1. x.to \in DOMAIN to /\ IsPrefixOf(c, x.to)
      BY <1>2, <1>3, <1>6 DEF Open
    <2>2. /\ x = [from |-> None, to |-> x.to] /\ to[x.to] # Dir /\ ~ Ignored(x.to)
      BY <1>1, <1>5, <2>1, ExpectedPaths DEF NoneNotIn
    <2>3. ~ Skip("to", x.to)
      BY <2>1, <2>2, IgnoredIsSkipped, GivenTrees
    <2>4. x.to \in {r \in FilesUnder(to, c) : ~ Skip("to", r)}
      BY <2>1, <2>2, <2>3 DEF FilesUnder
    <2> QED BY <2>2, <2>4 DEF InsertsBelow
  <1>7. ASSUME NEW x \in InsertsBelow(c)
        PROVE  x \in Expected /\ Open(x, FromNodes, ToNodes) /\ ~ Open(x, FromNodes, ToNodes \ {c})
    <2>1. PICK q \in {r \in FilesUnder(to, c) : ~ Skip("to", r)} : x = [from |-> None, to |-> q]
      BY DEF InsertsBelow
    <2>2. q \in DOMAIN to /\ to[q] # Dir /\ IsPrefixOf(c, q) /\ ~ Skip("to", q)
      BY <2>1 DEF FilesUnder
    <2>3. ~ Ignored(q)
      BY <2>2, IgnoredIsSkipped, GivenTrees
    <2>4. x \in Expected
      BY <1>5, <2>1, <2>2, <2>3, ExpectedKinds DEF IsFile
    <2>5. x.to = q /\ x.from = None
      BY <2>1
    <2> QED BY <1>1, <1>2, <1>3, <2>2, <2>4, <2>5 DEF Open, NoneNotIn
  <1> QED BY <1>4, <1>6, <1>7

\* The changes at or below a node.
ChangesBelow(c) ==
    {x \in Expected : \/ x.from \in DOMAIN from /\ IsPrefixOf(c, x.from)
                      \/ x.to \in DOMAIN to /\ IsPrefixOf(c, x.to)}

\* Leaving a node of both.
LEMMA LeaveBoth ==
    ASSUME Given, Stack(from, it.from), Stack(to, it.to), NEW c \in FromNodes \cap ToNodes
    PROVE  /\ \A x \in Expected : Open(x, FromNodes \ {c}, ToNodes \ {c}) => Open(x, FromNodes, ToNodes)
           /\ ChangesBelow(c) =
                {x \in Expected : Open(x, FromNodes, ToNodes) /\ ~ Open(x, FromNodes \ {c}, ToNodes \ {c})}
  <1>1. /\ from \in Trees /\ to \in Trees /\ NoneNotIn
    BY NoneIsNoNode DEF Given
  <1>2. \A q \in DOMAIN from :
           /\ q \in Under(from, FromNodes \ {c}) <=> q \in Under(from, FromNodes) /\ ~ IsPrefixOf(c, q)
           /\ IsPrefixOf(c, q) => q \in Under(from, FromNodes)
    BY <1>1, UnderDrop DEF FromNodes
  <1>3. \A q \in DOMAIN to :
           /\ q \in Under(to, ToNodes \ {c}) <=> q \in Under(to, ToNodes) /\ ~ IsPrefixOf(c, q)
           /\ IsPrefixOf(c, q) => q \in Under(to, ToNodes)
    BY <1>1, UnderDrop DEF ToNodes
  <1>4. /\ \A s : Under(from, s) \subseteq DOMAIN from
        /\ \A s : Under(to, s) \subseteq DOMAIN to
    BY DEF Under
  <1>5. \A x \in Expected : Open(x, FromNodes \ {c}, ToNodes \ {c}) => Open(x, FromNodes, ToNodes)
    BY <1>2, <1>3, <1>4 DEF Open
  <1>6. ASSUME NEW x \in Expected, Open(x, FromNodes, ToNodes), ~ Open(x, FromNodes \ {c}, ToNodes \ {c})
        PROVE  x \in ChangesBelow(c)
    BY <1>2, <1>3, <1>4, <1>6 DEF Open, ChangesBelow
  <1>7. ASSUME NEW x \in ChangesBelow(c)
        PROVE  x \in Expected /\ Open(x, FromNodes, ToNodes) /\ ~ Open(x, FromNodes \ {c}, ToNodes \ {c})
    <2>1. /\ x \in Expected
          /\ \/ x.from \in DOMAIN from /\ IsPrefixOf(c, x.from)
             \/ x.to \in DOMAIN to /\ IsPrefixOf(c, x.to)
      BY DEF ChangesBelow
    <2>2. \/ x.from \in DOMAIN from /\ x.to = None
          \/ x.from = None /\ x.to \in DOMAIN to
          \/ x.from = x.to /\ x.from \in DOMAIN from \cap DOMAIN to
      BY <2>1, ExpectedPaths
    <2> QED BY <1>1, <1>2, <1>3, <1>4, <2>1, <2>2 DEF Open, NoneNotIn
  <1> QED BY <1>5, <1>6, <1>7

\* Stepping into a directory of both.
LEMMA StepIntoBoth ==
    ASSUME Given, NEW c \in FromNodes \cap ToNodes, from[c] = Dir, to[c] = Dir, NEW x \in Expected
    PROVE  Open(x, (FromNodes \ {c}) \cup Children(from, c), (ToNodes \ {c}) \cup Children(to, c))
             <=> Open(x, FromNodes, ToNodes)
  <1>1. from \in Trees /\ to \in Trees /\ NoneNotIn
    BY NoneIsNoNode DEF Given
  <1>2. (x.from \in DOMAIN from => x.from # c) /\ (x.to \in DOMAIN to => x.to # c)
    BY <1>1, ExpectedPaths DEF NoneNotIn
  <1>3. x.from \in DOMAIN from =>
           (x.from \in Under(from, (FromNodes \ {c}) \cup Children(from, c)) <=> x.from \in Under(from, FromNodes))
    BY <1>1, <1>2, UnderPush DEF FromNodes
  <1>4. x.to \in DOMAIN to =>
           (x.to \in Under(to, (ToNodes \ {c}) \cup Children(to, c)) <=> x.to \in Under(to, ToNodes))
    BY <1>1, <1>2, UnderPush DEF ToNodes
  <1>5. /\ \A s : Under(from, s) \subseteq DOMAIN from
        /\ \A s : Under(to, s) \subseteq DOMAIN to
    BY DEF Under
  <1> QED BY <1>3, <1>4, <1>5 DEF Open

\* What the comparison of two nodes with one path adds.
LEMMA NothingBelow ==
    ASSUME Given, NEW c \in DOMAIN from \cap DOMAIN to, SameHash(c)
    PROVE  ChangesBelow(c) = {}
  <1>1. from \in Trees /\ to \in Trees
    BY DEF Given
  <1>2. ASSUME NEW q, IsPrefixOf(c, q)
        PROVE  (q \in DOMAIN from <=> q \in DOMAIN to) /\ (q \in DOMAIN from => from[q] = to[q])
    <2>1. CASE from[c] # Dir
      <3>1. to[c] # Dir /\ from[c] = to[c]
        BY <2>1 DEF SameHash
      <3> QED BY <1>1, <1>2, <2>1, <3>1, BelowFile
    <2>2. CASE from[c] = Dir
      <3> DEFINE F == {r \in DOMAIN from : IsPrefixOf(c, r)}
                 T == {r \in DOMAIN to : IsPrefixOf(c, r)}
      <3>1. {<<r, from[r]>> : r \in F} = {<<r, to[r]>> : r \in T}
        BY <2>2 DEF SameHash
      <3>2. /\ \A r \in F : \E y \in T : <<r, from[r]>> = <<y, to[y]>>
            /\ \A r \in T : \E y \in F : <<r, to[r]>> = <<y, from[y]>>
        <4> HIDE DEF F, T
        <4> QED BY <3>1
      <3>3. /\ \A r \in F : r \in T /\ from[r] = to[r]
            /\ \A r \in T : r \in F
        <4> HIDE DEF F, T
        <4> QED BY <3>2
      <3> QED BY <1>2, <3>3
    <2> QED BY <2>1, <2>2
  <1>3. ASSUME NEW x \in ChangesBelow(c) PROVE FALSE
    <2>1. x \in Expected
      BY DEF ChangesBelow
    <2>2. (x.from \in DOMAIN from /\ IsPrefixOf(c, x.from)) \/ (x.to \in DOMAIN to /\ IsPrefixOf(c, x.to))
      BY DEF ChangesBelow
    <2>3. CASE x.from \in DOMAIN from /\ IsPrefixOf(c, x.from)
      BY <1>2, <2>1, <2>3, ExpectedPaths, NoneIsNoNode DEF IsFile, NoneNotIn
    <2>4. CASE x.to \in DOMAIN to /\ IsPrefixOf(c, x.to)
      BY <1>2, <2>1, <2>4, ExpectedPaths, NoneIsNoNode DEF IsFile, NoneNotIn
    <2> QED BY <2>2, <2>3, <2>4
  <1> QED BY <1>3

LEMMA ModifiedBelow ==
    ASSUME Given, ~ Collides, NEW c \in DOMAIN from \cap DOMAIN to,
           from[c] # Dir, to[c] # Dir, from[c] # to[c]
    PROVE  ChangesBelow(c) = {[from |-> c, to |-> c]}
  <1>1. from \in Trees /\ to \in Trees /\ NoneNotIn /\ c \in Path
    BY TreePaths, NoneIsNoNode DEF Given
  <1>2. IsPrefixOf(c, c)
    BY <1>1, PrefixOrder
  <1>3. /\ \A q \in DOMAIN from : IsPrefixOf(c, q) => q = c
        /\ \A q \in DOMAIN to : IsPrefixOf(c, q) => q = c
    BY <1>1, BelowFile
  <1>4. ~ Ignored(c)
    BY SharedNotIgnored
  <1>5. [from |-> c, to |-> c] \in Expected
    BY <1>4, ExpectedKinds DEF IsFile
  <1>6. ASSUME NEW x \in ChangesBelow(c) PROVE x = [from |-> c, to |-> c]
    <2>1. x \in Expected /\ (x.from = c \/ x.to = c)
      BY <1>3 DEF ChangesBelow
    <2> QED BY <1>1, <2>1, ExpectedPaths DEF IsFile, NoneNotIn
  <1> QED BY <1>2, <1>5, <1>6 DEF ChangesBelow

\* No file of one tree below c is a file of the other.
LEMMA ReplacedBelow ==
    ASSUME Given, ~ Collides, NEW c \in DOMAIN from \cap DOMAIN to,
           FilesUnder(from, c) \cap FilesUnder(to, c) = {}
    PROVE  ChangesBelow(c) = DeletesBelow(c) \cup InsertsBelow(c)
  <1>1. from \in Trees /\ to \in Trees /\ NoneNotIn
    BY NoneIsNoNode DEF Given
  <1>2. ASSUME NEW x \in ChangesBelow(c) PROVE x \in DeletesBelow(c) \cup InsertsBelow(c)
    <2>1. /\ x \in Expected
          /\ \/ x.from \in DOMAIN from /\ IsPrefixOf(c, x.from)
             \/ x.to \in DOMAIN to /\ IsPrefixOf(c, x.to)
      BY DEF ChangesBelow
    <2>2. CASE /\ x.from \in DOMAIN from /\ x.to = None /\ x = [from |-> x.from, to |-> None]
               /\ from[x.from] # Dir /\ ~ Ignored(x.from)
      <3>1. x.from \in FilesUnder(from, c)
        BY <1>1, <2>1, <2>2 DEF FilesUnder, NoneNotIn
      <3>2. ~ Skip("from", x.from)
        BY <2>2, IgnoredIsSkipped, GivenTrees
      <3> QED BY <2>2, <3>1, <3>2 DEF DeletesBelow
    <2>3. CASE /\ x.from = None /\ x.to \in DOMAIN to /\ x = [from |-> None, to |-> x.to]
               /\ to[x.to] # Dir /\ ~ Ignored(x.to)
      <3>1. x.to \in FilesUnder(to, c)
        BY <1>1, <2>1, <2>3 DEF FilesUnder, NoneNotIn
      <3>2. ~ Skip("to", x.to)
        BY <2>3, IgnoredIsSkipped, GivenTrees
      <3> QED BY <2>3, <3>1, <3>2 DEF InsertsBelow
    <2>4. CASE /\ x.from = x.to /\ x.from \in DOMAIN from \cap DOMAIN to
               /\ from[x.from] # Dir /\ to[x.from] # Dir
      BY <2>1, <2>4 DEF FilesUnder
    <2> QED BY <2>1, <2>2, <2>3, <2>4, ExpectedPaths
  <1>3. ASSUME NEW x \in DeletesBelow(c) PROVE x \in ChangesBelow(c)
    <2>1. PICK q \in {r \in FilesUnder(from, c) : ~ Skip("from", r)} : x = [from |-> q, to |-> None]
      BY DEF DeletesBelow
    <2>2. q \in DOMAIN from /\ from[q] # Dir /\ IsPrefixOf(c, q) /\ ~ Skip("from", q)
      BY <2>1 DEF FilesUnder
    <2>3. ~ Ignored(q)
      BY <2>2, IgnoredIsSkipped, GivenTrees
    <2>4. ~ IsFile(to, q)
      BY <2>1, <2>2 DEF IsFile, FilesUnder
    <2>5. x \in Expected /\ x.from = q
      BY <2>1, <2>2, <2>3, <2>4, ExpectedKinds DEF IsFile
    <2> QED BY <2>2, <2>5 DEF ChangesBelow
  <1>4. ASSUME NEW x \in InsertsBelow(c) PROVE x \in ChangesBelow(c)
    <2>1. PICK q \in {r \in FilesUnder(to, c) : ~ Skip("to", r)} : x = [from |-> None, to |-> q]
      BY DEF InsertsBelow
    <2>2. q \in DOMAIN to /\ to[q] # Dir /\ IsPrefixOf(c, q) /\ ~ Skip("to", q)
      BY <2>1 DEF FilesUnder
    <2>3. ~ Ignored(q)
      BY <2>2, IgnoredIsSkipped, GivenTrees
    <2>4. ~ IsFile(from, q)
      BY <2>1, <2>2 DEF IsFile, FilesUnder
    <2>5. x \in Expected /\ x.to = q
      BY <2>1, <2>2, <2>3, <2>4, ExpectedKinds DEF IsFile
    <2> QED BY <2>2, <2>5 DEF ChangesBelow
  <1> QED BY <1>2, <1>3, <1>4

-----------------------------------------------------------------------------
\* The changes that a comparison may list, and a list without repetitions.
Listed == {x \in [from : DOMAIN from \cup {None}, to : DOMAIN to \cup {None}] :
              x.from # None \/ x.to # None}

Once(s) == \A i, j \in 1..Len(s) : s[i] = s[j] => i = j

LEMMA JoinLists ==
    ASSUME NEW S, NEW s \in Seq(S), NEW u \in Seq(S)
    PROVE  /\ s \o u \in Seq(S) /\ ToSet(s \o u) = ToSet(s) \cup ToSet(u)
           /\ Once(s) /\ Once(u) /\ ToSet(s) \cap ToSet(u) = {} => Once(s \o u)
  <1> DEFINE m == Len(s)  n == Len(u)  v == s \o u
  <1>1. /\ m \in Nat /\ n \in Nat /\ v \in Seq(S) /\ Len(v) = m + n
        /\ DOMAIN s = 1..m /\ DOMAIN u = 1..n /\ DOMAIN v = 1..(m + n)
        /\ \A i \in 1..(m + n) : v[i] = IF i <= m THEN s[i] ELSE u[i - m]
    BY ConcatProperties
  <1> HIDE DEF v, m, n
  <1>2. \A i \in 1..(m + n) : (i <= m => i \in 1..m) /\ (~ (i <= m) => i - m \in 1..n)
    BY <1>1
  <1>3. (\A i \in 1..m : i \in 1..(m + n) /\ i <= m) /\ \A i \in 1..n : i + m \in 1..(m + n) /\ ~ (i + m <= m) /\ (i + m) - m = i
    BY <1>1
  <1>4. ToSet(v) = ToSet(s) \cup ToSet(u)
    <2>1. \A i \in 1..(m + n) : v[i] \in ToSet(s) \cup ToSet(u)
      BY <1>1, <1>2 DEF ToSet
    <2>2. \A i \in 1..m : s[i] \in ToSet(v)
      <3> SUFFICES ASSUME NEW i \in 1..m PROVE s[i] \in ToSet(v)
        OBVIOUS
      <3>1. v[i] = s[i] /\ i \in 1..(m + n)
        BY <1>1, <1>3
      <3> QED BY <1>1, <3>1 DEF ToSet
    <2>3. \A i \in 1..n : u[i] \in ToSet(v)
      <3> SUFFICES ASSUME NEW i \in 1..n PROVE u[i] \in ToSet(v)
        OBVIOUS
      <3>1. v[i + m] = u[i] /\ i + m \in 1..(m + n)
        BY <1>1, <1>3
      <3> QED BY <1>1, <3>1 DEF ToSet
    <2> QED BY <1>1, <2>1, <2>2, <2>3 DEF ToSet
  <1>5. ASSUME Once(s), Once(u), ToSet(s) \cap ToSet(u) = {} PROVE Once(v)
    <2> SUFFICES ASSUME NEW i \in 1..(m + n), NEW j \in 1..(m + n), v[i] = v[j] PROVE i = j
      BY <1>1 DEF Once
    <2>1. /\ i <= m => v[i] = s[i] /\ s[i] \in ToSet(s)
          /\ ~ (i <= m) => v[i] = u[i - m] /\ u[i - m] \in ToSet(u)
          /\ j <= m => v[j] = s[j] /\ s[j] \in ToSet(s)
          /\ ~ (j <= m) => v[j] = u[j - m] /\ u[j - m] \in ToSet(u)
      BY <1>1, <1>2 DEF ToSet
    <2>2. CASE i <= m /\ j <= m
      <3>1. i \in 1..m /\ j \in 1..m /\ s[i] = s[j]
        BY <1>2, <2>1, <2>2
      <3> QED BY <1>5, <3>1 DEF Once, m
    <2>3. CASE ~ (i <= m) /\ ~ (j <= m)
      <3>1. i - m \in 1..n /\ j - m \in 1..n /\ u[i - m] = u[j - m]
        BY <1>2, <2>1, <2>3
      <3>2. i - m = j - m
        BY <1>5, <3>1 DEF Once, n
      <3> QED BY <1>1, <3>2
    <2>4. CASE (i <= m) # (j <= m)
      BY <1>5, <2>1, <2>4
    <2> QED BY <2>2, <2>3, <2>4
  <1> QED BY <1>1, <1>4, <1>5 DEF v

\* addRecursive lists the files below a node, each once.
LEMMA DeletesList ==
    ASSUME Given, NEW c \in DOMAIN from
    PROVE  Deletes(c) \in Seq(Listed) /\ ToSet(Deletes(c)) = DeletesBelow(c) /\ Once(Deletes(c))
  <1> DEFINE S == {q \in FilesUnder(from, c) : ~ Skip("from", q)}
             f == InOrder(S)
             d == Deletes(c)
  <1>1. S \in SUBSET Path /\ IsFiniteSet(S) /\ S \subseteq DOMAIN from
    <2>1. S \in SUBSET DOMAIN from /\ IsFiniteSet(DOMAIN from)
      BY TreesAssumption DEF FilesUnder, Given, TreesAssumption
    <2>2. IsFiniteSet(S)
      BY <2>1, FS_Subset
    <2> HIDE DEF S
    <2> QED BY <2>1, <2>2, TreePaths DEF Given
  <1>2. f = Files("from", c)
    BY GivenTrees DEF Files
  <1> HIDE DEF S
  <1>3. /\ f \in Seq(S) /\ Len(f) \in Nat /\ DOMAIN f = 1..Len(f) /\ ToSet(f) = S
        /\ \A i, j \in 1..Len(f) : f[i] = f[j] => i = j
    BY <1>1, InOrderLists
  <1> HIDE DEF f
  <1>4. d = [i \in 1..Len(f) |-> [from |-> f[i], to |-> None]]
    BY <1>2, <1>3 DEF Deletes
  <1> HIDE DEF d
  <1>5. \A i \in 1..Len(f) : f[i] \in S /\ f[i] # None /\ [from |-> f[i], to |-> None] \in Listed
    <2>1. \A i \in 1..Len(f) : f[i] \in S /\ f[i] # None
      BY <1>1, <1>3, TreePaths DEF Given
    <2> QED BY <1>1, <2>1 DEF Listed
  <1>6. d \in Seq(Listed) /\ Len(d) = Len(f) /\ DOMAIN d = 1..Len(f)
    BY <1>3, <1>4, <1>5
  <1>7. ToSet(d) = {[from |-> q, to |-> None] : q \in S}
    <2>1. ToSet(d) = {[from |-> f[i], to |-> None] : i \in 1..Len(f)}
      BY <1>4, <1>6 DEF ToSet
    <2>2. S = {f[i] : i \in 1..Len(f)}
      BY <1>3 DEF ToSet
    <2> QED BY <2>1, <2>2
  <1>8. Once(d)
    <2>1. \A i \in 1..Len(f) : d[i].from = f[i]
      BY <1>4
    <2> QED BY <1>3, <1>6, <2>1 DEF Once
  <1> QED BY <1>6, <1>7, <1>8 DEF d, DeletesBelow, S

LEMMA InsertsList ==
    ASSUME Given, NEW c \in DOMAIN to
    PROVE  Inserts(c) \in Seq(Listed) /\ ToSet(Inserts(c)) = InsertsBelow(c) /\ Once(Inserts(c))
  <1> DEFINE S == {q \in FilesUnder(to, c) : ~ Skip("to", q)}
             f == InOrder(S)
             d == Inserts(c)
  <1>1. S \in SUBSET Path /\ IsFiniteSet(S) /\ S \subseteq DOMAIN to
    <2>1. S \in SUBSET DOMAIN to /\ IsFiniteSet(DOMAIN to)
      BY TreesAssumption DEF FilesUnder, Given, TreesAssumption
    <2>2. IsFiniteSet(S)
      BY <2>1, FS_Subset
    <2> HIDE DEF S
    <2> QED BY <2>1, <2>2, TreePaths DEF Given
  <1>2. f = Files("to", c)
    BY GivenTrees DEF Files
  <1> HIDE DEF S
  <1>3. /\ f \in Seq(S) /\ Len(f) \in Nat /\ DOMAIN f = 1..Len(f) /\ ToSet(f) = S
        /\ \A i, j \in 1..Len(f) : f[i] = f[j] => i = j
    BY <1>1, InOrderLists
  <1> HIDE DEF f
  <1>4. d = [i \in 1..Len(f) |-> [from |-> None, to |-> f[i]]]
    BY <1>2, <1>3 DEF Inserts
  <1> HIDE DEF d
  <1>5. \A i \in 1..Len(f) : f[i] \in S /\ f[i] # None /\ [from |-> None, to |-> f[i]] \in Listed
    <2>1. \A i \in 1..Len(f) : f[i] \in S /\ f[i] # None
      BY <1>1, <1>3, TreePaths DEF Given
    <2> QED BY <1>1, <2>1 DEF Listed
  <1>6. d \in Seq(Listed) /\ Len(d) = Len(f) /\ DOMAIN d = 1..Len(f)
    BY <1>3, <1>4, <1>5
  <1>7. ToSet(d) = {[from |-> None, to |-> q] : q \in S}
    <2>1. ToSet(d) = {[from |-> None, to |-> f[i]] : i \in 1..Len(f)}
      BY <1>4, <1>6 DEF ToSet
    <2>2. S = {f[i] : i \in 1..Len(f)}
      BY <1>3 DEF ToSet
    <2> QED BY <2>1, <2>2
  <1>8. Once(d)
    <2>1. \A i \in 1..Len(f) : d[i].to = f[i]
      BY <1>4
    <2> QED BY <1>3, <1>6, <2>1 DEF Once
  <1> QED BY <1>6, <1>7, <1>8 DEF d, InsertsBelow, S

\* A path of both trees is pending on both sides or on none.
InStep == \A p \in DOMAIN from \cap DOMAIN to : p \in FromNodes <=> p \in ToNodes

\* What holds whatever is skipped.
WalkShape ==
    /\ Given /\ stage \in {"walk", "exact", "content", "done", "canceled"}
    /\ changes \in Seq(Listed)
    /\ it = [from |-> it.from, to |-> it.to]
    /\ stage = "walk" => Stack(from, it.from) /\ Stack(to, it.to)

\* The changes listed are the ones that are not open any more.
Progress ==
    ~ Collides =>
        /\ stage = "walk" =>
             /\ InStep /\ Once(changes)
             /\ ToSet(changes) = {x \in Expected : ~ Open(x, FromNodes, ToNodes)}
        /\ Walked => Once(changes) /\ ToSet(changes) = Expected

WalkInv == WalkShape /\ Progress

LEMMA SameGiven ==
    ASSUME UNCHANGED given
    PROVE  /\ from' = from /\ to' = to /\ index' = index /\ skipped' = skipped /\ opts' = opts
           /\ Given' = Given /\ Listed' = Listed /\ Expected' = Expected /\ Collides' = Collides
  <1>1. from' = from /\ to' = to /\ index' = index /\ skipped' = skipped /\ opts' = opts
    BY DEF given
  <1>2. Given' = Given /\ Listed' = Listed
    BY <1>1 DEF Given, Listed
  <1>3. \A side, p : Skip(side, p)' = Skip(side, p)
    BY <1>1 DEF Skip, FilesUnder, TreeOf
  <1>4. Expected' = Expected
    BY <1>1 DEF Expected, Ignored, IsFile, Skip, FilesUnder, TreeOf
  <1>5. Collides' = Collides
    BY <1>1 DEF Collides, Skip, FilesUnder, TreeOf
  <1> QED BY <1>1, <1>2, <1>4, <1>5

\* One turn of the loop: it settles the changes that are open no more.
LEMMA WalkTurn ==
    ASSUME WalkInv, stage = "walk", UNCHANGED <<given, stage>>,
           NEW list \in Seq(Listed), changes' = changes \o list,
           it' = [from |-> it'.from, to |-> it'.to],
           Stack(from, it'.from), Stack(to, it'.to),
           NEW fs, fs = Pending(from, it'.from), NEW ts, ts = Pending(to, it'.to),
           ~ Collides =>
              /\ \A p \in DOMAIN from \cap DOMAIN to : p \in fs <=> p \in ts
              /\ Once(list)
              /\ \A x \in Expected : Open(x, fs, ts) => Open(x, FromNodes, ToNodes)
              /\ ToSet(list) = {x \in Expected : Open(x, FromNodes, ToNodes) /\ ~ Open(x, fs, ts)}
    PROVE  WalkInv'
  <1>1. /\ from' = from /\ to' = to /\ stage' = "walk"
        /\ Given' = Given /\ Listed' = Listed /\ Expected' = Expected /\ Collides' = Collides
    BY SameGiven
  <1>2. changes \in Seq(Listed) /\ Given
    BY DEF WalkInv, WalkShape
  <1>3. WalkShape'
    <2>1. changes' \in Seq(Listed)
      BY <1>2, JoinLists
    <2>2. Stack(from, it.from)' /\ Stack(to, it.to)'
      BY <1>1 DEF Stack, Placed
    <2> QED BY <1>1, <1>2, <2>1, <2>2 DEF WalkShape
  <1>4. FromNodes' = fs /\ ToNodes' = ts
    BY <1>1 DEF FromNodes, ToNodes, Pending
  <1>5. \A x : Open(x, FromNodes, ToNodes)' <=> Open(x, fs, ts)
    BY <1>1, <1>4 DEF Open, Under
  <1>6. ASSUME ~ Collides
        PROVE  /\ InStep' /\ Once(changes')
               /\ ToSet(changes') = {x \in Expected : ~ Open(x, fs, ts)}
    <2>1. InStep'
      BY <1>1, <1>4, <1>6 DEF InStep
    <2>2. Once(changes) /\ ToSet(changes) = {x \in Expected : ~ Open(x, FromNodes, ToNodes)}
      BY <1>6 DEF WalkInv, Progress
    <2>3. ToSet(changes) \cap ToSet(list) = {}
      BY <1>6, <2>2
    <2>4. Once(changes') /\ ToSet(changes') = ToSet(changes) \cup ToSet(list)
      BY <1>2, <1>6, <2>2, <2>3, JoinLists
    <2> QED BY <1>6, <2>1, <2>2, <2>4
  <1>7. ASSUME ~ Collides
        PROVE  /\ Once(changes)' /\ ToSet(changes)' = {x \in Expected : ~ Open(x, FromNodes, ToNodes)}'
    <2>1. Once(changes)' /\ ToSet(changes)' = {x \in Expected : ~ Open(x, fs, ts)}
      BY <1>6, <1>7 DEF Once, ToSet
    <2> QED BY <1>1, <1>5, <2>1
  <1>8. ~ Walked'
    BY <1>1 DEF Walked
  <1>9. Progress'
    BY <1>1, <1>6, <1>7, <1>8 DEF Progress
  <1> QED BY <1>3, <1>9 DEF WalkInv

\* The iterators during the walk.
LEMMA FromIterator ==
    ASSUME WalkInv, stage = "walk"
    PROVE  /\ cf = None => FromNodes = {}
           /\ cf # None =>
                /\ cf \in FromNodes /\ cf \in DOMAIN from /\ cf \in Path
                /\ \A r \in FromNodes : r # cf => PathLess(cf, r)
                /\ Stack(from, Advance("from", FALSE))
                /\ Pending(from, Advance("from", FALSE)) = FromNodes \ {cf}
                /\ Children(from, cf) # {} =>
                     /\ Stack(from, Advance("from", TRUE))
                     /\ Pending(from, Advance("from", TRUE)) = (FromNodes \ {cf}) \cup Children(from, cf)
  <1>1. from \in Trees /\ Stack(from, it.from) /\ TreeOf("from") = from
    BY DEF WalkInv, WalkShape, Given, TreeOf
  <1>2. cf = None => FromNodes = {}
    BY <1>1, StackTop DEF cf, FromNodes
  <1>3. cf # None => cf \in FromNodes /\ cf \in DOMAIN from /\ cf \in Path
    <2>1. cf # None => cf \in FromNodes
      BY <1>1, StackTop DEF cf, FromNodes
    <2> QED BY <1>1, <2>1, TreePaths DEF FromNodes, Pending
  <1>4. \A r \in FromNodes : r # cf => PathLess(cf, r)
    BY <1>1, PendingOrder DEF cf, FromNodes
  <1>5. cf # None => /\ Stack(from, Advance("from", FALSE))
                     /\ Pending(from, Advance("from", FALSE)) = FromNodes \ {cf}
    BY <1>1, DropStack DEF cf, FromNodes, Advance
  <1>6. cf # None /\ Children(from, cf) # {} =>
          /\ Stack(from, Advance("from", TRUE))
          /\ Pending(from, Advance("from", TRUE)) = (FromNodes \ {cf}) \cup Children(from, cf)
    BY <1>1, PushStack DEF cf, FromNodes, Advance
  <1> QED BY <1>2, <1>3, <1>4, <1>5, <1>6

LEMMA ToIterator ==
    ASSUME WalkInv, stage = "walk"
    PROVE  /\ ct = None => ToNodes = {}
           /\ ct # None =>
                /\ ct \in ToNodes /\ ct \in DOMAIN to /\ ct \in Path
                /\ \A r \in ToNodes : r # ct => PathLess(ct, r)
                /\ Stack(to, Advance("to", FALSE))
                /\ Pending(to, Advance("to", FALSE)) = ToNodes \ {ct}
                /\ Children(to, ct) # {} =>
                     /\ Stack(to, Advance("to", TRUE))
                     /\ Pending(to, Advance("to", TRUE)) = (ToNodes \ {ct}) \cup Children(to, ct)
  <1>1. to \in Trees /\ Stack(to, it.to) /\ TreeOf("to") = to
    BY DEF WalkInv, WalkShape, Given, TreeOf
  <1>2. ct = None => ToNodes = {}
    BY <1>1, StackTop DEF ct, ToNodes
  <1>3. ct # None => ct \in ToNodes /\ ct \in DOMAIN to /\ ct \in Path
    <2>1. ct # None => ct \in ToNodes
      BY <1>1, StackTop DEF ct, ToNodes
    <2> QED BY <1>1, <2>1, TreePaths DEF ToNodes, Pending
  <1>4. \A r \in ToNodes : r # ct => PathLess(ct, r)
    BY <1>1, PendingOrder DEF ct, ToNodes
  <1>5. ct # None => /\ Stack(to, Advance("to", FALSE))
                     /\ Pending(to, Advance("to", FALSE)) = ToNodes \ {ct}
    BY <1>1, DropStack DEF ct, ToNodes, Advance
  <1>6. ct # None /\ Children(to, ct) # {} =>
          /\ Stack(to, Advance("to", TRUE))
          /\ Pending(to, Advance("to", TRUE)) = (ToNodes \ {ct}) \cup Children(to, ct)
    BY <1>1, PushStack DEF ct, ToNodes, Advance
  <1> QED BY <1>2, <1>3, <1>4, <1>5, <1>6

\* What is below a skipped node is skipped.
LEMMA SkippedBelow ==
    ASSUME Given
    PROVE  /\ \A c : Skip("from", c) => DeletesBelow(c) = {}
           /\ \A c : Skip("to", c) => InsertsBelow(c) = {}
  <1>1. from \in Trees /\ to \in Trees /\ TreeOf("from") = from /\ TreeOf("to") = to
    BY DEF Given, TreeOf
  <1>2. ASSUME NEW c, Skip("from", c), NEW q \in FilesUnder(from, c) PROVE Skip("from", q)
    <2>1. q \in DOMAIN from /\ from[q] # Dir /\ q \in skipped /\ index = "from"
      BY <1>1, <1>2 DEF Skip, FilesUnder
    <2>2. FilesUnder(from, q) = {q}
      BY <1>1, <2>1, BelowFile
    <2> QED BY <1>1, <2>1, <2>2 DEF Skip
  <1>3. ASSUME NEW c, Skip("to", c), NEW q \in FilesUnder(to, c) PROVE Skip("to", q)
    <2>1. q \in DOMAIN to /\ to[q] # Dir /\ q \in skipped /\ index = "to"
      BY <1>1, <1>3 DEF Skip, FilesUnder
    <2>2. FilesUnder(to, q) = {q}
      BY <1>1, <2>1, BelowFile
    <2> QED BY <1>1, <2>1, <2>2 DEF Skip
  <1> QED BY <1>2, <1>3 DEF DeletesBelow, InsertsBelow

LEMMA EmptyList == <<>> \in Seq(Listed) /\ ToSet(<<>>) = {} /\ Once(<<>>)
  BY DEF ToSet, Once

\* Only from moves on.
LEMMA TakeFrom ==
    ASSUME WalkInv, stage = "walk", cf # None, NEW list, Add(list), NextFrom,
           list = Deletes(cf) \/ (list = <<>> /\ Skip("from", cf)),
           ~ Collides => cf \notin DOMAIN to
    PROVE  WalkInv'
  <1>1. /\ Given /\ Stack(from, it.from) /\ Stack(to, it.to)
        /\ it = [from |-> it.from, to |-> it.to]
    BY DEF WalkInv, WalkShape
  <1>2. list \in Seq(Listed) /\ ToSet(list) = DeletesBelow(cf) /\ Once(list)
    <2>1. cf \in DOMAIN from
      BY FromIterator
    <2>2. CASE list = Deletes(cf)
      BY <1>1, <2>1, <2>2, DeletesList
    <2>3. CASE list = <<>> /\ Skip("from", cf)
      BY <1>1, <2>3, EmptyList, SkippedBelow
    <2> QED BY <2>2, <2>3
  <1>3. UNCHANGED <<given, stage>> /\ changes' = changes \o list
    BY DEF Add
  <1>4. it'.from = Advance("from", FALSE) /\ it'.to = it.to /\ it' = [from |-> it'.from, to |-> it'.to]
    BY <1>1 DEF NextFrom
  <1> DEFINE fs == FromNodes \ {cf}
  <1>5. /\ Stack(from, it'.from) /\ fs = Pending(from, it'.from)
        /\ Stack(to, it'.to) /\ ToNodes = Pending(to, it'.to) /\ cf \in FromNodes
    BY <1>1, <1>4, FromIterator DEF ToNodes
  <1>6. ASSUME ~ Collides
        PROVE  /\ \A p \in DOMAIN from \cap DOMAIN to : p \in fs <=> p \in ToNodes
               /\ Once(list)
               /\ \A x \in Expected : Open(x, fs, ToNodes) => Open(x, FromNodes, ToNodes)
               /\ ToSet(list) = {x \in Expected : Open(x, FromNodes, ToNodes) /\ ~ Open(x, fs, ToNodes)}
    <2>1. cf \notin DOMAIN to
      BY <1>6
    <2>2. InStep
      BY <1>6 DEF WalkInv, Progress
    <2> QED BY <1>1, <1>2, <1>5, <1>6, <2>1, <2>2, LeaveFrom DEF InStep
  <1> HIDE DEF fs
  <1> QED BY <1>2, <1>3, <1>4, <1>5, <1>6, WalkTurn

\* Only to moves on.
LEMMA TakeTo ==
    ASSUME WalkInv, stage = "walk", ct # None, NEW list, Add(list), NextTo,
           list = Inserts(ct) \/ (list = <<>> /\ Skip("to", ct)),
           ~ Collides => ct \notin DOMAIN from
    PROVE  WalkInv'
  <1>1. /\ Given /\ Stack(from, it.from) /\ Stack(to, it.to)
        /\ it = [from |-> it.from, to |-> it.to]
    BY DEF WalkInv, WalkShape
  <1>2. list \in Seq(Listed) /\ ToSet(list) = InsertsBelow(ct) /\ Once(list)
    <2>1. ct \in DOMAIN to
      BY ToIterator
    <2>2. CASE list = Inserts(ct)
      BY <1>1, <2>1, <2>2, InsertsList
    <2>3. CASE list = <<>> /\ Skip("to", ct)
      BY <1>1, <2>3, EmptyList, SkippedBelow
    <2> QED BY <2>2, <2>3
  <1>3. UNCHANGED <<given, stage>> /\ changes' = changes \o list
    BY DEF Add
  <1>4. it'.to = Advance("to", FALSE) /\ it'.from = it.from /\ it' = [from |-> it'.from, to |-> it'.to]
    BY <1>1 DEF NextTo
  <1> DEFINE ts == ToNodes \ {ct}
  <1>5. /\ Stack(to, it'.to) /\ ts = Pending(to, it'.to)
        /\ Stack(from, it'.from) /\ FromNodes = Pending(from, it'.from) /\ ct \in ToNodes
    BY <1>1, <1>4, ToIterator DEF FromNodes
  <1>6. ASSUME ~ Collides
        PROVE  /\ \A p \in DOMAIN from \cap DOMAIN to : p \in FromNodes <=> p \in ts
               /\ Once(list)
               /\ \A x \in Expected : Open(x, FromNodes, ts) => Open(x, FromNodes, ToNodes)
               /\ ToSet(list) = {x \in Expected : Open(x, FromNodes, ToNodes) /\ ~ Open(x, FromNodes, ts)}
    <2>1. ct \notin DOMAIN from
      BY <1>6
    <2>2. InStep
      BY <1>6 DEF WalkInv, Progress
    <2> QED BY <1>1, <1>2, <1>5, <1>6, <2>1, <2>2, LeaveTo DEF InStep
  <1> HIDE DEF ts
  <1> QED BY <1>2, <1>3, <1>4, <1>5, <1>6, WalkTurn


\* Both move on.
LEMMA TakeBoth ==
    ASSUME WalkInv, stage = "walk", cf # None, ct # None, NEW list \in Seq(Listed), Add(list),
           NextBoth, ~ Collides => cf = ct /\ Once(list) /\ ToSet(list) = ChangesBelow(cf)
    PROVE  WalkInv'
  <1>1. Given /\ Stack(from, it.from) /\ Stack(to, it.to)
    BY DEF WalkInv, WalkShape
  <1>2. UNCHANGED <<given, stage>> /\ changes' = changes \o list
    BY DEF Add
  <1>3. /\ it'.from = Advance("from", FALSE) /\ it'.to = Advance("to", FALSE)
        /\ it' = [from |-> it'.from, to |-> it'.to]
    BY DEF NextBoth
  <1> DEFINE fs == FromNodes \ {cf}  ts == ToNodes \ {ct}
  <1>4. /\ Stack(from, it'.from) /\ fs = Pending(from, it'.from) /\ cf \in FromNodes
        /\ Stack(to, it'.to) /\ ts = Pending(to, it'.to) /\ ct \in ToNodes
    BY <1>3, FromIterator, ToIterator
  <1>5. ASSUME ~ Collides
        PROVE  /\ \A p \in DOMAIN from \cap DOMAIN to : p \in fs <=> p \in ts
               /\ Once(list)
               /\ \A x \in Expected : Open(x, fs, ts) => Open(x, FromNodes, ToNodes)
               /\ ToSet(list) = {x \in Expected : Open(x, FromNodes, ToNodes) /\ ~ Open(x, fs, ts)}
    <2>1. cf = ct /\ cf \in FromNodes \cap ToNodes
      BY <1>4, <1>5
    <2>2. InStep
      BY <1>5 DEF WalkInv, Progress
    <2> QED BY <1>1, <1>5, <2>1, <2>2, LeaveBoth DEF InStep
  <1> HIDE DEF fs, ts
  <1> QED BY <1>2, <1>3, <1>4, <1>5, WalkTurn

\* Both step into a directory with children.
LEMMA DescendBoth ==
    ASSUME WalkInv, stage = "walk", cf # None, cf = ct, Add(<<>>), StepBoth,
           from[cf] = Dir, to[ct] = Dir, Children(from, cf) # {}, Children(to, ct) # {}
    PROVE  WalkInv'
  <1>1. Given /\ Stack(from, it.from) /\ Stack(to, it.to)
    BY DEF WalkInv, WalkShape
  <1>2. UNCHANGED <<given, stage>> /\ changes' = changes \o <<>>
    BY DEF Add
  <1>3. /\ it'.from = Advance("from", TRUE) /\ it'.to = Advance("to", TRUE)
        /\ it' = [from |-> it'.from, to |-> it'.to]
    BY DEF StepBoth
  <1> DEFINE fs == (FromNodes \ {cf}) \cup Children(from, cf)
             ts == (ToNodes \ {cf}) \cup Children(to, cf)
  <1>4. /\ Stack(from, it'.from) /\ fs = Pending(from, it'.from) /\ cf \in FromNodes
        /\ Stack(to, it'.to) /\ ts = Pending(to, it'.to) /\ cf \in ToNodes
    BY <1>3, FromIterator, ToIterator
  <1>5. ASSUME ~ Collides
        PROVE  /\ \A p \in DOMAIN from \cap DOMAIN to : p \in fs <=> p \in ts
               /\ Once(<<>>)
               /\ \A x \in Expected : Open(x, fs, ts) => Open(x, FromNodes, ToNodes)
               /\ ToSet(<<>>) = {x \in Expected : Open(x, FromNodes, ToNodes) /\ ~ Open(x, fs, ts)}
    <2>1. cf \in FromNodes \cap ToNodes
      BY <1>4
    <2>2. InStep
      BY <1>5 DEF WalkInv, Progress
    <2>3. \A p \in DOMAIN from \cap DOMAIN to : p \in fs <=> p \in ts
      BY <2>2 DEF InStep, Children
    <2>4. \A x \in Expected : Open(x, fs, ts) <=> Open(x, FromNodes, ToNodes)
      BY <1>1, <2>1, StepIntoBoth
    <2> HIDE DEF fs, ts
    <2> QED BY <2>3, <2>4, EmptyList
  <1> HIDE DEF fs, ts
  <1> QED BY <1>2, <1>3, <1>4, <1>5, EmptyList, WalkTurn

\* A node before the other iterator's, or without one, is in its tree only.
LEMMA AloneFrom ==
    ASSUME WalkInv, stage = "walk", ~ Collides, cf # None, ct = None \/ PathLess(cf, ct)
    PROVE  cf \notin DOMAIN to
  <1> SUFFICES ASSUME cf \in DOMAIN to PROVE FALSE
    OBVIOUS
  <1>1. cf \in FromNodes /\ cf \in DOMAIN from /\ cf \in Path
    BY FromIterator
  <1>2. cf \in ToNodes
    BY <1>1 DEF WalkInv, Progress, InStep
  <1>3. ct # None /\ ct \in Path /\ (cf # ct => PathLess(ct, cf))
    BY <1>2, ToIterator
  <1>4. ~ PathLess(cf, cf)
    BY <1>1, LessIrreflexive
  <1> QED BY <1>1, <1>3, <1>4, LessTransitive

LEMMA AloneTo ==
    ASSUME WalkInv, stage = "walk", ~ Collides, ct # None, cf = None \/ PathLess(ct, cf)
    PROVE  ct \notin DOMAIN from
  <1> SUFFICES ASSUME ct \in DOMAIN from PROVE FALSE
    OBVIOUS
  <1>1. ct \in ToNodes /\ ct \in DOMAIN to /\ ct \in Path
    BY ToIterator
  <1>2. ct \in FromNodes
    BY <1>1 DEF WalkInv, Progress, InStep
  <1>3. cf # None /\ cf \in Path /\ (ct # cf => PathLess(cf, ct))
    BY <1>2, FromIterator
  <1>4. ~ PathLess(ct, ct)
    BY <1>1, LessIrreflexive
  <1> QED BY <1>1, <1>3, <1>4, LessTransitive

\* A skipped node has no namesake in the other tree.
LEMMA SkippedAlone ==
    ASSUME Given, ~ Collides
    PROVE  /\ \A p \in DOMAIN from, q \in DOMAIN to : Skip("from", p) => Last(p) # Last(q)
           /\ \A p \in DOMAIN to, q \in DOMAIN from : Skip("to", p) => Last(p) # Last(q)
  BY DEF Collides, Given, Skip, TreeOf

LEMMA SkipPreserves == WalkInv /\ (SkipFrom \/ SkipTo) => WalkInv'
  <1> SUFFICES ASSUME WalkInv, SkipFrom \/ SkipTo PROVE WalkInv'
    OBVIOUS
  <1>1. stage = "walk" /\ cf # None /\ ct # None /\ Add(<<>>) /\ Given
    BY DEF SkipFrom, SkipTo, BothHaveNodes, WalkInv, WalkShape
  <1>2. cf \in DOMAIN from /\ ct \in DOMAIN to
    BY <1>1, FromIterator, ToIterator
  <1>3. CASE SkipFrom
    <2>1. Skip("from", cf)
      BY <1>3 DEF SkipFrom
    <2>2. ~ Collides => cf \notin DOMAIN to /\ Last(cf) # Last(ct)
      BY <1>1, <1>2, <2>1, SkippedAlone
    <2>3. CASE Last(cf) = Last(ct)
      <3>1. NextBoth
        BY <1>3, <2>3 DEF SkipFrom
      <3> QED BY <1>1, <2>2, <2>3, <3>1, EmptyList, TakeBoth
    <2>4. CASE Last(cf) # Last(ct)
      <3>1. NextFrom
        BY <1>3, <2>4 DEF SkipFrom
      <3> QED BY <1>1, <2>1, <2>2, <3>1, TakeFrom
    <2> QED BY <2>3, <2>4
  <1>4. CASE SkipTo
    <2>1. Skip("to", ct)
      BY <1>4 DEF SkipTo
    <2>2. ~ Collides => ct \notin DOMAIN from /\ Last(ct) # Last(cf)
      BY <1>1, <1>2, <2>1, SkippedAlone
    <2>3. CASE Last(cf) = Last(ct)
      <3>1. NextBoth
        BY <1>4, <2>3 DEF SkipTo
      <3> QED BY <1>1, <2>2, <2>3, <3>1, EmptyList, TakeBoth
    <2>4. CASE Last(cf) # Last(ct)
      <3>1. NextTo
        BY <1>4, <2>4 DEF SkipTo
      <3> QED BY <1>1, <2>1, <2>2, <3>1, TakeTo
    <2> QED BY <2>3, <2>4
  <1> QED BY <1>3, <1>4

LEMMA OneSidePreserves ==
    WalkInv /\ (OnlyFromRemains \/ OnlyToRemains \/ FromBeforeTo \/ ToBeforeFrom) => WalkInv'
  <1> SUFFICES ASSUME WalkInv, OnlyFromRemains \/ OnlyToRemains \/ FromBeforeTo \/ ToBeforeFrom
               PROVE  WalkInv'
    OBVIOUS
  <1>1. CASE OnlyFromRemains
    <2>1. stage = "walk" /\ cf # None /\ ct = None /\ NextFrom
      BY <1>1 DEF OnlyFromRemains
    <2>2. (Skip("from", cf) /\ Add(<<>>)) \/ Add(Deletes(cf))
      BY <1>1 DEF OnlyFromRemains
    <2>3. ~ Collides => cf \notin DOMAIN to
      BY <2>1, AloneFrom
    <2> QED BY <2>1, <2>2, <2>3, TakeFrom
  <1>2. CASE OnlyToRemains
    <2>1. stage = "walk" /\ ct # None /\ cf = None /\ NextTo
      BY <1>2 DEF OnlyToRemains
    <2>2. (Skip("to", ct) /\ Add(<<>>)) \/ Add(Inserts(ct))
      BY <1>2 DEF OnlyToRemains
    <2>3. ~ Collides => ct \notin DOMAIN from
      BY <2>1, AloneTo
    <2> QED BY <2>1, <2>2, <2>3, TakeTo
  <1>3. CASE FromBeforeTo
    <2>1. stage = "walk" /\ cf # None /\ PathLess(cf, ct) /\ NextFrom /\ Add(Deletes(cf))
      BY <1>3 DEF FromBeforeTo, Compared, BothHaveNodes
    <2>2. ~ Collides => cf \notin DOMAIN to
      BY <2>1, AloneFrom
    <2> QED BY <2>1, <2>2, TakeFrom
  <1>4. CASE ToBeforeFrom
    <2>1. stage = "walk" /\ ct # None /\ PathLess(ct, cf) /\ NextTo /\ Add(Inserts(ct))
      BY <1>4 DEF ToBeforeFrom, Compared, BothHaveNodes
    <2>2. ~ Collides => ct \notin DOMAIN from
      BY <2>1, AloneTo
    <2> QED BY <2>1, <2>2, TakeTo
  <1> QED BY <1>1, <1>2, <1>3, <1>4

\* A directory without children has no files.
LEMMA NoChildrenNoFiles ==
    ASSUME NEW t \in Trees, NEW c \in DOMAIN t, t[c] = Dir, Children(t, c) = {}
    PROVE  FilesUnder(t, c) = {}
  <1> SUFFICES ASSUME NEW q \in DOMAIN t, IsPrefixOf(c, q), t[q] # Dir PROVE FALSE
    BY DEF FilesUnder
  <1>1. c \in Path /\ q # c
    BY TreePaths
  <1> QED BY <1>1, PrefixChild

LEMMA SameNamePreserves == WalkInv /\ DiffNodesSameName => WalkInv'
  <1> SUFFICES ASSUME WalkInv, DiffNodesSameName PROVE WalkInv'
    OBVIOUS
  <1>1. stage = "walk" /\ cf # None /\ ct # None /\ cf = ct /\ Given
    BY DEF DiffNodesSameName, Compared, BothHaveNodes, WalkInv, WalkShape
  <1>2. /\ cf \in DOMAIN from \cap DOMAIN to /\ from \in Trees /\ to \in Trees
        /\ cf \in DOMAIN from /\ cf \in DOMAIN to
    BY <1>1, FromIterator, ToIterator DEF Given
  <1>3. CASE SameHash(cf)
    <2>1. Add(<<>>) /\ NextBoth
      BY <1>3 DEF DiffNodesSameName
    <2>2. ChangesBelow(cf) = {}
      BY <1>1, <1>2, <1>3, NothingBelow
    <2> QED BY <1>1, <2>1, <2>2, EmptyList, TakeBoth
  <1>4. CASE ~ SameHash(cf) /\ from[cf] # Dir /\ to[ct] # Dir
    <2>1. Add(Modify(cf)) /\ NextBoth
      BY <1>4 DEF DiffNodesSameName
    <2>2. from[cf] # to[cf]
      BY <1>1, <1>4 DEF SameHash
    <2>3. ~ Collides => ChangesBelow(cf) = {[from |-> cf, to |-> cf]}
      BY <1>1, <1>2, <1>4, <2>2, ModifiedBelow
    <2>4. Modify(cf) \in Seq(Listed) /\ Once(Modify(cf)) /\ ToSet(Modify(cf)) = {[from |-> cf, to |-> cf]}
      <3>1. [from |-> cf, to |-> cf] \in Listed
        BY <1>1, <1>2 DEF Listed
      <3> QED BY <3>1 DEF Modify, Once, ToSet
    <2> QED BY <1>1, <2>1, <2>3, <2>4, TakeBoth
  <1> DEFINE rest == ~ SameHash(cf) /\ ~ (from[cf] # Dir /\ to[ct] # Dir)
             ds == Deletes(cf)  ins == Inserts(ct)
  <1>5. /\ ds \in Seq(Listed) /\ ToSet(ds) = DeletesBelow(cf) /\ Once(ds)
        /\ ins \in Seq(Listed) /\ ToSet(ins) = InsertsBelow(cf) /\ Once(ins)
    BY <1>1, <1>2, DeletesList, InsertsList
  <1>6. CASE rest /\ (from[cf] = Dir) # (to[ct] = Dir)
    <2>1. Add(ds \o ins) /\ NextBoth
      BY <1>6 DEF DiffNodesSameName
    <2>2. FilesUnder(from, cf) \cap FilesUnder(to, cf) = {}
      <3>1. CASE from[cf] # Dir
        <4>1. FilesUnder(from, cf) = {cf} /\ to[cf] = Dir
          BY <1>1, <1>2, <1>6, <3>1, BelowFile
        <4> QED BY <4>1 DEF FilesUnder
      <3>2. CASE to[cf] # Dir
        <4>1. FilesUnder(to, cf) = {cf} /\ from[cf] = Dir
          BY <1>1, <1>2, <1>6, <3>2, BelowFile
        <4> QED BY <4>1 DEF FilesUnder
      <3> QED BY <1>1, <1>6, <3>1, <3>2
    <2>3. ~ Collides => ChangesBelow(cf) = DeletesBelow(cf) \cup InsertsBelow(cf)
      BY <1>1, <1>2, <2>2, ReplacedBelow
    <2>4. ToSet(ds) \cap ToSet(ins) = {}
      <3>1. \A x \in DeletesBelow(cf) : x.to = None
        BY DEF DeletesBelow
      <3>2. \A x \in InsertsBelow(cf) : x.to \in DOMAIN to
        BY DEF InsertsBelow, FilesUnder
      <3> QED BY <1>1, <1>5, <3>1, <3>2, NoneIsNoNode DEF NoneNotIn
    <2>5. ds \o ins \in Seq(Listed) /\ Once(ds \o ins) /\ ToSet(ds \o ins) = DeletesBelow(cf) \cup InsertsBelow(cf)
      <3> HIDE DEF ds, ins
      <3> QED BY <1>5, <2>4, JoinLists
    <2> QED BY <1>1, <2>1, <2>3, <2>5, TakeBoth
  <1>7. CASE rest /\ from[cf] = Dir /\ to[ct] = Dir /\ Children(from, cf) = {}
    <2>1. Add(ins) /\ NextBoth
      BY <1>7 DEF DiffNodesSameName
    <2>2. FilesUnder(from, cf) = {}
      BY <1>2, <1>7, NoChildrenNoFiles
    <2>3. DeletesBelow(cf) = {}
      BY <2>2 DEF DeletesBelow
    <2>4. ~ Collides => ChangesBelow(cf) = InsertsBelow(cf)
      BY <1>1, <1>2, <2>2, <2>3, ReplacedBelow
    <2> QED BY <1>1, <1>5, <2>1, <2>4, TakeBoth
  <1>8. CASE rest /\ from[cf] = Dir /\ to[ct] = Dir /\ Children(from, cf) # {} /\ Children(to, ct) = {}
    <2>1. Add(ds) /\ NextBoth
      BY <1>8 DEF DiffNodesSameName
    <2>2. FilesUnder(to, cf) = {}
      BY <1>1, <1>2, <1>8, NoChildrenNoFiles
    <2>3. InsertsBelow(cf) = {}
      BY <2>2 DEF InsertsBelow
    <2>4. ~ Collides => ChangesBelow(cf) = DeletesBelow(cf)
      BY <1>1, <1>2, <2>2, <2>3, ReplacedBelow
    <2> QED BY <1>1, <1>5, <2>1, <2>4, TakeBoth
  <1>9. CASE rest /\ from[cf] = Dir /\ to[ct] = Dir /\ Children(from, cf) # {} /\ Children(to, ct) # {}
    <2>1. Add(<<>>) /\ StepBoth
      BY <1>9 DEF DiffNodesSameName
    <2> QED BY <1>1, <1>9, <2>1, DescendBoth
  <1> QED BY <1>3, <1>4, <1>6, <1>7, <1>8, <1>9

\* What comes after the walk changes neither the trees nor the changes.
LEMMA AfterWalk ==
    ASSUME WalkInv, UNCHANGED <<given, it, changes>>,
           stage' \in {"exact", "content", "done", "canceled"},
           Walked' => Walked \/ (stage = "walk" /\ cf = None /\ ct = None)
    PROVE  WalkInv'
  <1>1. /\ Given' = Given /\ Listed' = Listed /\ Expected' = Expected /\ Collides' = Collides
        /\ it' = it /\ changes' = changes
    BY SameGiven
  <1>2. WalkShape'
    BY <1>1 DEF WalkInv, WalkShape
  <1>3. ASSUME ~ Collides, Walked' PROVE Once(changes) /\ ToSet(changes) = Expected
    <2>1. CASE Walked
      BY <1>3, <2>1 DEF WalkInv, Progress
    <2>2. CASE stage = "walk" /\ cf = None /\ ct = None
      <3>1. FromNodes = {} /\ ToNodes = {}
        BY <2>2, FromIterator, ToIterator
      <3>2. \A x : ~ Open(x, FromNodes, ToNodes)
        BY <3>1 DEF Open, Under
      <3> QED BY <1>3, <2>2, <3>2 DEF WalkInv, Progress
    <2> QED BY <1>3, <2>1, <2>2
  <1>4. ASSUME ~ Collides, Walked' PROVE Once(changes)' /\ ToSet(changes)' = Expected
    BY <1>1, <1>3, <1>4 DEF Once, ToSet
  <1>5. Progress'
    BY <1>1, <1>4 DEF Progress
  <1> QED BY <1>2, <1>5 DEF WalkInv

LEMMA DiffWalkInit == DiffInit => WalkInv
  <1> SUFFICES ASSUME DiffInit PROVE WalkInv
    OBVIOUS
  <1>1. Given
    BY DEF DiffInit, Given
  <1>2. /\ stage = "walk" /\ changes = <<>>
        /\ it = [from |-> <<Frame(from, None)>>, to |-> <<Frame(to, None)>>]
    BY DEF DiffInit
  <1>3. /\ it.from = <<Frame(from, None)>> /\ it.to = <<Frame(to, None)>>
        /\ it = [from |-> it.from, to |-> it.to]
    BY <1>2
  <1>4. /\ Stack(from, it.from) /\ FromNodes = Children(from, None)
        /\ Stack(to, it.to) /\ ToNodes = Children(to, None)
    BY <1>1, <1>3, RootStack DEF Given, FromNodes, ToNodes
  <1>5. WalkShape
    BY <1>1, <1>2, <1>3, <1>4, EmptyList DEF WalkShape
  <1>6. ASSUME NEW t \in Trees, NEW q \in DOMAIN t PROVE q \in Under(t, Children(t, None))
    <2>1. None \in Path /\ q \in Path /\ Len(None) = 0 /\ q # None
      BY TreePaths DEF None, Path
    <2>2. IsPrefixOf(None, q)
      BY <2>1, PrefixNames
    <2> QED BY <2>1, <2>2, PrefixChild DEF Under
  <1>7. \A x \in Expected : Open(x, FromNodes, ToNodes)
    <2> SUFFICES ASSUME NEW x \in Expected PROVE Open(x, FromNodes, ToNodes)
      OBVIOUS
    <2>1. x.from \in DOMAIN from \/ x.to \in DOMAIN to
      BY <1>1, ExpectedPaths
    <2> QED BY <1>1, <1>4, <1>6, <2>1 DEF Open, Given
  <1>8. InStep
    BY <1>4 DEF InStep, Children
  <1>9. Once(changes) /\ ToSet(changes) = {}
    BY <1>2, EmptyList
  <1>10. Progress
    BY <1>2, <1>7, <1>8, <1>9 DEF Progress, Walked
  <1> QED BY <1>5, <1>10 DEF WalkInv

LEMMA WalkStep == WalkInv /\ [DiffNext]_diffVars => WalkInv'
  <1> SUFFICES ASSUME WalkInv, [DiffNext]_diffVars PROVE WalkInv'
    OBVIOUS
  <1>1. stage \in {"walk", "exact", "content", "done", "canceled"}
    BY DEF WalkInv, WalkShape
  <1>2. CASE OnlyFromRemains \/ OnlyToRemains \/ FromBeforeTo \/ ToBeforeFrom
    BY <1>2, OneSidePreserves
  <1>3. CASE SkipFrom \/ SkipTo
    BY <1>3, SkipPreserves
  <1>4. CASE DiffNodesSameName
    BY <1>4, SameNamePreserves
  <1>5. CASE Cancel
    BY <1>5, AfterWalk DEF Cancel, Walked
  <1>6. CASE NoMoreNoders
    BY <1>6, AfterWalk DEF NoMoreNoders, Walked
  <1>7. CASE \E h \in hashes : DetectExactRenames(h)
    BY <1>7, AfterWalk DEF DetectExactRenames, Walked
  <1>8. CASE ExactRenamesDone
    BY <1>8, AfterWalk DEF ExactRenamesDone, Walked
  <1>9. CASE \E x \in deleted \X added : DetectContentRename(x)
    BY <1>9, AfterWalk DEF DetectContentRename, Walked
  <1>10. CASE ContentRenamesDone
    BY <1>10, AfterWalk DEF ContentRenamesDone, Walked
  <1>11. CASE UNCHANGED diffVars
    <2>1. UNCHANGED <<given, it, changes>> /\ stage' = stage
      BY <1>11 DEF diffVars
    <2>2. CASE stage = "walk"
      <3>1. /\ from' = from /\ to' = to /\ it' = it /\ changes' = changes
            /\ Given' = Given /\ Listed' = Listed /\ Expected' = Expected /\ Collides' = Collides
        BY <2>1, SameGiven
      <3>2. WalkShape'
        BY <2>1, <3>1 DEF WalkInv, WalkShape, Stack, Placed
      <3>3. Progress'
        <4>1. FromNodes' = FromNodes /\ ToNodes' = ToNodes
          BY <3>1 DEF FromNodes, ToNodes, Pending
        <4>2. \A x : Open(x, FromNodes, ToNodes)' <=> Open(x, FromNodes, ToNodes)
          BY <3>1, <4>1 DEF Open, Under
        <4>3. ~ Collides =>
                 /\ InStep' /\ Once(changes)'
                 /\ ToSet(changes)' = {x \in Expected : ~ Open(x, FromNodes, ToNodes)}'
          BY <2>2, <3>1, <4>1, <4>2 DEF WalkInv, Progress, InStep, Once, ToSet
        <4> QED BY <2>1, <2>2, <3>1, <4>3 DEF Progress, Walked
      <3> QED BY <3>2, <3>3 DEF WalkInv
    <2>3. CASE stage # "walk"
      BY <1>1, <2>1, <2>3, AfterWalk DEF Walked
    <2> QED BY <2>2, <2>3
  <1> QED BY <1>2, <1>3, <1>4, <1>5, <1>6, <1>7, <1>8, <1>9, <1>10, <1>11
       DEF DiffNext, DiffReturned

\* A list without repetitions is as long as the set of what it lists.
LEMMA OnceCounts ==
    ASSUME NEW S, NEW s \in Seq(S), Once(s)
    PROVE  IsFiniteSet(ToSet(s)) /\ Cardinality(ToSet(s)) = Len(s)
  <1>1. Len(s) \in Nat /\ DOMAIN s = 1..Len(s)
    OBVIOUS
  <1>2. s \in [1..Len(s) -> ToSet(s)] /\ \A x \in ToSet(s) : \E i \in 1..Len(s) : s[i] = x
    BY <1>1 DEF ToSet
  <1>3. s \in Bijection(1..Len(s), ToSet(s))
    BY <1>2 DEF Bijection, Injection, Surjection, IsInjective, Once
  <1>4. IsFiniteSet(1..Len(s)) /\ Cardinality(1..Len(s)) = Len(s)
    BY <1>1, FS_Interval
  <1> QED BY <1>3, <1>4, FS_Bijection DEF ExistsBijection

(***************************************************************************)
(* DiffTree lists every file that was inserted, deleted or modified, and   *)
(* nothing else, each once, for every pair of trees: the two iterators     *)
(* (merkletrie difftree.go) never lose step at a path both trees have, so  *)
(* each turn of the loop settles exactly the changes that neither of them  *)
(* can still come to.                                                      *)
(***************************************************************************)
THEOREM DiffExact == DiffSpec => []DiffIsExact
  <1>1. WalkInv => DiffIsExact
    <2> SUFFICES ASSUME WalkInv, Walked, ~ Collides
                 PROVE  ToSet(changes) = Expected /\ Len(changes) = Cardinality(Expected)
      BY DEF DiffIsExact
    <2>1. Once(changes) /\ ToSet(changes) = Expected /\ changes \in Seq(Listed)
      BY DEF WalkInv, Progress, WalkShape
    <2>2. Cardinality(ToSet(changes)) = Len(changes)
      BY <2>1, OnceCounts
    <2> QED BY <2>1, <2>2
  <1> QED BY <1>1, DiffWalkInit, WalkStep, PTL DEF DiffSpec

-----------------------------------------------------------------------------
(***************************************************************************)
(* Renames.  The greedy matching is defined by a recursive function.  The  *)
(* function exists because the pairs of a finite set have one matching     *)
(* that takes a pair exactly when no better pair taken shares a file with  *)
(* it, and this matching solves the equation of the function.              *)
(***************************************************************************)
\* A finite set with a strict total order has a least element.
LEMMA LeastElement ==
    ASSUME NEW S, IsFiniteSet(S), S # {}, NEW R, StrictOrder(S, R)
    PROVE  \E x \in S : \A y \in S : y = x \/ <<x, y>> \in R
  <1> DEFINE down(x) == {y \in S : <<y, x>> \in R}
             D == {down(x) : x \in S}
  <1>1. D \subseteq FiniteSubsetsOf(S) /\ D # {}
    <2>1. \A x \in S : down(x) \in SUBSET S
      OBVIOUS
    <2>2. \A x \in S : IsFiniteSet(down(x))
      <3> HIDE DEF down
      <3> QED BY <2>1, FS_Subset
    <2>3. D # {}
      OBVIOUS
    <2>4. \A x \in S : down(x) \in FiniteSubsetsOf(S)
      <3> HIDE DEF down
      <3> QED BY <2>1, <2>2 DEF FiniteSubsetsOf
    <2> HIDE DEF down
    <2> QED BY <2>3, <2>4
  <1>2. PICK b \in D : \A d \in D : ~ (<<d, b>> \in StrictSubsetOrdering(S))
    <2> HIDE DEF D
    <2> QED BY <1>1, WFMin, FS_StrictSubsetOrderingWellFounded
  <1>3. PICK x \in S : b = down(x)
    OBVIOUS
  <1>4. ASSUME NEW y \in S, y # x PROVE <<x, y>> \in R
    <2> SUFFICES ASSUME <<y, x>> \in R PROVE FALSE
      BY <1>4 DEF StrictOrder
    <2>1. down(y) \subseteq down(x) /\ y \in down(x) /\ y \notin down(y)
      BY DEF StrictOrder
    <2>2. <<down(y), down(x)>> \in StrictSubsetOrdering(S)
      BY <2>1 DEF StrictSubsetOrdering
    <2> QED BY <1>2, <1>3, <2>2
  <1> QED BY <1>4

\* The paths of all trees, and pairs of them.
AnyPath == UNION {DOMAIN t : t \in Trees}

LEMMA AllPaths == \A p \in AnyPath : p \in Path /\ p # None
  BY TreePaths DEF AnyPath

\* The order in which the greedy matching takes the pairs.
Later(x, y) ==
    \/ NameScore(x[2], x[1]) > NameScore(y[2], y[1])
    \/ /\ NameScore(x[2], x[1]) = NameScore(y[2], y[1])
       /\ PathLess(y[2], x[2]) \/ (x[2] = y[2] /\ PathLess(y[1], x[1]))

LEMMA LaterOrder ==
    /\ \A x \in AnyPath \X AnyPath : ~ Later(x, x)
    /\ \A x, y, z \in AnyPath \X AnyPath : Later(x, y) /\ Later(y, z) => Later(x, z)
    /\ \A x, y \in AnyPath \X AnyPath : x = y \/ Later(x, y) \/ Later(y, x)
  <1> DEFINE score(x) == NameScore(x[2], x[1])
  <1>1. \A x \in AnyPath \X AnyPath : score(x) \in Nat /\ x[1] \in Path /\ x[2] \in Path
    BY AllPaths, ScoreAssumption DEF AnyPath, ScoreAssumption
  <1>2. \A x, y : Later(x, y) <=> \/ score(x) > score(y)
                                 \/ /\ score(x) = score(y)
                                    /\ PathLess(y[2], x[2]) \/ (x[2] = y[2] /\ PathLess(y[1], x[1]))
    BY DEF Later
  <1> HIDE DEF score
  <1>3. \A x \in AnyPath \X AnyPath : ~ Later(x, x)
    BY <1>1, <1>2, LessIrreflexive
  <1>4. ASSUME NEW x \in AnyPath \X AnyPath, NEW y \in AnyPath \X AnyPath, NEW z \in AnyPath \X AnyPath,
               Later(x, y), Later(y, z)
        PROVE  Later(x, z)
    <2>1. PathLess(z[2], y[2]) /\ PathLess(y[2], x[2]) => PathLess(z[2], x[2])
      BY <1>1, LessTransitive
    <2>2. PathLess(z[1], y[1]) /\ PathLess(y[1], x[1]) => PathLess(z[1], x[1])
      BY <1>1, LessTransitive
    <2>3. score(x) \in Nat /\ score(y) \in Nat /\ score(z) \in Nat
      BY <1>1
    <2>4. CASE score(x) > score(y) \/ score(y) > score(z)
      <3>1. score(x) > score(z)
        BY <1>2, <1>4, <2>3, <2>4
      <3> QED BY <1>2, <3>1
    <2>5. CASE ~ (score(x) > score(y)) /\ ~ (score(y) > score(z))
      BY <1>2, <1>4, <2>1, <2>2, <2>5
    <2> QED BY <2>4, <2>5
  <1>5. ASSUME NEW x \in AnyPath \X AnyPath, NEW y \in AnyPath \X AnyPath, x # y
        PROVE  Later(x, y) \/ Later(y, x)
    <2>1. score(x) \in Nat /\ score(y) \in Nat /\ (x[1] # y[1] \/ x[2] # y[2])
      BY <1>1, <1>5
    <2>2. /\ x[1] # y[1] => PathLess(x[1], y[1]) \/ PathLess(y[1], x[1])
          /\ x[2] # y[2] => PathLess(x[2], y[2]) \/ PathLess(y[2], x[2])
      BY <1>1, LessTotal
    <2>3. CASE score(x) = score(y)
      BY <1>2, <2>1, <2>2, <2>3
    <2>4. CASE score(x) # score(y)
      <3>1. score(x) > score(y) \/ score(y) > score(x)
        BY <2>1, <2>4
      <3> QED BY <1>2, <3>1
    <2> QED BY <2>3, <2>4
  <1> QED BY <1>3, <1>4, <1>5

\* The pair that the matching takes first, and what it leaves.
Best(S) == CHOOSE x \in S : \A y \in S \ {x} : Later(x, y)
Rest(S) == {y \in S : y[1] # Best(S)[1] /\ y[2] # Best(S)[2]}

LEMMA BestOf ==
    ASSUME NEW S \in SUBSET (AnyPath \X AnyPath), IsFiniteSet(S), S # {}
    PROVE  /\ Best(S) \in S /\ \A y \in S : (y = Best(S) \/ Later(Best(S), y)) /\ ~ Later(y, Best(S))
           /\ Rest(S) \in SUBSET S /\ Best(S) \notin Rest(S)
  <1> DEFINE R == {z \in S \X S : Later(z[1], z[2])}
  <1>1. \A x, y \in S : <<x, y>> \in R <=> Later(x, y)
    OBVIOUS
  <1>2. StrictOrder(S, R)
    <2> HIDE DEF R
    <2>1. \A x \in S : x \in AnyPath \X AnyPath
      OBVIOUS
    <2> QED BY <1>1, <2>1, LaterOrder DEF StrictOrder
  <1>3. PICK x \in S : \A y \in S : y = x \/ <<x, y>> \in R
    <2> HIDE DEF R
    <2> QED BY <1>2, LeastElement
  <1>4. \A y \in S \ {x} : Later(x, y)
    BY <1>1, <1>3
  <1>5. Best(S) \in S /\ \A y \in S \ {Best(S)} : Later(Best(S), y)
    <2> HIDE DEF R
    <2> QED BY <1>4 DEF Best
  <1>6. \A y \in S : ~ Later(y, Best(S))
    <2> SUFFICES ASSUME NEW y \in S, Later(y, Best(S)) PROVE FALSE
      OBVIOUS
    <2>1. y \in AnyPath \X AnyPath /\ Best(S) \in AnyPath \X AnyPath
      BY <1>5
    <2>2. y = Best(S) \/ Later(Best(S), y)
      BY <1>5
    <2>3. Later(y, y)
      BY <2>1, <2>2, LaterOrder
    <2> QED BY <2>1, <2>3, LaterOrder
  <1> QED BY <1>5, <1>6 DEF Rest

\* The matching of a set of pairs.
Shares(x, y) == x[1] = y[1] \/ x[2] = y[2]

Matching(T, S) ==
    /\ T \in SUBSET S
    /\ \A x \in S : x \in T <=> \A y \in T : Later(y, x) => ~ Shares(x, y)

LEMMA MatchingGrows ==
    ASSUME NEW S \in SUBSET (AnyPath \X AnyPath), IsFiniteSet(S), S # {},
           NEW T, Matching(T, Rest(S))
    PROVE  Matching({Best(S)} \cup T, S)
  <1> DEFINE b == Best(S)  U == {b} \cup T
  <1>1. /\ b \in S /\ \A y \in S : (y = b \/ Later(b, y)) /\ ~ Later(y, b)
        /\ T \in SUBSET S /\ T \in SUBSET Rest(S)
    BY BestOf DEF Matching
  <1>2. \A y \in S : y \in Rest(S) <=> ~ Shares(y, b)
    BY DEF Rest, Shares
  <1>3. \A x \in Rest(S) : x \in T <=> \A y \in T : Later(y, x) => ~ Shares(x, y)
    BY DEF Matching
  <1> HIDE DEF b
  <1>4. ASSUME NEW x \in S PROVE x \in U <=> \A y \in U : Later(y, x) => ~ Shares(x, y)
    <2>1. CASE x = b
      BY <1>1, <2>1
    <2>2. CASE x # b /\ x \in Rest(S)
      BY <1>1, <1>2, <1>3, <2>2
    <2>3. CASE x # b /\ x \notin Rest(S)
      BY <1>1, <1>2, <2>3
    <2> QED BY <2>1, <2>2, <2>3
  <1> QED BY <1>1, <1>4 DEF Matching, b

LEMMA MatchingExists ==
    ASSUME NEW m \in SUBSET (AnyPath \X AnyPath), IsFiniteSet(m)
    PROVE  \A S \in SUBSET m : \E T : Matching(T, S)
  <1> DEFINE Bad == {S \in SUBSET m : ~ \E T : Matching(T, S)}
  <1> SUFFICES ASSUME Bad # {} PROVE FALSE
    OBVIOUS
  <1>1. \A S \in SUBSET m : IsFiniteSet(S) /\ S \in SUBSET (AnyPath \X AnyPath)
    BY FS_Subset
  <1>2. Bad \subseteq FiniteSubsetsOf(m)
    BY <1>1 DEF FiniteSubsetsOf
  <1>3. PICK S \in Bad : \A d \in Bad : ~ (<<d, S>> \in StrictSubsetOrdering(m))
    <2> HIDE DEF Bad
    <2> QED BY <1>2, WFMin, FS_StrictSubsetOrderingWellFounded
  <1>4. S # {}
    <2>1. Matching({}, {})
      BY DEF Matching
    <2> QED BY <1>3, <2>1
  <1>5. Rest(S) \in SUBSET S /\ Rest(S) # S /\ Rest(S) \in SUBSET m /\ S \in SUBSET m
    BY <1>1, <1>3, <1>4, BestOf
  <1>6. <<Rest(S), S>> \in StrictSubsetOrdering(m)
    BY <1>5 DEF StrictSubsetOrdering
  <1>7. PICK T : Matching(T, Rest(S))
    BY <1>3, <1>5, <1>6
  <1>8. Matching({Best(S)} \cup T, S)
    BY <1>1, <1>4, <1>5, <1>7, MatchingGrows
  <1> QED BY <1>3, <1>8

LEMMA MatchingUnique ==
    ASSUME NEW S \in SUBSET (AnyPath \X AnyPath), IsFiniteSet(S),
           NEW T, NEW U, Matching(T, S), Matching(U, S)
    PROVE  T = U
  <1> DEFINE D == {x \in S : x \in T <=> x \notin U}
  <1>1. T \in SUBSET S /\ U \in SUBSET S
    BY DEF Matching
  <1> SUFFICES ASSUME D # {} PROVE FALSE
    BY <1>1
  <1>2. D \in SUBSET (AnyPath \X AnyPath) /\ IsFiniteSet(D)
    <2>1. D \in SUBSET S
      OBVIOUS
    <2> HIDE DEF D
    <2> QED BY <2>1, FS_Subset
  <1> DEFINE b == Best(D)
  <1>3. b \in D /\ \A y \in D : ~ Later(y, b)
    <2> HIDE DEF D
    <2> QED BY <1>2, BestOf
  <1> HIDE DEF b
  <1>4. \A y \in S : Later(y, b) => (y \in T <=> y \in U)
    BY <1>3
  <1> QED BY <1>1, <1>3, <1>4 DEF Matching

\* The equation of the recursive function of Matched.
MatchStep(f, m) ==
    [S \in SUBSET m |->
        IF S = {} THEN {}
        ELSE LET x == CHOOSE x \in S : \A y \in S \ {x} : Later(x, y)
             IN {x} \cup f[{y \in S : y[1] # x[1] /\ y[2] # x[2]}]]

LEMMA MatchStepValue ==
    ASSUME NEW m, NEW f, NEW S \in SUBSET m
    PROVE  /\ S = {} => MatchStep(f, m)[S] = {}
           /\ S # {} => MatchStep(f, m)[S] = {Best(S)} \cup f[Rest(S)]
  BY Zenon DEF MatchStep, Best, Rest

LEMMA MatchingSolves ==
    ASSUME NEW m \in SUBSET (AnyPath \X AnyPath), IsFiniteSet(m)
    PROVE  \E f : f = MatchStep(f, m)
  <1> DEFINE f == [S \in SUBSET m |-> CHOOSE T : Matching(T, S)]
  <1>1. \A S \in SUBSET m : IsFiniteSet(S) /\ S \in SUBSET (AnyPath \X AnyPath)
    BY FS_Subset
  <1>2. \A S \in SUBSET m : Matching(f[S], S)
    BY MatchingExists
  <1>3. DOMAIN f = SUBSET m /\ f = [S \in SUBSET m |-> f[S]]
    OBVIOUS
  <1> HIDE DEF f
  <1>4. ASSUME NEW S \in SUBSET m PROVE f[S] = MatchStep(f, m)[S]
    <2>1. CASE S = {}
      <3>1. f[S] = {}
        BY <1>2, <2>1 DEF Matching
      <3> QED BY <2>1, <3>1, MatchStepValue
    <2>2. CASE S # {}
      <3>1. Rest(S) \in SUBSET m
        BY <1>1, <2>2, BestOf
      <3>2. Matching({Best(S)} \cup f[Rest(S)], S)
        BY <1>1, <1>2, <2>2, <3>1, MatchingGrows
      <3>3. f[S] = {Best(S)} \cup f[Rest(S)]
        BY <1>1, <1>2, <3>2, MatchingUnique
      <3>4. MatchStep(f, m)[S] = {Best(S)} \cup f[Rest(S)]
        BY <2>2, MatchStepValue
      <3> QED BY <3>3, <3>4
    <2> QED BY <2>1, <2>2
  <1>5. MatchStep(f, m) = [S \in SUBSET m |-> MatchStep(f, m)[S]]
    BY DEF MatchStep
  <1>6. f = MatchStep(f, m)
    BY <1>3, <1>4, <1>5
  <1> QED BY <1>6

\* No two pairs have a path in common.
OneToOne(m) == \A x, y \in m : x[1] = y[1] \/ x[2] = y[2] => x = y

\* The greedy matching of the code.
LEMMA MatchedPairs ==
    ASSUME NEW m \in SUBSET (AnyPath \X AnyPath), IsFiniteSet(m)
    PROVE  Matched(m) \in SUBSET m /\ OneToOne(Matched(m))
  <1> DEFINE M == CHOOSE f : f = MatchStep(f, m)
  <1>1. Matched(m) = M[m]
    BY Zenon DEF Matched, MatchStep, Later
  <1>2. M = MatchStep(M, m)
    BY MatchingSolves
  <1> HIDE DEF M
  <1>3. ASSUME NEW S \in SUBSET m
        PROVE  (S = {} => M[S] = {}) /\ (S # {} => M[S] = {Best(S)} \cup M[Rest(S)])
    <2>1. /\ S = {} => MatchStep(M, m)[S] = {}
          /\ S # {} => MatchStep(M, m)[S] = {Best(S)} \cup M[Rest(S)]
      BY MatchStepValue
    <2>2. MatchStep(M, m)[S] = M[S]
      BY <1>2
    <2> QED BY <2>1, <2>2
  <1>4. \A S \in SUBSET m : IsFiniteSet(S) /\ S \in SUBSET (AnyPath \X AnyPath)
    BY FS_Subset
  <1> DEFINE Bad == {S \in SUBSET m : ~ (M[S] \in SUBSET S /\ OneToOne(M[S]))}
  <1>5. Bad = {}
    <2> SUFFICES ASSUME Bad # {} PROVE FALSE
      OBVIOUS
    <2>1. Bad \subseteq FiniteSubsetsOf(m)
      BY <1>4 DEF FiniteSubsetsOf
    <2>2. PICK S \in Bad : \A d \in Bad : ~ (<<d, S>> \in StrictSubsetOrdering(m))
      <3> HIDE DEF Bad
      <3> QED BY <2>1, WFMin, FS_StrictSubsetOrderingWellFounded
    <2>3. S \in SUBSET m /\ ~ (M[S] \in SUBSET S /\ OneToOne(M[S]))
      BY <2>2
    <2>4. S # {}
      <3>1. M[{}] = {}
        BY <1>3
      <3> QED BY <2>3, <3>1 DEF OneToOne
    <2>5. Best(S) \in S /\ Rest(S) \in SUBSET S /\ Best(S) \notin Rest(S)
      BY <1>4, <2>3, <2>4, BestOf
    <2>6. <<Rest(S), S>> \in StrictSubsetOrdering(m) /\ Rest(S) \in SUBSET m
      BY <2>3, <2>5 DEF StrictSubsetOrdering
    <2>7. M[Rest(S)] \in SUBSET Rest(S) /\ OneToOne(M[Rest(S)])
      BY <2>2, <2>6
    <2>8. M[S] = {Best(S)} \cup M[Rest(S)]
      BY <1>3, <2>3, <2>4
    <2>9. \A y \in M[Rest(S)] : y[1] # Best(S)[1] /\ y[2] # Best(S)[2]
      BY <2>7 DEF Rest
    <2>10. OneToOne(M[S])
      BY <2>7, <2>8, <2>9 DEF OneToOne
    <2> QED BY <2>3, <2>5, <2>7, <2>8, <2>10
  <1>6. m \in SUBSET m /\ m \notin Bad
    BY <1>5
  <1> QED BY <1>1, <1>6

\* bestNameMatch returns a candidate, or none.
LEMMA BestNameMatchOf ==
    ASSUME NEW p, NEW qs \in SUBSET AnyPath, IsFiniteSet(qs)
    PROVE  BestNameMatch(p, qs) \in qs \cup {None}
  <1> DEFINE best == {q \in qs : /\ NameScore(p, q) > 0
                                 /\ \A r \in qs : NameScore(p, r) <= NameScore(p, q)}
             R == {x \in best \X best : PathLess(x[1], x[2])}
  <1>1. best \in SUBSET qs /\ IsFiniteSet(best)
    <2>1. best \in SUBSET qs
      OBVIOUS
    <2> HIDE DEF best
    <2> QED BY <2>1, FS_Subset
  <1>2. BestNameMatch(p, qs) = IF best = {} THEN None
                               ELSE CHOOSE q \in best : \A r \in best : r = q \/ PathLess(q, r)
    BY DEF BestNameMatch
  <1> HIDE DEF best
  <1>3. CASE best = {}
    BY <1>2, <1>3
  <1>4. CASE best # {}
    <2>1. \A x, y \in best : <<x, y>> \in R <=> PathLess(x, y)
      OBVIOUS
    <2> HIDE DEF R
    <2>2. StrictOrder(best, R)
      <3>1. \A x \in best : x \in Path
        BY <1>1, AllPaths
      <3> QED BY <2>1, <3>1, LessIrreflexive, LessTransitive, LessTotal DEF StrictOrder
    <2>3. PICK q \in best : \A r \in best : r = q \/ <<q, r>> \in R
      BY <1>1, <1>4, <2>2, LeastElement
    <2>4. \A r \in best : r = q \/ PathLess(q, r)
      BY <2>1, <2>3
    <2>5. BestNameMatch(p, qs) \in best
      BY <1>2, <1>4, <2>4
    <2> QED BY <1>1, <2>5
  <1> QED BY <1>3, <1>4

\* The renames of one hash pair its deletions and additions one to one.
LEMMA ExactPairs ==
    ASSUME NEW ds \in SUBSET AnyPath, NEW as \in SUBSET AnyPath, IsFiniteSet(ds), IsFiniteSet(as)
    PROVE  /\ ExactMatches(ds, as) \in SUBSET (ds \X as) /\ OneToOne(ExactMatches(ds, as))
           /\ Dropped(ds, as) \in SUBSET as
  <1>6. Cardinality(as) = 1 => as # {}
    <2>1. Cardinality({}) = 0
      BY FS_EmptySet
    <2>2. Cardinality({}) # 1
      BY <2>1
    <2> QED BY <2>2, Zenon
  <1> DEFINE a == CHOOSE a \in as : TRUE
             d == CHOOSE d \in ds : TRUE
             sole(e, b) == IF e # None /\ b # None /\ SameMode(e, b) THEN {<<e, b>>} ELSE {}
             E == ExactMatches(ds, as)
             e1 == IF Cardinality(ds) = 1 THEN d ELSE BestNameMatch(a, ds)
             b1 == BestNameMatch(d, as)
  <1>1. E = IF ds = {} THEN {}
            ELSE IF Cardinality(as) = 1 THEN sole(e1, a)
            ELSE IF Cardinality(ds) = 1 THEN sole(d, b1)
            ELSE Matched(NameMatrix(ds, as))
    BY DEF ExactMatches
  <1>2. /\ Dropped(ds, as) \in SUBSET as
    BY DEF Dropped
  <1>3. ASSUME NEW e \in ds \cup {None}, NEW b \in as \cup {None}
        PROVE  sole(e, b) \in SUBSET (ds \X as) /\ OneToOne(sole(e, b))
    <2>1. CASE e # None /\ b # None /\ SameMode(e, b)
      <3>1. sole(e, b) = {<<e, b>>} /\ e \in ds /\ b \in as
        BY <2>1
      <3>2. <<e, b>> \in ds \X as
        BY <3>1
      <3> HIDE DEF sole
      <3>3. sole(e, b) \in SUBSET (ds \X as)
        BY <3>1, <3>2
      <3>4. OneToOne(sole(e, b))
        BY <3>1, Zenon DEF OneToOne
      <3> QED BY <3>3, <3>4
    <2>2. CASE ~ (e # None /\ b # None /\ SameMode(e, b))
      <3>1. sole(e, b) = {}
        BY <2>2
      <3> QED BY <3>1 DEF OneToOne
    <2> QED BY <2>1, <2>2
  <1>4. ds # {} => d \in ds
    OBVIOUS
  <1>5. as # {} => a \in as
    OBVIOUS
  <1> HIDE DEF sole, a, d, E
  <1>7. CASE ds = {}
    BY <1>1, <1>2, <1>7 DEF E, OneToOne
  <1>8. CASE ds # {} /\ Cardinality(as) = 1
    <2>1. a \in as \cup {None} /\ e1 \in ds \cup {None}
      BY <1>4, <1>5, <1>6, <1>8, BestNameMatchOf
    <2>2. E = sole(e1, a)
      BY <1>1, <1>8
    <2> HIDE DEF e1
    <2> QED BY <1>2, <1>3, <2>1, <2>2 DEF E
  <1>9. CASE ds # {} /\ Cardinality(as) # 1 /\ Cardinality(ds) = 1
    <2>1. d \in ds \cup {None} /\ b1 \in as \cup {None}
      BY <1>4, <1>9, BestNameMatchOf
    <2>2. E = sole(d, b1)
      BY <1>1, <1>9
    <2> HIDE DEF b1
    <2> QED BY <1>2, <1>3, <2>1, <2>2 DEF E
  <1>10. CASE ds # {} /\ Cardinality(as) # 1 /\ Cardinality(ds) # 1
    <2>1. E = Matched(NameMatrix(ds, as))
      BY <1>1, <1>10
    <2>2. NameMatrix(ds, as) \in SUBSET (ds \X as)
      BY DEF NameMatrix
    <2>3. IsFiniteSet(NameMatrix(ds, as)) /\ NameMatrix(ds, as) \in SUBSET (AnyPath \X AnyPath)
      <3>1. IsFiniteSet(ds \X as)
        BY FS_Product
      <3> QED BY <2>2, <3>1, FS_Subset
    <2>4. Matched(NameMatrix(ds, as)) \in SUBSET NameMatrix(ds, as) /\ OneToOne(Matched(NameMatrix(ds, as)))
      BY <2>3, MatchedPairs
    <2> QED BY <1>2, <2>1, <2>2, <2>4 DEF E
  <1> QED BY <1>7, <1>8, <1>9, <1>10

\* What the detector has paired.
Sources(m) == {x[1] : x \in m}
Targets(m) == {x[2] : x \in m}

\* Every deletion is in the list of the detector or the source of a rename;
\* every insertion is in the list, the target of a rename, or lost.
Shared ==
    /\ renamed \in SUBSET (Deleted \X Inserted) /\ OneToOne(renamed)
    /\ Deleted = deleted \cup Sources(renamed) /\ deleted \cap Sources(renamed) = {}
    /\ added \cup Targets(renamed) \subseteq Inserted /\ added \cap Targets(renamed) = {}
    /\ ~ Lossy => Inserted \subseteq added \cup Targets(renamed)

\* No file of a hash that is still to be looked at has been touched.
Untouched ==
    /\ hashes \subseteq {to[p][1] : p \in Inserted}
    /\ \A h \in hashes :
          /\ \A p \in Deleted : from[p][1] = h => p \in deleted
          /\ \A p \in Inserted : to[p][1] = h => p \in added

RenameInv ==
    /\ WalkShape
    /\ ~ Walked => renamed = {} /\ added = {} /\ deleted = {}
    /\ Walked => Shared
    /\ stage = "exact" => Untouched

LEMMA DeletedPaths ==
    ASSUME WalkShape
    PROVE  /\ Deleted \in SUBSET DOMAIN from /\ IsFiniteSet(Deleted) /\ Deleted \in SUBSET AnyPath
           /\ Inserted \in SUBSET DOMAIN to /\ IsFiniteSet(Inserted) /\ Inserted \in SUBSET AnyPath
  <1>1. changes \in Seq(Listed) /\ from \in Trees /\ to \in Trees
    BY DEF WalkShape, Given
  <1>2. \A i \in DOMAIN changes : changes[i] \in Listed
    BY <1>1
  <1>3. Deleted \in SUBSET DOMAIN from /\ Inserted \in SUBSET DOMAIN to
    BY <1>2 DEF Deleted, Inserted, Listed
  <1>4. IsFiniteSet(DOMAIN from) /\ IsFiniteSet(DOMAIN to)
    BY <1>1, TreesAssumption DEF TreesAssumption
  <1>5. DOMAIN from \in SUBSET AnyPath /\ DOMAIN to \in SUBSET AnyPath
    BY <1>1 DEF AnyPath
  <1> QED BY <1>3, <1>4, <1>5, FS_Subset

LEMMA SameChanges ==
    ASSUME UNCHANGED given, changes' = changes
    PROVE  Lossy' = Lossy /\ Deleted' = Deleted /\ Inserted' = Inserted
  <1>1. from' = from /\ to' = to /\ opts' = opts
    BY DEF given
  <1>2. Deleted' = Deleted /\ Inserted' = Inserted
    BY DEF Deleted, Inserted
  <1>3. Lossy' = Lossy
    BY <1>1 DEF Lossy, Dropped, ExactMatches, SameMode, NameMatrix, Inserted, Deleted
  <1> QED BY <1>2, <1>3

\* Taking pairs of what is in the lists keeps everything once.
LEMMA TakePairs ==
    ASSUME Shared, Walked, UNCHANGED <<given, changes>>, NEW m \in SUBSET (deleted \X added), OneToOne(m),
           NEW lost, lost \subseteq added, ~ Lossy => lost = {},
           renamed' = renamed \cup m, deleted' = deleted \ Sources(m),
           added' = (added \ Targets(m)) \ lost
    PROVE  Shared'
  <1>1. Lossy' = Lossy /\ Deleted' = Deleted /\ Inserted' = Inserted
    BY SameChanges
  <1>2. /\ Sources(renamed') = Sources(renamed) \cup Sources(m)
        /\ Targets(renamed') = Targets(renamed) \cup Targets(m)
    BY DEF Sources, Targets
  <1>3. Sources(m) \subseteq deleted /\ Targets(m) \subseteq added
    BY DEF Sources, Targets
  <1>4. OneToOne(renamed')
    <2> SUFFICES ASSUME NEW x \in renamed', NEW y \in renamed', x[1] = y[1] \/ x[2] = y[2]
                 PROVE  x = y
      BY DEF OneToOne
    <2>1. CASE x \in renamed /\ y \in renamed
      BY <2>1 DEF Shared, OneToOne
    <2>2. CASE x \in m /\ y \in m
      BY <2>2 DEF OneToOne
    <2>3. CASE x \in renamed /\ y \in m
      <3>1. x[1] \in Sources(renamed) /\ x[2] \in Targets(renamed) /\ y[1] \in deleted /\ y[2] \in added
        BY <2>3 DEF Sources, Targets
      <3> QED BY <3>1 DEF Shared
    <2>4. CASE x \in m /\ y \in renamed
      <3>1. y[1] \in Sources(renamed) /\ y[2] \in Targets(renamed) /\ x[1] \in deleted /\ x[2] \in added
        BY <2>4 DEF Sources, Targets
      <3> QED BY <3>1 DEF Shared
    <2> QED BY <2>1, <2>2, <2>3, <2>4
  <1>5. renamed' \in SUBSET (Deleted \X Inserted)
    BY DEF Shared
  <1>6. /\ Deleted = deleted' \cup Sources(renamed') /\ deleted' \cap Sources(renamed') = {}
        /\ added' \cup Targets(renamed') \subseteq Inserted /\ added' \cap Targets(renamed') = {}
        /\ ~ Lossy => Inserted \subseteq added' \cup Targets(renamed')
    BY <1>2, <1>3 DEF Shared
  <1> QED BY <1>1, <1>4, <1>5, <1>6 DEF Shared

LEMMA ExactStep ==
    ASSUME RenameInv, NEW h \in hashes, DetectExactRenames(h)
    PROVE  Shared' /\ Untouched'
  <1> DEFINE ds == {p \in deleted : from[p][1] = h}
             as == {p \in added : to[p][1] = h}
             m == ExactMatches(ds, as)
             lost == Dropped(ds, as)
  <1>1. /\ stage = "exact" /\ UNCHANGED <<given, changes>>
        /\ renamed' = renamed \cup m /\ deleted' = deleted \ Sources(m)
        /\ added' = (added \ Targets(m)) \ lost /\ hashes' = hashes \ {h}
    BY DEF DetectExactRenames, Sources, Targets
  <1>2. Walked /\ Shared /\ Untouched /\ WalkShape
    BY <1>1 DEF RenameInv, Walked
  <1>3. /\ deleted \in SUBSET Deleted /\ added \in SUBSET Inserted
        /\ Deleted \in SUBSET AnyPath /\ Inserted \in SUBSET AnyPath
        /\ IsFiniteSet(Deleted) /\ IsFiniteSet(Inserted)
    BY <1>2, DeletedPaths DEF Shared
  <1>4. ds = {p \in Deleted : from[p][1] = h} /\ as = {p \in Inserted : to[p][1] = h}
    BY <1>2, <1>3 DEF Untouched
  <1>5. /\ ds \in SUBSET AnyPath /\ IsFiniteSet(ds) /\ as \in SUBSET AnyPath /\ IsFiniteSet(as)
    <2>1. ds \in SUBSET Deleted /\ as \in SUBSET Inserted
      BY <1>3
    <2> HIDE DEF ds, as
    <2> QED BY <1>3, <2>1, FS_Subset
  <1>6. m \in SUBSET (ds \X as) /\ OneToOne(m) /\ lost \in SUBSET as
    <2> HIDE DEF ds, as
    <2> QED BY <1>5, ExactPairs
  <1>7. ~ Lossy => lost = {}
    <2>1. h \in {to[p][1] : p \in Inserted}
      BY <1>2 DEF Untouched
    <2>2. lost = Dropped({p \in Deleted : from[p][1] = h}, {p \in Inserted : to[p][1] = h})
      BY <1>4
    <2> HIDE DEF lost, ds, as
    <2> QED BY <2>1, <2>2, Zenon DEF Lossy
  <1> HIDE DEF m, lost
  <1>8. m \in SUBSET (deleted \X added) /\ lost \subseteq added
    BY <1>6
  <1>9. Shared'
    BY <1>1, <1>2, <1>6, <1>7, <1>8, TakePairs
  <1>10. Untouched'
    <2>1. Deleted' = Deleted /\ Inserted' = Inserted /\ from' = from /\ to' = to
      BY <1>1, SameChanges, SameGiven
    <2>2. \A p \in Sources(m) : from[p][1] = h
      BY <1>6 DEF Sources
    <2>3. \A p \in Targets(m) \cup lost : to[p][1] = h
      BY <1>6 DEF Targets
    <2>4. ASSUME NEW g \in hashes'
          PROVE  /\ \A p \in Deleted : from[p][1] = g => p \in deleted'
                 /\ \A p \in Inserted : to[p][1] = g => p \in added'
      <3>1. g \in hashes /\ g # h
        BY <1>1
      <3> QED BY <1>1, <1>2, <2>2, <2>3, <3>1 DEF Untouched
    <2>5. hashes' \subseteq {to[p][1] : p \in Inserted}
      BY <1>1, <1>2 DEF Untouched
    <2> QED BY <2>1, <2>4, <2>5 DEF Untouched
  <1> QED BY <1>9, <1>10

\* A step that leaves the lists of the detector alone.
LEMMA SameLists ==
    ASSUME UNCHANGED <<given, changes, added, deleted, renamed>>
    PROVE  Shared' = Shared /\ (hashes' = hashes => Untouched' = Untouched)
  <1>1. Lossy' = Lossy /\ Deleted' = Deleted /\ Inserted' = Inserted /\ from' = from /\ to' = to
    BY SameChanges, SameGiven
  <1>2. Shared' = Shared
    BY <1>1 DEF Shared, Sources, Targets, OneToOne
  <1> QED BY <1>1, <1>2 DEF Untouched

LEMMA RenameStep == WalkInv /\ RenameInv /\ [DiffNext]_diffVars => RenameInv'
  <1> SUFFICES ASSUME WalkInv, RenameInv, [DiffNext]_diffVars PROVE RenameInv'
    OBVIOUS
  <1>1. WalkShape'
    BY WalkStep DEF WalkInv
  <1>2. CASE \/ OnlyFromRemains \/ OnlyToRemains \/ FromBeforeTo \/ ToBeforeFrom
             \/ SkipFrom \/ SkipTo \/ DiffNodesSameName
    <2>1. stage = "walk"
      BY <1>2 DEF OnlyFromRemains, OnlyToRemains, FromBeforeTo, ToBeforeFrom, SkipFrom, SkipTo,
           DiffNodesSameName, Compared, BothHaveNodes
    <2>2. stage' = stage /\ UNCHANGED detector
      BY <1>2 DEF OnlyFromRemains, OnlyToRemains, FromBeforeTo, ToBeforeFrom, SkipFrom, SkipTo,
           DiffNodesSameName, Add
    <2>3. UNCHANGED <<added, deleted, renamed>>
      BY <2>2 DEF detector
    <2> QED BY <1>1, <2>1, <2>2, <2>3 DEF RenameInv, Walked
  <1>3. CASE Cancel
    <2>1. stage = "walk" /\ stage' = "canceled" /\ UNCHANGED <<added, deleted, renamed>>
      BY <1>3 DEF Cancel, detector
    <2> QED BY <1>1, <2>1 DEF RenameInv, Walked
  <1>4. CASE NoMoreNoders
    <2>1. /\ stage = "walk" /\ UNCHANGED <<given, changes>> /\ renamed' = renamed
          /\ added' = Inserted /\ deleted' = Deleted
          /\ \/ stage' = "exact" /\ hashes' = {to[p][1] : p \in Inserted}
             \/ stage' = "done"
      BY <1>4 DEF NoMoreNoders
    <2>2. renamed' = {}
      BY <2>1 DEF RenameInv, Walked
    <2>3. Lossy' = Lossy /\ Deleted' = Deleted /\ Inserted' = Inserted /\ from' = from /\ to' = to
      BY <2>1, SameChanges, SameGiven
    <2>4. Sources(renamed') = {} /\ Targets(renamed') = {} /\ OneToOne(renamed')
      BY <2>2 DEF Sources, Targets, OneToOne
    <2>5. Shared'
      BY <2>1, <2>2, <2>3, <2>4 DEF Shared
    <2>6. stage' = "exact" => Untouched'
      BY <2>1, <2>3 DEF Untouched
    <2> QED BY <1>1, <2>1, <2>5, <2>6 DEF RenameInv, Walked
  <1>5. CASE \E h \in hashes : DetectExactRenames(h)
    <2>1. PICK h \in hashes : DetectExactRenames(h)
      BY <1>5
    <2>2. stage = "exact" /\ stage' = stage
      BY <2>1 DEF DetectExactRenames
    <2> QED BY <1>1, <2>1, <2>2, ExactStep DEF RenameInv, Walked
  <1>6. CASE ExactRenamesDone
    <2>1. /\ stage = "exact" /\ stage' \in {"done", "content"}
          /\ UNCHANGED <<given, changes, added, deleted, renamed>>
      BY <1>6 DEF ExactRenamesDone, detector
    <2> QED BY <1>1, <2>1, SameLists DEF RenameInv, Walked
  <1>7. CASE \E x \in deleted \X added : DetectContentRename(x)
    <2>1. PICK x \in deleted \X added : DetectContentRename(x)
      BY <1>7
    <2> DEFINE m == {x}  lost == {}
    <2>2. /\ stage = "content" /\ stage' = stage /\ UNCHANGED <<given, changes>>
          /\ renamed' = renamed \cup m /\ deleted' = deleted \ {x[1]} /\ added' = added \ {x[2]}
      BY <2>1 DEF DetectContentRename
    <2>3. Sources(m) = {x[1]} /\ Targets(m) = {x[2]} /\ OneToOne(m) /\ m \in SUBSET (deleted \X added)
      BY DEF Sources, Targets, OneToOne
    <2>4. Walked /\ Shared /\ deleted' = deleted \ Sources(m) /\ added' = (added \ Targets(m)) \ lost
      BY <2>2, <2>3 DEF RenameInv, Walked
    <2>5. lost \subseteq added /\ (~ Lossy => lost = {})
      OBVIOUS
    <2> HIDE DEF m, lost
    <2>6. Shared'
      BY <2>2, <2>3, <2>4, <2>5, TakePairs
    <2> QED BY <1>1, <2>2, <2>6 DEF RenameInv, Walked
  <1>8. CASE ContentRenamesDone
    <2>1. /\ stage = "content" /\ stage' = "done"
          /\ UNCHANGED <<given, changes, added, deleted, renamed>>
      BY <1>8 DEF ContentRenamesDone, detector
    <2> QED BY <1>1, <2>1, SameLists DEF RenameInv, Walked
  <1>9. CASE UNCHANGED diffVars
    <2>1. stage' = stage /\ UNCHANGED <<given, changes, added, deleted, renamed>> /\ hashes' = hashes
      BY <1>9 DEF diffVars, detector
    <2> QED BY <1>1, <2>1, SameLists DEF RenameInv, Walked
  <1> QED BY <1>2, <1>3, <1>4, <1>5, <1>6, <1>7, <1>8, <1>9 DEF DiffNext, DiffReturned

LEMMA RenameInit == DiffInit => RenameInv
  <1> SUFFICES ASSUME DiffInit PROVE RenameInv
    OBVIOUS
  <1>1. WalkShape
    BY DiffWalkInit DEF WalkInv
  <1> QED BY <1>1 DEF DiffInit, RenameInv, Walked

\* A one-to-one set of pairs has as many left as right sides.
LEMMA PairsCount ==
    ASSUME NEW m, IsFiniteSet(m), OneToOne(m)
    PROVE  Cardinality(m) = Cardinality(Sources(m)) /\ Cardinality(m) = Cardinality(Targets(m))
  <1> DEFINE f == [x \in m |-> x[1]]  g == [x \in m |-> x[2]]
  <1>1. f \in Bijection(m, Sources(m))
    <2>1. f \in [m -> Sources(m)] /\ \A y \in Sources(m) : \E x \in m : f[x] = y
      BY DEF Sources
    <2>2. \A x, y \in m : f[x] = f[y] => x = y
      BY DEF OneToOne
    <2> HIDE DEF f
    <2> QED BY <2>1, <2>2 DEF Bijection, Injection, Surjection, IsInjective
  <1>2. g \in Bijection(m, Targets(m))
    <2>1. g \in [m -> Targets(m)] /\ \A y \in Targets(m) : \E x \in m : g[x] = y
      BY DEF Targets
    <2>2. \A x, y \in m : g[x] = g[y] => x = y
      BY DEF OneToOne
    <2> HIDE DEF g
    <2> QED BY <2>1, <2>2 DEF Bijection, Injection, Surjection, IsInjective
  <1> HIDE DEF f, g
  <1>3. ExistsBijection(m, Sources(m)) /\ ExistsBijection(m, Targets(m))
    BY <1>1, <1>2 DEF ExistsBijection
  <1> QED BY <1>3, FS_Bijection

(***************************************************************************)
(* The comparison and the rename detector keep their types: the detector   *)
(* holds paths of the right tree only.                                     *)
(***************************************************************************)
THEOREM DiffTypeCorrect == DiffSpec => []DiffTypeOK
  <1>1. RenameInv => DiffTypeOK
    <2> SUFFICES ASSUME RenameInv PROVE DiffTypeOK
      OBVIOUS
    <2>1. WalkShape
      BY DEF RenameInv
    <2>2. Deleted \in SUBSET DOMAIN from /\ Inserted \in SUBSET DOMAIN to
      BY <2>1, DeletedPaths
    <2>3. /\ added \subseteq DOMAIN to /\ deleted \subseteq DOMAIN from
          /\ renamed \subseteq (DOMAIN from) \X (DOMAIN to)
      <3>1. CASE Walked
        BY <2>2, <3>1 DEF RenameInv, Shared
      <3>2. CASE ~ Walked
        BY <3>2 DEF RenameInv
      <3> QED BY <3>1, <3>2
    <2> QED BY <2>1, <2>3 DEF DiffTypeOK, WalkShape, Given
  <1> QED BY <1>1, DiffWalkInit, WalkStep, RenameInit, RenameStep, PTL DEF DiffSpec

(***************************************************************************)
(* DetectRenames (plumbing/object/rename.go) loses and repeats no deletion *)
(* and no insertion, but for the insertions of Lossy: what it takes out of *)
(* its lists of added and deleted files goes into exactly one rename, be   *)
(* it by hash, by the greedy matrix of names or by content.                *)
(***************************************************************************)
THEOREM RenamesKeep == DiffSpec => []RenamesKeepChanges
  <1>1. RenameInv => RenamesKeepChanges
    <2> SUFFICES ASSUME RenameInv, stage \in {"content", "done"}, ~ Lossy
                 PROVE  /\ Deleted = deleted \cup Sources(renamed) /\ deleted \cap Sources(renamed) = {}
                        /\ Inserted = added \cup Targets(renamed) /\ added \cap Targets(renamed) = {}
                        /\ Cardinality(renamed) = Cardinality(Sources(renamed))
                        /\ Cardinality(renamed) = Cardinality(Targets(renamed))
      BY DEF RenamesKeepChanges, Sources, Targets
    <2>1. Shared /\ WalkShape
      BY DEF RenameInv, Walked
    <2>2. IsFiniteSet(renamed)
      <3>1. IsFiniteSet(Deleted \X Inserted)
        BY <2>1, DeletedPaths, FS_Product
      <3> QED BY <2>1, <3>1, FS_Subset DEF Shared
    <2>3. Cardinality(renamed) = Cardinality(Sources(renamed)) /\ Cardinality(renamed) = Cardinality(Targets(renamed))
      BY <2>1, <2>2, PairsCount DEF Shared
    <2> QED BY <2>1, <2>3 DEF Shared
  <1> QED BY <1>1, DiffWalkInit, WalkStep, RenameInit, RenameStep, PTL DEF DiffSpec
=============================================================================
