------------------------------ MODULE RevList ------------------------------
(***************************************************************************)
(* The object walk behind every pack this program builds: which objects a  *)
(* pack must hold so that a peer that has the commits "haves" can complete *)
(* the commits "wants" (plumbing/revlist).  Push, upload-pack and repack   *)
(* all send what it returns.                                               *)
(*                                                                         *)
(* The walk paints commits from both sides in the order of their committer *)
(* times and stops as soon as every queued commit is painted from both.    *)
(* Times are data of the commits: nothing keeps them in the order of the   *)
(* history.  The graph may be cut: at shallow commits, whose parents are   *)
(* not looked at, and at commits the repository does not have.             *)
(*                                                                         *)
(* One step is one turn of the loop.  The queue is a set and a turn takes  *)
(* any of its newest commits: the order of equal times depends on the      *)
(* order of the arguments.  A commit has one tree, abstracted to one       *)
(* object; wants and haves are commits.                                    *)
(***************************************************************************)
EXTENDS Integers, FiniteSets

CONSTANTS
    N,          \* number of commits in the history
    Times,      \* the assignments of committer times to consider
    Tree,       \* Tree[c] is the tree object of commit c
    MaxParents, \* bound on the parents of one commit
    MaxTips,    \* bound on the wants and on the haves
    MaxCuts     \* bound on the shallow and the missing commits together

Commit == 1..N

ASSUME NAssumption == N \in Nat \ {0}
ASSUME TimesAssumption == Times \subseteq [Commit -> Nat]
ASSUME TreeAssumption == Tree \in [Commit -> Nat]

VARIABLES
    parents, time,     \* the commits' parents and committer times
    present,           \* the commits the repository holds
    shallows,          \* objectWalk.shallows
    wants, haves,      \* the arguments of Objects
    pc,                \* what the call does next
    flags,             \* flags[c] \subseteq {"want", "have"}
    queue,             \* the commits waiting in the priority queue
    newCommits,        \* newCommits
    missing,           \* the recorded <<parent, child>> pairs
    result             \* the objects returned, commits and trees apart

input == <<parents, time, present, shallows, wants, haves>>
vars == <<input, pc, flags, queue, newCommits, missing, result>>

\* The haves the repository has; seedHaves tolerates the others.
KnownHaves == haves \cap present

\* A shallow commit is walked as if it had no parents.
ParentsOf(c) == IF c \in shallows THEN {} ELSE parents[c]

\* Commits are numbered so that parents come before their children.
Histories ==
    {p \in [Commit -> SUBSET Commit] :
        \A c \in Commit : /\ p[c] \subseteq 1..(c - 1)
                          /\ Cardinality(p[c]) <= MaxParents}

Tips == {s \in SUBSET Commit : Cardinality(s) <= MaxTips}
----------------------------------------------------------------------------
\* Every commit without a child is a want or a have: commits that neither
\* reaches are never looked at.
Init ==
    /\ parents \in Histories
    /\ time \in Times
    /\ present \in {s \in SUBSET Commit : N - Cardinality(s) <= MaxCuts}
    /\ shallows \in {s \in SUBSET Commit :
                        Cardinality(s) + N - Cardinality(present) <= MaxCuts}
    /\ wants \in Tips \ {{}}
    /\ haves \in Tips
    /\ Commit \ UNION {parents[c] : c \in Commit} \subseteq wants \cup haves
    /\ pc = "seed"
    /\ flags = [c \in Commit |-> {}]
    /\ queue = {} /\ newCommits = {} /\ missing = {}
    /\ result = [commits |-> {}, trees |-> {}]

\* seedHaves and seedWants: a have the repository lacks is skipped, a want it
\* lacks fails the call.  Without a have the walk needs no painting.
Seed ==
    /\ pc = "seed"
    /\ pc' = IF ~ (wants \subseteq present) THEN "error"
             ELSE IF KnownHaves = {} THEN "full" ELSE "paint"
    /\ flags' = [c \in Commit |-> {f \in {"want", "have"} :
                                      \/ f = "want" /\ c \in wants
                                      \/ f = "have" /\ c \in KnownHaves}]
    /\ queue' = (wants \cup KnownHaves) \cap present
    /\ UNCHANGED <<input, newCommits, missing, result>>

\* Mutant of Newest: the comparison of insertSorted is turned round.
OldestNewest == {c \in queue : \A d \in queue : time[c] <= time[d]}

\* insertSorted keeps the queue newest first; queue[0] is one of these.
Newest == {c \in queue : \A d \in queue : time[d] <= time[c]}

\* Mutant of Repainted: parents that have the flags are queued again.
AlwaysRepainted(c) == ParentsOf(c)

\* propagate: the parents that gain a flag from c.
Repainted(c) == {p \in ParentsOf(c) : ~ (flags[c] \subseteq flags[p])}

\* Mutant of AllStale: commits painted by the wants alone count as stale.
WantAllStale(q, fl) == \A c \in q : "want" \in fl[c]

\* allStale over the queue q with the paint fl.
AllStale(q, fl) == \A c \in q : fl[c] = {"want", "have"}

\* One turn of the painting loop of walk.
Paint(c) ==
    /\ pc = "paint"
    /\ c \in Newest
    /\ newCommits' = IF flags[c] = {"want"} THEN newCommits \cup {c} ELSE newCommits
    /\ flags' = [p \in Commit |-> IF p \in Repainted(c) THEN flags[p] \cup flags[c]
                                  ELSE flags[p]]
    /\ missing' = missing \cup {<<p, c>> : p \in Repainted(c) \ present}
    /\ queue' = (queue \ {c}) \cup (Repainted(c) \cap present)
    /\ pc' = IF AllStale(queue', flags') THEN "collect" ELSE "paint"
    /\ UNCHANGED <<input, result>>

\* Mutant of Unexplained: no missing parent is tolerated.
AllUnexplained == missing

\* A missing parent is tolerated when its child turned out to be a have.
Unexplained == {m \in missing : "have" \notin flags[m[2]]}

\* The new commits that no have reached after they were added.
Kept == {c \in newCommits : "have" \notin flags[c]}

\* The trees already marked as seen: those of the haves, and those of the
\* edge parents that are present (seedHaves, markEdgeTreeSeen).
SeenTrees ==
    LET edges == {p \in present : /\ "have" \in flags[p]
                                  /\ \E c \in Kept : p \in ParentsOf(c)}
    IN {Tree[c] : c \in KnownHaves \cup edges}

\* The end of walk: the missing parents are judged, then the commits kept and
\* their unseen trees are collected.
Collect ==
    /\ pc = "collect"
    /\ IF Unexplained # {}
       THEN /\ pc' = "error"
            /\ UNCHANGED result
       ELSE /\ pc' = "done"
            /\ result' = [commits |-> Kept,
                          trees |-> {Tree[c] : c \in Kept} \ SeenTrees]
    /\ UNCHANGED <<input, flags, queue, newCommits, missing>>

\* One turn of walkFull: here a missing parent fails the call at once.
WalkFull(c) ==
    /\ pc = "full"
    /\ c \in Newest
    /\ LET next == {p \in ParentsOf(c) : "want" \notin flags[p]}
       IN /\ flags' = [p \in Commit |-> IF p \in next THEN {"want"} ELSE flags[p]]
          /\ queue' = (queue \ {c}) \cup (next \cap present)
          /\ pc' = IF ~ (next \subseteq present) THEN "error" ELSE "full"
    /\ result' = [commits |-> result.commits \cup {c},
                  trees |-> result.trees \cup {Tree[c]}]
    /\ UNCHANGED <<input, newCommits, missing>>

FullDone ==
    /\ pc = "full"
    /\ queue = {}
    /\ pc' = "done"
    /\ UNCHANGED <<input, flags, queue, newCommits, missing, result>>

\* The call has returned.
Returned ==
    /\ pc \in {"done", "error"}
    /\ UNCHANGED vars

Next ==
    \/ Seed
    \/ \E c \in Commit : Paint(c) \/ WalkFull(c)
    \/ Collect
    \/ FullDone
    \/ Returned

Spec == Init /\ [][Next]_vars
----------------------------------------------------------------------------
\* A set with the known haves that is closed under the parents of the commits
\* that can be read.
Closed(s, readable) == /\ KnownHaves \subseteq s
                       /\ \A c \in s \cap readable : ParentsOf(c) \subseteq s

\* What a peer that announced the haves holds: their whole history.
Held == {c \in Commit : \A s \in SUBSET Commit : Closed(s, Commit) => c \in s}

\* The part of it that this repository can trace.
Traced == {c \in Commit : \A s \in SUBSET Commit : Closed(s, present) => c \in s}

\* Committer times that agree with the history.
Monotone == \A c \in Commit : \A p \in parents[c] : time[p] < time[c]

\* The shape of the state of one walk.
TypeOK ==
    /\ pc \in {"seed", "paint", "full", "collect", "done", "error"}
    /\ parents \in [Commit -> SUBSET Commit]
    /\ time \in [Commit -> Nat]
    /\ present \subseteq Commit /\ shallows \subseteq Commit
    /\ wants \subseteq Commit /\ haves \subseteq Commit
    /\ flags \in [Commit -> SUBSET {"want", "have"}]
    /\ queue \subseteq present
    /\ newCommits \subseteq Commit
    /\ missing \subseteq Commit \X Commit
    /\ result.commits \subseteq Commit
    /\ result.trees \subseteq {Tree[c] : c \in Commit}

(***************************************************************************)
(* Whatever the committer times, the walk of revlist.Objects returns a set *)
(* that completes the wants for a peer holding the haves: every want,      *)
(* every parent of a commit sent and every tree of a commit sent is in the *)
(* result or already with the peer.  Stopping early must not lose a        *)
(* commit, and a tree left out as "seen" must really be at the peer.       *)
(***************************************************************************)
ResultCompletes ==
    pc = "done" =>
        /\ wants \subseteq result.commits \cup Held
        /\ \A c \in result.commits :
              /\ ParentsOf(c) \subseteq result.commits \cup Held
              /\ Tree[c] \in result.trees \cup {Tree[h] : h \in Held}

(***************************************************************************)
(* When committer times increase along the history the walk is exact: no   *)
(* commit that can be traced from the haves is sent.  (With clock skew the *)
(* early stop may resend commits, which is harmless.)                      *)
(***************************************************************************)
NothingResent ==
    (pc = "done" /\ Monotone) => result.commits \cap Traced = {}

(***************************************************************************)
(* An error is a real one: when times increase along the history,          *)
(* walk refuses a missing parent only for a child the peer does not have,  *)
(* that is for a commit that had to be sent.                               *)
(***************************************************************************)
ErrorsAreReal ==
    (pc = "error" /\ Monotone) =>
        \/ ~ (wants \subseteq present)
        \/ \E m \in missing : m[2] \notin Traced
        \/ KnownHaves = {} /\ \E c \in result.commits : ~ (ParentsOf(c) \subseteq present)

(***************************************************************************)
(* The walk ends, whatever the graph and the times: a commit comes back to *)
(* the queue only when propagate gives it a flag it did not have, so every *)
(* turn of the loops lowers this measure.                                  *)
(***************************************************************************)
Measure ==
    LET unpainted == {cf \in Commit \X {"want", "have"} : cf[2] \notin flags[cf[1]]}
    IN Cardinality(unpainted) * (N + 1) + Cardinality(queue)

EveryTurnCounts ==
    [][\A c \in Commit : (Paint(c) \/ WalkFull(c)) => Measure' < Measure]_vars
============================================================================
