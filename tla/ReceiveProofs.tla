---------------------------- MODULE ReceiveProofs ----------------------------
(***************************************************************************)
(* Proofs about receiving: the fetch that asks a server for commits         *)
(* (Fetch), the pack it answers with while it is written and parsed at the  *)
(* same time (PackStream), and the pack and its sidecar files being put in  *)
(* place (PackSave), and the two together (PackWriter).  One part for each  *)
(* module, in that order.                                                   *)
(***************************************************************************)
EXTENDS Fetch, PackWriter, FiniteSetTheorems, TLAPS

-----------------------------------------------------------------------------
(* Fetch, for every history, reference tables, depths and protocols.        *)
(*                                                                          *)
(* FetchInv: what the client stores keeps every history whole down to its   *)
(* shallow file (WholeOK), and the response of a fetch with a depth keeps   *)
(* the boundary out of the requested distance (DeepOK).  Both rest on facts *)
(* about Reach and Ball, so the lemmas about those come first.              *)

\* A set that contains the parents of its commits, except those of the cut.
ParentClosed(s, cut) == \A c \in s \ cut : Parents[c] \subseteq s

\* The least such set that contains commit c.
Least(cut) ==
    [c \in Commit |->
        {x \in Commit : \A s \in SUBSET Commit : (c \in s /\ ParentClosed(s, cut)) => x \in s}]

ReachStep(r, cut) ==
    [c \in Commit |-> {c} \cup IF c \in cut THEN {} ELSE UNION {r[p] : p \in Parents[c]}]

\* A set of natural numbers has a least element.
LEMMA LeastNatural ==
    ASSUME NEW T \in SUBSET Nat, T # {}
    PROVE  \E n \in T : \A m \in T : n <= m
  <1> DEFINE Below == {0..n : n \in T}
  <1>1. \A n \in Nat : 0..n \in SUBSET Nat /\ IsFiniteSet(0..n)
    BY FS_Interval
  <1>2. Below \subseteq FiniteSubsetsOf(Nat) /\ Below # {}
    BY <1>1 DEF FiniteSubsetsOf
  <1>3. PICK b \in Below : \A d \in Below : ~ (<<d, b>> \in StrictSubsetOrdering(Nat))
    <2> HIDE DEF Below
    <2> QED BY <1>2, WFMin, FS_StrictSubsetOrderingWellFounded
  <1>4. PICK n \in T : b = 0..n
    OBVIOUS
  <1>5. ASSUME NEW m \in T PROVE n <= m
    <2> SUFFICES ASSUME m < n PROVE FALSE
      OBVIOUS
    <2>1. 0..m \subseteq 0..n /\ 0..m # 0..n /\ 0..m \in SUBSET Nat /\ 0..n \in SUBSET Nat
      OBVIOUS
    <2>2. <<0..m, 0..n>> \in StrictSubsetOrdering(Nat)
      BY <2>1 DEF StrictSubsetOrdering
    <2> QED BY <1>3, <1>4, <2>2
  <1> QED BY <1>5

\* Reach is defined by a recursive function; Least solves its equation.
LEMMA LeastSolves == ASSUME NEW cut PROVE Least(cut) = ReachStep(Least(cut), cut)
  <1> DEFINE L == Least(cut)
  <1>1. ASSUME NEW c \in Commit
        PROVE  L[c] = {c} \cup IF c \in cut THEN {} ELSE UNION {L[p] : p \in Parents[c]}
    <2> DEFINE B == {c} \cup IF c \in cut THEN {} ELSE UNION {L[p] : p \in Parents[c]}
    <2>1. Parents[c] \subseteq Commit
      BY ParentsAssumption
    <2>2. \A d \in Commit :
             L[d] = {x \in Commit : \A s \in SUBSET Commit :
                                       (d \in s /\ ParentClosed(s, cut)) => x \in s}
      BY DEF Least
    <2> HIDE DEF L
    <2>3. \A d \in Commit : d \in L[d] /\ L[d] \subseteq Commit /\ ParentClosed(L[d], cut)
      <3> SUFFICES ASSUME NEW d \in Commit
                   PROVE  d \in L[d] /\ L[d] \subseteq Commit /\ ParentClosed(L[d], cut)
        OBVIOUS
      <3>1. d \in L[d] /\ L[d] \subseteq Commit
        BY <2>2
      <3>2. ASSUME NEW y \in L[d] \ cut, NEW p \in Parents[y] PROVE p \in L[d]
        <4>1. y \in Commit /\ p \in Commit
          BY <3>1, ParentsAssumption
        <4>2. ASSUME NEW s \in SUBSET Commit, d \in s, ParentClosed(s, cut) PROVE p \in s
          BY <2>2, <3>2, <4>2 DEF ParentClosed
        <4> QED BY <2>2, <4>1, <4>2
      <3> QED BY <3>1, <3>2 DEF ParentClosed
    <2>4. B \subseteq L[c]
      <3> SUFFICES ASSUME c \notin cut, NEW p \in Parents[c] PROVE L[p] \subseteq L[c]
        BY <2>3
      <3>1. p \in Commit /\ p \in L[c]
        BY <2>1, <2>3 DEF ParentClosed
      <3>2. ASSUME NEW x \in L[p] PROVE x \in L[c]
        <4>1. L[c] \in SUBSET Commit /\ ParentClosed(L[c], cut)
          BY <2>3
        <4> QED BY <2>2, <3>1, <3>2, <4>1
      <3> QED BY <3>2
    <2>5. L[c] \subseteq B
      <3>1. B \in SUBSET Commit /\ c \in B
        BY <2>1, <2>3
      <3>2. ASSUME NEW y \in B \ cut PROVE Parents[y] \subseteq B
        <4>1. CASE y = c
          BY <2>1, <2>3, <3>2, <4>1
        <4>2. CASE c \notin cut /\ \E p \in Parents[c] : y \in L[p]
          <5>1. PICK p \in Parents[c] : y \in L[p]
            BY <4>2
          <5>2. Parents[y] \subseteq L[p]
            BY <2>1, <2>3, <3>2, <5>1 DEF ParentClosed
          <5> QED BY <4>2, <5>2
        <4> QED BY <3>2, <4>1, <4>2
      <3> HIDE DEF B
      <3>3. ParentClosed(B, cut)
        BY <3>2 DEF ParentClosed
      <3> QED BY <2>2, <3>1, <3>3
    <2> QED BY <2>4, <2>5
  <1>2. L = [c \in Commit |-> L[c]]
    BY DEF Least
  <1> HIDE DEF L
  <1>3. L = ReachStep(L, cut)
    BY <1>1, <1>2 DEF ReachStep
  <1> QED BY <1>3 DEF L

\* The equation has no other solution: at the least commit where two differ
\* their parents' values agree.
LEMMA OnlyLeastSolves ==
    ASSUME NEW cut, NEW r, r = ReachStep(r, cut) PROVE r = Least(cut)
  <1> DEFINE L == Least(cut)
             T == {c \in Commit : r[c] # L[c]}
  <1>1. L = ReachStep(L, cut)
    BY LeastSolves
  <1> HIDE DEF L
  <1>2. T = {}
    <2> SUFFICES ASSUME T # {} PROVE FALSE
      OBVIOUS
    <2>1. PICK c \in T : \A d \in T : c <= d
      BY ParentsAssumption, LeastNatural
    <2>2. c \in Commit /\ c \in Nat /\ \A p \in Parents[c] : p \in Commit /\ p \in Nat /\ p < c
      BY ParentsAssumption
    <2>3. \A p \in Parents[c] : r[p] = L[p]
      BY <2>1, <2>2
    <2>4. {r[p] : p \in Parents[c]} = {L[p] : p \in Parents[c]}
      BY <2>3
    <2>5. /\ r[c] = {c} \cup IF c \in cut THEN {} ELSE UNION {r[p] : p \in Parents[c]}
          /\ L[c] = {c} \cup IF c \in cut THEN {} ELSE UNION {L[p] : p \in Parents[c]}
      BY <1>1, <2>2 DEF ReachStep
    <2> QED BY <2>1, <2>4, <2>5
  <1>3. r = [c \in Commit |-> r[c]] /\ L = [c \in Commit |-> L[c]]
    BY <1>1 DEF ReachStep
  <1>4. r = L
    BY <1>2, <1>3
  <1> QED BY <1>4 DEF L

\* What Reach computes.
LEMMA ReachIsLeast ==
    ASSUME NEW tips, NEW cut
    PROVE  Reach(tips, cut) = UNION {Least(cut)[c] : c \in tips}
  <1> DEFINE R == CHOOSE r : r = ReachStep(r, cut)
  <1>1. Reach(tips, cut) = UNION {R[c] : c \in tips}
    BY Zenon DEF Reach, ReachStep
  <1>2. R = ReachStep(R, cut)
    BY LeastSolves, Zenon
  <1> HIDE DEF R
  <1>3. R = Least(cut)
    BY <1>2, OnlyLeastSolves
  <1> QED BY <1>1, <1>3

\* Reach is the least set with the tips that is closed under the parents of
\* its commits, those of the cut excepted.
LEMMA ReachProperties ==
    ASSUME NEW tips \in SUBSET Commit, NEW cut
    PROVE  /\ Reach(tips, cut) \subseteq Commit
           /\ tips \subseteq Reach(tips, cut)
           /\ ParentClosed(Reach(tips, cut), cut)
           /\ \A s \in SUBSET Commit : (tips \subseteq s /\ ParentClosed(s, cut)) =>
                                           Reach(tips, cut) \subseteq s
  <1> DEFINE L == Least(cut)
  <1>1. Reach(tips, cut) = UNION {L[c] : c \in tips}
    BY ReachIsLeast
  <1>2. \A d \in Commit :
           L[d] = {x \in Commit : \A s \in SUBSET Commit :
                                     (d \in s /\ ParentClosed(s, cut)) => x \in s}
    BY DEF Least
  <1> HIDE DEF L
  <1>3. Reach(tips, cut) \subseteq Commit /\ tips \subseteq Reach(tips, cut)
    BY <1>1, <1>2
  <1>4. ASSUME NEW y \in Reach(tips, cut) \ cut, NEW p \in Parents[y]
        PROVE  p \in Reach(tips, cut)
    <2>1. PICK c \in tips : y \in L[c]
      BY <1>1
    <2>2. y \in Commit /\ p \in Commit
      BY <1>2, <2>1, ParentsAssumption
    <2>3. ASSUME NEW s \in SUBSET Commit, c \in s, ParentClosed(s, cut) PROVE p \in s
      BY <1>2, <1>4, <2>1, <2>3 DEF ParentClosed
    <2>4. p \in L[c]
      BY <1>2, <2>2, <2>3
    <2> QED BY <1>1, <2>4
  <1>5. ASSUME NEW s \in SUBSET Commit, tips \subseteq s, ParentClosed(s, cut)
        PROVE  Reach(tips, cut) \subseteq s
    BY <1>1, <1>2, <1>5
  <1> QED BY <1>3, <1>4, <1>5 DEF ParentClosed
-----------------------------------------------------------------------------
(* The commits within a distance.                                           *)

Further(s) == s \cup UNION {Parents[c] : c \in s}

BallStep(f, tips, d) == [k \in 1..d |-> IF k = 1 THEN tips ELSE Further(f[k - 1])]

LEMMA BallAt ==
    ASSUME NEW tips, NEW d \in Nat, NEW f, f = BallStep(f, tips, d), NEW k \in 1..d
    PROVE  f[k] = IF k = 1 THEN tips ELSE Further(f[k - 1])
  <1>1. BallStep(f, tips, d)[k] =
           IF k = 1 THEN tips ELSE Further(f[k - 1])
    BY DEF BallStep
  <1> QED BY <1>1

\* Two solutions of Ball's equation agree where both are defined.
LEMMA BallsAgree ==
    ASSUME NEW tips, NEW d \in Nat, NEW e \in Nat, NEW f, NEW g,
           f = BallStep(f, tips, d), g = BallStep(g, tips, e), NEW k \in 1..d, k <= e
    PROVE  f[k] = g[k]
  <1> DEFINE T == {j \in 1..k : f[j] # g[j]}
  <1>1. T = {}
    <2> SUFFICES ASSUME T # {} PROVE FALSE
      OBVIOUS
    <2>1. PICK j \in T : \A i \in T : j <= i
      <3>1. T \in SUBSET Nat
        OBVIOUS
      <3> HIDE DEF T
      <3> QED BY <3>1, LeastNatural
    <2>2. j \in 1..d /\ j \in 1..e /\ f[j] # g[j]
      OBVIOUS
    <2>3. /\ f[j] = IF j = 1 THEN tips ELSE Further(f[j - 1])
          /\ g[j] = IF j = 1 THEN tips ELSE Further(g[j - 1])
      BY <2>2 DEF BallStep
    <2>4. j # 1 => f[j - 1] = g[j - 1]
      BY <2>1, <2>2
    <2> QED BY <2>2, <2>3, <2>4
  <1> QED BY <1>1

\* There is a solution for every distance: the least distance without one could
\* be reached from the one before.
LEMMA BallExists ==
    ASSUME NEW tips, NEW d \in Nat PROVE \E f : f = BallStep(f, tips, d)
  <1> DEFINE T == {n \in Nat : ~ \E f : f = BallStep(f, tips, n)}
  <1>1. T = {}
    <2> SUFFICES ASSUME T # {} PROVE FALSE
      OBVIOUS
    <2>1. PICK n \in T : \A m \in T : n <= m
      BY LeastNatural
    <2>2. n \in Nat /\ ~ \E f : f = BallStep(f, tips, n)
      OBVIOUS
    <2>3. n # 0
      <3>1. ASSUME n = 0 PROVE FALSE
        <4> DEFINE f == [k \in 1..0 |-> tips]
        <4>1. f = BallStep(f, tips, 0)
          BY DEF BallStep
        <4> QED BY <2>2, <3>1, <4>1
      <3> QED BY <3>1
    <2>4. n - 1 \in Nat /\ n - 1 \notin T
      BY <2>1, <2>2, <2>3
    <2>5. PICK f : f = BallStep(f, tips, n - 1)
      BY <2>4
    <2> DEFINE g == [k \in 1..n |-> IF k = 1 THEN tips
                                    ELSE Further(f[k - 1])]
    <2>6. ASSUME NEW k \in 1..(n - 1) PROVE g[k] = f[k]
      <3>1. f[k] = IF k = 1 THEN tips ELSE Further(f[k - 1])
        BY <2>4, <2>5 DEF BallStep
      <3>2. k \in 1..n
        BY <2>2
      <3> QED BY <3>1, <3>2
    <2>7. \A k \in 1..n : k # 1 => g[k - 1] = f[k - 1]
      <3>1. \A k \in 1..n : k # 1 => k - 1 \in 1..(n - 1)
        BY <2>2
      <3> HIDE DEF g
      <3> QED BY <2>6, <3>1
    <2> HIDE DEF T
    <2>8. g = BallStep(g, tips, n)
      <3>1. \A k \in 1..n : g[k] = IF k = 1 THEN tips
                                   ELSE Further(g[k - 1])
        BY <2>7
      <3>2. g = [k \in 1..n |-> g[k]]
        OBVIOUS
      <3> HIDE DEF g
      <3> QED BY <3>1, <3>2 DEF BallStep
    <2> QED BY <2>2, <2>8
  <1> QED BY <1>1

\* Ball grows by the parents of what it holds.
LEMMA BallGrows ==
    ASSUME NEW tips, NEW d \in Nat, d >= 1
    PROVE  /\ d = 1 => Ball(tips, d) = tips
           /\ d # 1 => Ball(tips, d) = Further(Ball(tips, d - 1))
  <1> DEFINE B(n) == CHOOSE f : f = BallStep(f, tips, n)
  <1>1. \A n \in Nat : Ball(tips, n) = B(n)[n]
    BY Zenon DEF Ball, BallStep, Further
  <1>2. \A n \in Nat : B(n) = BallStep(B(n), tips, n)
    BY BallExists
  <1> HIDE DEF B
  <1>3. B(d)[d] = IF d = 1 THEN tips
                  ELSE Further(B(d)[d - 1])
    BY <1>2, BallAt
  <1>4. d # 1 => d - 1 \in Nat /\ B(d)[d - 1] = B(d - 1)[d - 1]
    BY <1>2, BallsAgree
  <1> QED BY <1>1, <1>3, <1>4

\* A set that holds the tips and the parents of those of its commits that are
\* nearer than d holds everything within d.
LEMMA BallWithin ==
    ASSUME NEW tips, NEW d \in Nat, d >= 1, NEW s, tips \subseteq s,
           NEW k \in 1..d,
           \A j \in 1..(d - 1) : \A c \in Ball(tips, j) \cap s : Parents[c] \subseteq s
    PROVE  Ball(tips, k) \subseteq s
  <1> DEFINE T == {j \in 1..d : ~ (Ball(tips, j) \subseteq s)}
  <1>1. T = {}
    <2> SUFFICES ASSUME T # {} PROVE FALSE
      OBVIOUS
    <2>1. PICK j \in T : \A i \in T : j <= i
      <3>1. T \in SUBSET Nat
        OBVIOUS
      <3> HIDE DEF T
      <3> QED BY <3>1, LeastNatural
    <2>2. j \in 1..d /\ ~ (Ball(tips, j) \subseteq s)
      OBVIOUS
    <2>3. j # 1
      BY <2>2, BallGrows
    <2>4. j - 1 \in 1..(d - 1) /\ Ball(tips, j - 1) \subseteq s
      BY <2>1, <2>2, <2>3
    <2>5. Ball(tips, j) = Further(Ball(tips, j - 1))
      BY <2>2, <2>3, BallGrows
    <2> QED BY <2>2, <2>4, <2>5 DEF Further
  <1> QED BY <1>1

\* A smaller distance reaches less.
LEMMA BallMonotone ==
    ASSUME NEW tips, NEW d \in Nat, NEW k \in 1..d PROVE Ball(tips, k) \subseteq Ball(tips, d)
  <1> DEFINE T == {j \in Nat : j >= k /\ ~ (Ball(tips, k) \subseteq Ball(tips, j))}
  <1>1. T = {}
    <2> SUFFICES ASSUME T # {} PROVE FALSE
      OBVIOUS
    <2>1. PICK j \in T : \A i \in T : j <= i
      BY LeastNatural
    <2>2. j \in Nat /\ j > k /\ j - 1 \in Nat /\ j - 1 \notin T /\ j # 1
      BY <2>1
    <2>3. Ball(tips, k) \subseteq Ball(tips, j - 1)
      BY <2>2
    <2>4. Ball(tips, j - 1) \subseteq Ball(tips, j)
      BY <2>2, BallGrows DEF Further
    <2> QED BY <2>1, <2>3, <2>4
  <1> QED BY <1>1
-----------------------------------------------------------------------------
(* The invariant.                                                           *)

\* The shallow file once the response is stored.
NewShallow == (shallow \cup resp.shallows) \ resp.unshallows

\* The shape of the state, with what the two sides know of each other: the server
\* has the history of what it advertised and of what the client marks as shallow,
\* the client has what it offers.
FetchTypes ==
    /\ sRefs \in [Name -> Value] /\ adv \in [Name -> Value]
    /\ branch \in Value /\ track \in [Name -> Value]
    /\ sObjs \subseteq Commit /\ cObjs \subseteq Commit
    /\ pc \in {"idle", "plan", "negotiate", "store", "shallow", "refs"}
    /\ opt.depth \in Nat /\ spoiled \in BOOLEAN
    /\ {"common", "told"} \subseteq DOMAIN neg
    /\ ParentClosed(sObjs, {})
    /\ Tips(sRefs) \subseteq sObjs /\ Tips(adv) \subseteq sObjs /\ wants \subseteq Tips(adv)
    /\ pc \in {"idle", "plan"} => wants = {}
    /\ shallow \subseteq sObjs /\ resp.commits \subseteq sObjs
    /\ resp.shallows \subseteq sObjs /\ resp.unshallows \subseteq sObjs
    /\ haves \subseteq cObjs /\ neg.common \subseteq cObjs /\ neg.told \subseteq cObjs

\* The response, when the server knew of the client's shallow commits.
StoreOK ==
    (opt.depth > 0 \/ shallow = {}) =>
        /\ ParentClosed(cObjs \cup resp.commits, NewShallow)
        /\ Tips(adv) \subseteq cObjs \cup resp.commits

\* Between calls the client's commits are closed under parents down to its shallow
\* commits; between the pack and the shallow file down to the ones the file is about
\* to name.  What it was offered is there before the references move.
WholeOK ==
    ~ spoiled =>
        /\ HistoryComplete
        /\ pc # "shallow" => ParentClosed(cObjs, shallow)
        /\ pc = "negotiate" => Tips(adv) \ wants \subseteq cObjs
        /\ pc = "store" => StoreOK
        /\ pc = "shallow" => ParentClosed(cObjs, NewShallow)
        /\ pc \in {"shallow", "refs"} => Tips(adv) \subseteq cObjs

\* Nothing nearer than the depth asked for is, or will be, marked as shallow.
Clear(cut) == \A k \in 1..(opt.depth - 1) : Ball(wants, k) \cap cut = {}

DeepOK ==
    opt.depth > 0 =>
        /\ pc = "negotiate" /\ shallow = {} => wants # {} /\ wants \cap cObjs = {}
        /\ pc \in {"store", "shallow"} => Clear(NewShallow)
        /\ pc = "refs" /\ wants # {} => Clear(shallow)

FetchInv == FetchTypes /\ WholeOK /\ DeepOK
-----------------------------------------------------------------------------
(* The server's answer.                                                     *)

\* getShallowCommits stays within the server's commits.
LEMMA BoundaryThere ==
    ASSUME FetchTypes, opt.depth > 0
    PROVE  GetShallowCommits(opt.depth) \subseteq sObjs
  <1>1. wants \subseteq sObjs /\ opt.depth \in Nat
    BY DEF FetchTypes
  <1>2. ASSUME NEW k \in 1..opt.depth PROVE Ball(wants, k) \subseteq sObjs
    <2>1. \A c \in sObjs : Parents[c] \subseteq sObjs
      BY DEF FetchTypes, ParentClosed
    <2>2. \A j \in 1..(opt.depth - 1) : \A c \in Ball(wants, j) \cap sObjs :
             Parents[c] \subseteq sObjs
      BY <2>1
    <2>3. opt.depth >= 1
      BY <1>1
    <2> QED BY <1>1, <1>2, <2>2, <2>3, BallWithin, Zenon
  <1>3. opt.depth \in 1..opt.depth
    BY <1>1
  <1> QED BY <1>1, <1>2, <1>3 DEF GetShallowCommits

\* What planShallow tells: the grafts are the client's shallow commits and the new
\* ones, and none is new and uncovered at once.
LEMMA PlanParts ==
    ASSUME FetchTypes
    PROVE  /\ KnownShallows \subseteq PlanShallow.grafts
           /\ PlanShallow.grafts \subseteq KnownShallows \cup PlanShallow.shallows
           /\ PlanShallow.unshallows \subseteq KnownShallows
           /\ PlanShallow.shallows \cap PlanShallow.unshallows = {}
           /\ PlanShallow.shallows \subseteq sObjs
  <1>1. opt.depth \in Nat
    BY DEF FetchTypes
  <1>2. CASE opt.depth = 0
    <2>1. KnownShallows = {} /\ PlanShallow = [grafts |-> {}, shallows |-> {}, unshallows |-> {}]
      BY <1>1, <1>2 DEF PlanShallow, KnownShallows, UpShallows
    <2> QED BY <2>1
  <1>3. CASE opt.depth # 0 /\ opt.depth >= Infinite /\ KnownShallows # {}
    BY <1>3 DEF PlanShallow
  <1>4. CASE opt.depth # 0 /\ ~ (opt.depth >= Infinite /\ KnownShallows # {})
    <2> DEFINE boundary == GetShallowCommits(opt.depth)
    <2>1. PlanShallow = [grafts |-> KnownShallows \cup boundary,
                         shallows |-> boundary \ KnownShallows,
                         unshallows |-> Unshallowed(boundary)]
      BY <1>4 DEF PlanShallow
    <2>2. boundary \subseteq sObjs
      BY <1>1, <1>4, BoundaryThere
    <2> HIDE DEF boundary
    <2>3. Unshallowed(boundary) \subseteq KnownShallows \ boundary
      BY DEF Unshallowed
    <2> QED BY <2>1, <2>2, <2>3
  <1> QED BY <1>2, <1>3, <1>4

\* With a depth the server knows all of the client's shallow commits.
LEMMA AllKnown ==
    ASSUME FetchTypes, opt.depth > 0 \/ shallow = {} PROVE KnownShallows = shallow
  BY DEF FetchTypes, KnownShallows, UpShallows

\* The new boundary is at the depth asked for: nearer commits stop being shallow.
LEMMA PlanNear ==
    ASSUME FetchTypes, opt.depth > 0
    PROVE  Clear((shallow \cup PlanShallow.shallows) \ PlanShallow.unshallows)
  <1>1. opt.depth \in Nat /\ wants \subseteq Commit /\ KnownShallows = shallow
    BY AllKnown DEF FetchTypes
  <1>2. CASE opt.depth >= Infinite /\ KnownShallows # {}
    <2>1. PlanShallow.shallows = {} /\ PlanShallow.unshallows = KnownShallows
      BY <1>1, <1>2 DEF PlanShallow
    <2> QED BY <1>1, <2>1 DEF Clear
  <1>3. CASE opt.depth >= Infinite /\ KnownShallows = {}
    <2>1. GetShallowCommits(opt.depth) = {}
      BY <1>3 DEF GetShallowCommits
    <2>2. PlanShallow.shallows = {}
      BY <1>1, <1>3, <2>1 DEF PlanShallow
    <2> QED BY <1>1, <1>3, <2>2 DEF Clear
  <1>4. CASE ~ (opt.depth >= Infinite)
    <2> DEFINE boundary == GetShallowCommits(opt.depth)
    <2>1. /\ PlanShallow.shallows = boundary \ KnownShallows
          /\ PlanShallow.unshallows = (KnownShallows \cap Reach(wants, boundary)) \ boundary
      BY <1>1, <1>4 DEF PlanShallow, Unshallowed
    <2>2. ASSUME NEW k \in 1..(opt.depth - 1) PROVE Ball(wants, k) \cap boundary = {}
      <3>1. boundary = Ball(wants, opt.depth) \ Ball(wants, opt.depth - 1)
        BY <1>1, <1>4, <2>2 DEF GetShallowCommits
      <3>2. Ball(wants, k) \subseteq Ball(wants, opt.depth - 1)
        BY <1>1, <2>2, BallMonotone
      <3> QED BY <3>1, <3>2
    <2> HIDE DEF boundary
    <2>3. /\ wants \subseteq Reach(wants, boundary)
          /\ ParentClosed(Reach(wants, boundary), boundary)
      BY <1>1, ReachProperties
    <2>4. ASSUME NEW k \in 1..(opt.depth - 1) PROVE Ball(wants, k) \subseteq Reach(wants, boundary)
      <3>1. \A j \in 1..(opt.depth - 1) :
               \A c \in Ball(wants, j) \cap Reach(wants, boundary) :
                  Parents[c] \subseteq Reach(wants, boundary)
        BY <2>2, <2>3 DEF ParentClosed
      <3>2. k \in 1..opt.depth /\ opt.depth >= 1
        BY <1>1
      <3> QED BY <1>1, <2>3, <3>1, <3>2, BallWithin, Zenon
    <2> QED BY <1>1, <2>1, <2>2, <2>4 DEF Clear
  <1> QED BY <1>2, <1>3, <1>4

\* What the client needs and is not sent is in the history, down to the grafts, of
\* what it told the server: it has that.
LEMMA ResponseCloses ==
    ASSUME FetchTypes, ParentClosed(cObjs, shallow), opt.depth > 0 \/ shallow = {},
           NEW told \in SUBSET cObjs
    PROVE  LET objects == PlanObjects(PlanShallow, told)
               cut == (shallow \cup PlanShallow.shallows) \ PlanShallow.unshallows
           IN  ParentClosed(cObjs \cup objects, cut) /\ wants \subseteq cObjs \cup objects
  <1> DEFINE G == PlanShallow.grafts
             U == PlanShallow.unshallows
             X == UNION {Parents[c] : c \in U}
             T == told \cap sObjs
             S == Reach(wants \cup X, G)
             H == Reach(T, G)
             cut == (shallow \cup PlanShallow.shallows) \ U
  <1>1. /\ KnownShallows = shallow /\ shallow \subseteq G /\ U \subseteq shallow
        /\ G \subseteq shallow \cup PlanShallow.shallows
        /\ PlanShallow.shallows \cap U = {}
    BY PlanParts, AllKnown
  <1>2. U \subseteq Commit /\ wants \subseteq Commit /\ T \subseteq Commit /\ cObjs \subseteq Commit
    BY <1>1 DEF FetchTypes
  <1>3. X \subseteq Commit
    BY <1>2, ParentsAssumption
  <1>4. PlanObjects(PlanShallow, told) = S \ H
    BY DEF PlanObjects
  <1> HIDE DEF X
  <1>5. wants \cup X \in SUBSET Commit /\ T \in SUBSET Commit
    BY <1>2, <1>3
  <1>6. wants \cup X \subseteq S /\ ParentClosed(S, G)
    BY <1>5, ReachProperties
  <1>7. H \subseteq cObjs
    <2>1. ParentClosed(cObjs, G)
      BY <1>1 DEF ParentClosed
    <2>2. T \subseteq cObjs /\ cObjs \in SUBSET Commit
      BY <1>2
    <2> HIDE DEF G, T
    <2> QED BY <1>5, <2>1, <2>2, ReachProperties
  <1>8. \A c \in U : Parents[c] \subseteq X
    BY DEF X
  <1> HIDE DEF S, H, T, G, U
  <1>9. ASSUME NEW c \in (cObjs \cup (S \ H)) \ cut PROVE Parents[c] \subseteq cObjs \cup (S \ H)
    <2>1. CASE c \in U
      BY <1>6, <1>7, <1>8, <2>1
    <2>2. CASE c \notin U
      <3>1. c \notin shallow /\ c \notin PlanShallow.shallows /\ c \notin G
        BY <1>1, <1>9, <2>2
      <3>2. c \in cObjs => Parents[c] \subseteq cObjs
        BY <3>1 DEF ParentClosed
      <3>3. c \in S => Parents[c] \subseteq S
        BY <1>6, <3>1 DEF ParentClosed
      <3> QED BY <1>7, <1>9, <3>2, <3>3
    <2> QED BY <2>1, <2>2
  <1>10. wants \subseteq cObjs \cup (S \ H)
    BY <1>6, <1>7
  <1> QED BY <1>4, <1>9, <1>10 DEF ParentClosed, U

\* The server sends only commits it has.
LEMMA ResponseThere ==
    ASSUME FetchTypes, NEW told PROVE PlanObjects(PlanShallow, told) \subseteq sObjs
  <1> DEFINE G == PlanShallow.grafts
             X == UNION {Parents[c] : c \in PlanShallow.unshallows}
  <1>1. PlanShallow.unshallows \subseteq sObjs
    BY PlanParts DEF KnownShallows
  <1>2. \A c \in sObjs : Parents[c] \subseteq sObjs
    BY DEF FetchTypes, ParentClosed
  <1>3. wants \cup X \subseteq sObjs /\ sObjs \in SUBSET Commit
    BY <1>1, <1>2 DEF FetchTypes
  <1>4. ParentClosed(sObjs, G)
    BY <1>2 DEF ParentClosed
  <1>5. PlanObjects(PlanShallow, told) \subseteq Reach(wants \cup X, G)
    BY DEF PlanObjects
  <1> HIDE DEF X, G
  <1>6. wants \cup X \in SUBSET Commit
    BY <1>3
  <1> QED BY <1>3, <1>4, <1>5, <1>6, ReachProperties
-----------------------------------------------------------------------------
(* The steps.                                                               *)

LEMMA TipsOf ==
    ASSUME NEW refs \in [Name -> Value]
    PROVE  Tips(refs) \subseteq Commit /\ \A n \in Name : refs[n] \in Tips(refs) \cup {None}
  BY DEF Tips, Value

\* The tuples of the model.
LEMMA Groups ==
    /\ UNCHANGED server <=> UNCHANGED <<sRefs, sObjs, moves>>
    /\ UNCHANGED repo <=> UNCHANGED <<protocol, branch, track, cObjs, shallow, commits>>
    /\ UNCHANGED call <=> UNCHANGED <<opt, adv, wants, haves, neg, resp>>
    /\ UNCHANGED vars <=>
          /\ UNCHANGED server /\ UNCHANGED repo /\ UNCHANGED call
          /\ UNCHANGED <<pc, spoiled, fetches, faults>>
  BY DEF server, repo, call, vars

\* A closed set of commits holds the history of the references in it, and only then.
LEMMA HoldsHistory ==
    ASSUME NEW objs \in SUBSET Commit, NEW b \in Value, NEW refs \in [Name -> Value], NEW cut
    PROVE  LET tips == Tips(refs) \cup ({b} \ {None})
           IN /\ ParentClosed(objs, cut) /\ tips \subseteq objs => Reach(tips, cut) \subseteq objs
              /\ Reach(tips, cut) \subseteq objs => tips \subseteq objs
  <1> DEFINE tips == Tips(refs) \cup ({b} \ {None})
  <1>1. tips \in SUBSET Commit
    BY TipsOf DEF Value
  <1> HIDE DEF tips
  <1>2. tips \subseteq Reach(tips, cut)
    BY <1>1, ReachProperties
  <1>3. ParentClosed(objs, cut) /\ tips \subseteq objs => Reach(tips, cut) \subseteq objs
    BY <1>1, ReachProperties
  <1> QED BY <1>2, <1>3 DEF tips

LEMMA FetchAtInit == Init => FetchInv
  <1> SUFFICES ASSUME Init PROVE FetchInv
    OBVIOUS
  <1>1. sRefs \in [Name -> Value] /\ sObjs = Reach(Tips(sRefs), {})
    BY StartsAssumption DEF Init, Value, History
  <1>2. Tips(sRefs) \in SUBSET Commit
    BY <1>1, TipsOf
  <1>3. sObjs \subseteq Commit /\ Tips(sRefs) \subseteq sObjs /\ ParentClosed(sObjs, {})
    BY <1>1, <1>2, ReachProperties
  <1>4. NoRefs \in [Name -> Value] /\ Tips(NoRefs) = {}
    BY DEF NoRefs, Value, Tips
  <1>5. /\ NoOptions.depth = 0 /\ NoResponse.commits = {} /\ NoResponse.shallows = {}
        /\ NoResponse.unshallows = {} /\ NewNegotiation.common = {} /\ NewNegotiation.told = {}
        /\ {"common", "told"} \subseteq DOMAIN NewNegotiation
    BY DEF NoOptions, NoResponse, NewNegotiation
  <1>6. FetchTypes
    <2>1. spoiled \in BOOLEAN
      BY Zenon DEF Init
    <2>2. /\ pc = "idle" /\ opt = NoOptions /\ neg = NewNegotiation /\ resp = NoResponse
          /\ adv = NoRefs /\ track = NoRefs /\ branch = None
          /\ cObjs = {} /\ shallow = {} /\ wants = {} /\ haves = {}
      BY DEF Init
    <2> QED BY <1>1, <1>3, <1>4, <1>5, <2>1, <2>2 DEF FetchTypes, Value
  <1>7. ParentClosed(cObjs, shallow) /\ Tips(track) \cup ({branch} \ {None}) \subseteq cObjs
    BY <1>4 DEF Init, ParentClosed
  <1>8. HistoryComplete
    BY <1>6, <1>7, HoldsHistory DEF FetchTypes, HistoryComplete
  <1> QED BY <1>5, <1>6, <1>7, <1>8 DEF Init, FetchInv, WholeOK, DeepOK

\* Steps that leave the call and the client's repository alone.
LEMMA SameWhole ==
    ASSUME WholeOK, DeepOK,
           UNCHANGED <<pc, branch, track, cObjs, shallow, opt, adv, wants, resp, spoiled>>
    PROVE  WholeOK' /\ DeepOK'
  <1>1. HistoryComplete' = HistoryComplete
    BY DEF HistoryComplete
  <1>2. NewShallow' = NewShallow
    BY DEF NewShallow
  <1>4. Clear(NewShallow)' = Clear(NewShallow) /\ Clear(shallow)' = Clear(shallow)
    BY <1>2 DEF Clear
  <1>3. StoreOK' = StoreOK
    BY <1>2 DEF StoreOK, ParentClosed
  <1> QED BY <1>1, <1>2, <1>3, <1>4 DEF WholeOK, DeepOK

LEMMA MoveInv ==
    ASSUME FetchInv, NEW n \in Name, NEW x \in Value, ServerMoves(n, x) PROVE FetchInv'
  <1> DEFINE new == {x} \ {None}
             more == Reach(new, {})
  <1>1. /\ sRefs' = [sRefs EXCEPT ![n] = x] /\ sObjs' = sObjs \cup more
        /\ UNCHANGED <<pc, branch, track, cObjs, shallow, opt, adv, wants, haves, neg, resp, spoiled>>
    BY Groups DEF ServerMoves, History
  <1>2. FetchTypes
    BY DEF FetchInv
  <1>3. new \in SUBSET Commit
    BY DEF Value
  <1>4. more \subseteq Commit /\ new \subseteq more /\ ParentClosed(more, {})
    <2> HIDE DEF new
    <2> QED BY <1>3, ReachProperties
  <1>5. sRefs' \in [Name -> Value] /\ Tips(sRefs') \subseteq Tips(sRefs) \cup new
    BY <1>1, <1>2 DEF FetchTypes, Tips
  <1> HIDE DEF more, new
  <1>6. FetchTypes'
    BY <1>1, <1>2, <1>4, <1>5 DEF FetchTypes, ParentClosed
  <1> QED BY <1>1, <1>6, SameWhole DEF FetchInv

\* A call ends, or none is under way.
LEMMA IdleInv ==
    ASSUME FetchTypes', pc' = "idle", ~ spoiled' => HistoryComplete' /\ ParentClosed(cObjs, shallow)'
    PROVE  FetchInv'
  BY DEF FetchInv, WholeOK, DeepOK

LEMMA CommitInv ==
    ASSUME FetchInv, NEW x \in Commit, LocalCommit(x) PROVE FetchInv'
  <1>1. /\ pc' = "idle" /\ pc = "idle" /\ branch' = x /\ cObjs' = cObjs \cup {x}
        /\ x \in cObjs \/ Parents[x] \subseteq cObjs
        /\ UNCHANGED <<sRefs, sObjs, track, shallow, opt, adv, wants, haves, neg, resp, spoiled>>
    BY Groups DEF LocalCommit
  <1>2. FetchTypes /\ WholeOK
    BY DEF FetchInv
  <1>3. FetchTypes'
    BY <1>1, <1>2 DEF FetchTypes, Value, ParentClosed
  <1>4. ASSUME ~ spoiled PROVE HistoryComplete' /\ ParentClosed(cObjs, shallow)'
    <2>1. HistoryComplete /\ ParentClosed(cObjs, shallow)
      BY <1>1, <1>2, <1>4 DEF WholeOK
    <2>2. Tips(track) \subseteq cObjs
      BY <1>2, <2>1, HoldsHistory DEF FetchTypes, HistoryComplete
    <2>3. ParentClosed(cObjs', shallow')
      BY <1>1, <2>1 DEF ParentClosed
    <2>4. (Tips(track) \cup ({branch} \ {None}))' \subseteq cObjs'
      BY <1>1, <2>2
    <2>5. HistoryComplete'
      BY <1>3, <2>3, <2>4, HoldsHistory DEF FetchTypes, HistoryComplete
    <2> QED BY <2>3, <2>5
  <1> QED BY <1>1, <1>3, <1>4, IdleInv

LEMMA AdvertiseInv ==
    ASSUME FetchInv, NEW o \in Options, Advertise(o) PROVE FetchInv'
  <1>1. /\ pc = "idle" /\ pc' = "plan" /\ opt' = o /\ adv' = sRefs
        /\ UNCHANGED <<sRefs, sObjs, branch, track, cObjs, shallow, wants, haves, neg, resp, spoiled>>
    BY Groups DEF Advertise
  <1>2. FetchTypes /\ WholeOK /\ o.depth \in Nat
    BY DepthAssumption DEF FetchInv, Options
  <1>3. FetchTypes'
    BY <1>1, <1>2 DEF FetchTypes
  <1>4. HistoryComplete' = HistoryComplete /\ ParentClosed(cObjs, shallow)' = ParentClosed(cObjs, shallow)
    BY <1>1 DEF HistoryComplete
  <1> QED BY <1>1, <1>2, <1>3, <1>4 DEF FetchInv, WholeOK, DeepOK

\* getWants and getHaves, and the cases in which nothing need be asked for.
LEMMA PlanInv == ASSUME FetchInv, Plan PROVE FetchInv'
  <1>1. /\ pc = "plan" /\ wants' = GetWants /\ neg' = NewNegotiation /\ resp' = NoResponse
        /\ UNCHANGED <<sRefs, sObjs, branch, track, cObjs, shallow, opt, adv, spoiled>>
    BY Groups DEF Plan
  <1>2. FetchTypes /\ WholeOK
    BY DEF FetchInv
  <1>3. \/ GetWants = {} /\ haves' = {} /\ pc' = "refs"
        \/ /\ GetWants # {} /\ haves' \subseteq cObjs
           /\ pc' = IF NoChange(haves') THEN "refs" ELSE "negotiate"
    <2>1. \A h \in GetHaves : Usable(h) \subseteq cObjs
      BY DEF GetHaves, Usable
    <2> QED BY <2>1 DEF Plan
  <1>4. /\ GetWants \subseteq Tips(adv) /\ Tips(adv) \ GetWants \subseteq cObjs
        /\ shallow = {} => GetWants \cap cObjs = {}
    BY DEF GetWants
  <1>5. /\ NewNegotiation.common = {} /\ NewNegotiation.told = {}
        /\ {"common", "told"} \subseteq DOMAIN NewNegotiation
        /\ NoResponse.commits = {} /\ NoResponse.shallows = {} /\ NoResponse.unshallows = {}
    BY DEF NewNegotiation, NoResponse
  <1>6. FetchTypes'
    BY <1>1, <1>2, <1>3, <1>4, <1>5 DEF FetchTypes
  <1>7. pc' = "refs" => GetWants \subseteq cObjs /\ (opt.depth > 0 => GetWants = {})
    BY <1>2, <1>3, <1>4 DEF NoChange, UpShallows, FetchTypes
  <1>8. HistoryComplete' = HistoryComplete
    BY <1>1 DEF HistoryComplete
  <1>9. WholeOK'
    BY <1>1, <1>2, <1>3, <1>4, <1>7, <1>8 DEF WholeOK
  <1>10. DeepOK'
    BY <1>1, <1>3, <1>4, <1>7 DEF DeepOK
  <1> QED BY <1>6, <1>9, <1>10 DEF FetchInv

\* What the turns of both negotiations have in common: they tell the server of
\* commits the client has, and end with a pack or with nothing to fetch.
LEMMA TurnInv ==
    ASSUME FetchInv, pc = "negotiate", NEW told \in SUBSET cObjs, haves' \subseteq haves,
           UNCHANGED <<sRefs, sObjs, branch, track, cObjs, shallow, opt, adv, wants, spoiled>>,
           {"common", "told"} \subseteq DOMAIN neg', neg'.common \subseteq cObjs,
           neg'.told \subseteq cObjs,
           \/ SendPack(told)
           \/ UNCHANGED <<pc, resp>>
           \/ wants \subseteq cObjs /\ UpShallows = {} /\ pc' = "refs" /\ UNCHANGED resp
    PROVE  FetchInv'
  <1>1. FetchTypes /\ WholeOK /\ DeepOK
    BY DEF FetchInv
  <1>2. HistoryComplete' = HistoryComplete
    BY DEF HistoryComplete
  <1>3. CASE UNCHANGED <<pc, resp>>
    <2>1. FetchTypes'
      BY <1>1, <1>3 DEF FetchTypes
    <2> QED BY <1>1, <1>3, <2>1, SameWhole DEF FetchInv
  <1>4. CASE wants \subseteq cObjs /\ UpShallows = {} /\ pc' = "refs" /\ UNCHANGED resp
    <2>1. FetchTypes'
      BY <1>1, <1>4 DEF FetchTypes
    <2>2. WholeOK'
      BY <1>1, <1>2, <1>4 DEF WholeOK
    <2>3. ~ (opt.depth > 0)
      BY <1>1, <1>4 DEF DeepOK, UpShallows
    <2>4. DeepOK'
      BY <2>3 DEF DeepOK
    <2> QED BY <2>1, <2>2, <2>4 DEF FetchInv
  <1>5. CASE SendPack(told)
    <2> DEFINE cut == (shallow \cup PlanShallow.shallows) \ PlanShallow.unshallows
    <2>1. /\ resp'.commits = PlanObjects(PlanShallow, told) /\ resp'.shallows = PlanShallow.shallows
          /\ resp'.unshallows = PlanShallow.unshallows /\ pc' = "store"
      BY <1>5 DEF SendPack
    <2>2. NewShallow' = cut
      BY <2>1 DEF NewShallow
    <2>3. /\ resp'.commits \subseteq sObjs /\ resp'.shallows \subseteq sObjs
          /\ resp'.unshallows \subseteq sObjs
      BY <1>1, <2>1, PlanParts, ResponseThere DEF KnownShallows
    <2>4. FetchTypes'
      BY <1>1, <2>1, <2>3 DEF FetchTypes
    <2>5. ASSUME ~ spoiled PROVE StoreOK'
      <3>1. ParentClosed(cObjs, shallow) /\ Tips(adv) \ wants \subseteq cObjs
        BY <1>1, <2>5 DEF WholeOK
      <3>2. opt.depth > 0 \/ shallow = {} =>
               /\ ParentClosed(cObjs \cup resp'.commits, cut)
               /\ wants \subseteq cObjs \cup resp'.commits
        BY <1>1, <2>1, <3>1, ResponseCloses
      <3> HIDE DEF cut
      <3> QED BY <2>2, <3>1, <3>2 DEF StoreOK
    <2>6. WholeOK'
      BY <1>1, <1>2, <2>1, <2>5 DEF WholeOK
    <2>7. opt.depth > 0 => Clear(cut)
      BY <1>1, PlanNear
    <2> HIDE DEF cut
    <2>8. opt.depth > 0 => Clear(NewShallow)'
      BY <2>2, <2>7 DEF Clear
    <2>9. DeepOK'
      BY <2>1, <2>8 DEF DeepOK
    <2> QED BY <2>4, <2>6, <2>9 DEF FetchInv
  <1> QED BY <1>3, <1>4, <1>5

LEMMA StoreInv == ASSUME FetchInv, StorePack PROVE FetchInv'
  <1>1. /\ pc = "store" /\ pc' = "shallow" /\ cObjs' = cObjs \cup resp.commits
        /\ UNCHANGED <<sRefs, sObjs, branch, track, shallow, opt, adv, wants, haves, neg, resp>>
    BY Groups DEF StorePack
  <1>2. FetchTypes /\ WholeOK /\ DeepOK
    BY DEF FetchInv
  <1>3. spoiled' \in BOOLEAN /\ (~ spoiled' => ~ spoiled /\ (opt.depth > 0 \/ shallow = {}))
    <2>1. opt.depth # 0 => opt.depth > 0
      BY <1>2 DEF FetchTypes
    <2>2. spoiled' = (spoiled \/ (opt.depth = 0 /\ shallow # {}))
      BY DEF StorePack
    <2> QED BY <2>1, <2>2, Zenon
  <1>4. FetchTypes'
    BY <1>1, <1>2, <1>3 DEF FetchTypes
  <1>5. NewShallow' = NewShallow
    BY <1>1 DEF NewShallow
  <1>6. HistoryComplete => HistoryComplete'
    BY <1>1 DEF HistoryComplete
  <1>7. WholeOK'
    BY <1>1, <1>2, <1>3, <1>5, <1>6 DEF WholeOK, StoreOK
  <1>8. Clear(NewShallow)' = Clear(NewShallow)
    BY <1>1, <1>5 DEF Clear
  <1>9. DeepOK'
    BY <1>1, <1>2, <1>8 DEF DeepOK
  <1> QED BY <1>4, <1>7, <1>9 DEF FetchInv

LEMMA ShallowInv == ASSUME FetchInv, UpdateShallow PROVE FetchInv'
  <1>1. /\ pc = "shallow" /\ pc' = "refs" /\ shallow' = NewShallow
        /\ UNCHANGED <<sRefs, sObjs, branch, track, cObjs, opt, adv, wants, haves, neg, resp, spoiled>>
    BY Groups DEF UpdateShallow, NewShallow
  <1>2. FetchTypes /\ WholeOK /\ DeepOK
    BY DEF FetchInv
  <1>3. FetchTypes'
    BY <1>1, <1>2 DEF FetchTypes, NewShallow
  <1>4. ASSUME ~ spoiled PROVE HistoryComplete' /\ ParentClosed(cObjs, shallow)'
    <2>1. HistoryComplete /\ ParentClosed(cObjs, NewShallow)
      BY <1>1, <1>2, <1>4 DEF WholeOK
    <2>2. Tips(track) \cup ({branch} \ {None}) \subseteq cObjs
      BY <1>2, <2>1, HoldsHistory DEF FetchTypes, HistoryComplete
    <2>3. Reach(Tips(track) \cup ({branch} \ {None}), NewShallow) \subseteq cObjs
      BY <1>2, <2>1, <2>2, HoldsHistory DEF FetchTypes
    <2> QED BY <1>1, <2>1, <2>3 DEF HistoryComplete
  <1>5. WholeOK'
    BY <1>1, <1>2, <1>4 DEF WholeOK
  <1>6. Clear(NewShallow) => Clear(shallow)'
    BY <1>1 DEF Clear
  <1>7. DeepOK'
    BY <1>1, <1>2, <1>6 DEF DeepOK
  <1> QED BY <1>3, <1>5, <1>7 DEF FetchInv

\* What a call leaves when it ends.
LEMMA EndTypes ==
    ASSUME FetchTypes, opt' = NoOptions, adv' = NoRefs, wants' = {}, haves' = {},
           neg' = NewNegotiation, resp' = NoResponse, pc' = "idle", spoiled' \in BOOLEAN,
           track' \in [Name -> Value],
           UNCHANGED <<sRefs, sObjs, branch, cObjs, shallow>>
    PROVE  FetchTypes'
  <1>1. NoRefs \in [Name -> Value] /\ Tips(NoRefs) = {}
    BY DEF NoRefs, Value, Tips
  <1>2. /\ NoOptions.depth = 0 /\ NoResponse.commits = {} /\ NoResponse.shallows = {}
        /\ NoResponse.unshallows = {} /\ NewNegotiation.common = {} /\ NewNegotiation.told = {}
        /\ {"common", "told"} \subseteq DOMAIN NewNegotiation
    BY DEF NoOptions, NoResponse, NewNegotiation
  <1> QED BY <1>1, <1>2 DEF FetchTypes

LEMMA RefsInv ==
    ASSUME FetchInv, NEW names, NEW prune, UpdateRefs(names, prune) PROVE FetchInv'
  <1>1. /\ pc = "refs" /\ pc' = "idle" /\ opt' = NoOptions /\ adv' = NoRefs /\ wants' = {}
        /\ haves' = {} /\ neg' = NewNegotiation /\ resp' = NoResponse
        /\ UNCHANGED <<sRefs, sObjs, branch, cObjs, shallow, spoiled>>
    BY Groups DEF UpdateRefs
  <1>2. FetchTypes /\ WholeOK /\ adv \in [Name -> Value] /\ track \in [Name -> Value]
    BY DEF FetchInv, FetchTypes
  <1>3. \A n \in Name : Updated(n) \in {track[n], adv[n]}
    BY DEF Updated
  <1>4. track' \in [Name -> Value] /\ \A n \in Name : track'[n] \in {track[n], adv[n], None}
    BY <1>2, <1>3 DEF UpdateRefs, Value
  <1>5. FetchTypes'
    BY <1>1, <1>2, <1>4, EndTypes DEF FetchTypes
  <1>6. ASSUME ~ spoiled PROVE HistoryComplete' /\ ParentClosed(cObjs, shallow)'
    <2>1. HistoryComplete /\ ParentClosed(cObjs, shallow) /\ Tips(adv) \subseteq cObjs
      BY <1>1, <1>2, <1>6 DEF WholeOK
    <2>2. Tips(track) \cup ({branch} \ {None}) \subseteq cObjs
      BY <1>2, <2>1, HoldsHistory DEF FetchTypes, HistoryComplete
    <2>3. Tips(track') \subseteq Tips(track) \cup Tips(adv)
      BY <1>2, <1>4 DEF Tips
    <2>4. (Tips(track) \cup ({branch} \ {None}))' \subseteq cObjs'
      BY <1>1, <2>1, <2>2, <2>3
    <2>5. HistoryComplete'
      BY <1>1, <1>5, <2>1, <2>4, HoldsHistory DEF FetchTypes, HistoryComplete
    <2> QED BY <1>1, <2>1, <2>5
  <1> QED BY <1>1, <1>5, <1>6, IdleInv

LEMMA InterruptInv == ASSUME FetchInv, Interrupted PROVE FetchInv'
  <1>1. /\ pc \notin {"idle", "refs"} /\ pc' = "idle" /\ opt' = NoOptions /\ adv' = NoRefs
        /\ wants' = {} /\ haves' = {} /\ neg' = NewNegotiation /\ resp' = NoResponse
        /\ UNCHANGED <<sRefs, sObjs, branch, track, cObjs, shallow>>
    BY Groups DEF Interrupted
  <1>2. FetchTypes /\ WholeOK
    BY DEF FetchInv
  <1>3. spoiled' \in BOOLEAN /\ (~ spoiled' => ~ spoiled /\ (pc = "shallow" => resp.shallows = {}))
    BY <1>2 DEF Interrupted, FetchTypes
  <1>4. FetchTypes'
    BY <1>1, <1>2, <1>3, EndTypes DEF FetchTypes
  <1>5. ASSUME ~ spoiled' PROVE HistoryComplete' /\ ParentClosed(cObjs, shallow)'
    <2>1. HistoryComplete'
      BY <1>1, <1>2, <1>3, <1>5 DEF WholeOK, HistoryComplete
    <2>2. ParentClosed(cObjs, shallow)
      BY <1>2, <1>3, <1>5 DEF WholeOK, ParentClosed, NewShallow
    <2> QED BY <1>1, <2>1, <2>2
  <1> QED BY <1>1, <1>4, <1>5, IdleInv

\* One turn over a stream or HTTP.
LEMMA RoundV0Inv == ASSUME FetchInv, RoundV0 PROVE FetchInv'
  <1>1. /\ pc = "negotiate"
        /\ UNCHANGED <<sRefs, sObjs, branch, track, cObjs, shallow, opt, adv, wants, spoiled>>
    BY Groups DEF RoundV0
  <1>2. FetchTypes
    BY DEF FetchInv
  <1>3. PICK batch \in SUBSET haves :
           LET http == protocol = "http"
               sent == batch \cup (IF http /\ ~ neg.ready THEN neg.common ELSE {})
               vain == neg.inVain + Cardinality(batch)
               told == IF http THEN sent ELSE neg.told \cup sent
               common == AckCommon(sent)
           IN /\ haves' = haves \ batch
              /\ neg' = [inVain |-> IF sent # common \/ (http /\ ~ (common \subseteq neg.common))
                                    THEN 0 ELSE vain,
                         acked |-> neg.acked \/ sent # {},
                         ready |-> neg.ready \/ sent # common,
                         flush |-> NextFlush,
                         common |-> IF http THEN neg.common \cup common ELSE {},
                         told |-> told]
              /\ \/ wants \subseteq sent /\ UpShallows = {} /\ pc' = "refs" /\ UNCHANGED resp
                 \/ SendPack(told)
                 \/ UNCHANGED <<pc, resp>>
    BY Zenon DEF RoundV0, Batches, kSubset
  <1> DEFINE http == protocol = "http"
             sent == batch \cup (IF http /\ ~ neg.ready THEN neg.common ELSE {})
             told == IF http THEN sent ELSE neg.told \cup sent
  <1>4. batch \subseteq cObjs /\ sent \subseteq cObjs /\ told \subseteq cObjs /\ AckCommon(sent) \subseteq sent
    BY <1>2 DEF FetchTypes, AckCommon
  <1>5. /\ haves' \subseteq haves /\ {"common", "told"} \subseteq DOMAIN neg' /\ neg'.told = told
        /\ neg'.common = IF http THEN neg.common \cup AckCommon(sent) ELSE {}
    BY <1>3
  <1>6. \/ wants \subseteq sent /\ UpShallows = {} /\ pc' = "refs" /\ UNCHANGED resp
        \/ SendPack(told)
        \/ UNCHANGED <<pc, resp>>
    BY <1>3
  <1> HIDE DEF sent, told
  <1>7. neg'.common \subseteq cObjs /\ neg'.told \subseteq cObjs /\ told \in SUBSET cObjs
    BY <1>2, <1>4, <1>5 DEF FetchTypes
  <1>8. wants \subseteq sent => wants \subseteq cObjs
    BY <1>4
  <1> QED BY <1>1, <1>5, <1>6, <1>7, <1>8, TurnInv

\* One turn of protocol version 2.
LEMMA RoundV2Inv == ASSUME FetchInv, RoundV2 PROVE FetchInv'
  <1>1. /\ pc = "negotiate"
        /\ UNCHANGED <<sRefs, sObjs, branch, track, cObjs, shallow, opt, adv, wants, spoiled>>
    BY Groups DEF RoundV2
  <1>2. FetchTypes
    BY DEF FetchInv
  <1>3. PICK batch \in SUBSET haves :
           LET sent == neg.common \cup batch
               vain == neg.inVain + Cardinality(batch)
               last == DoneV2(batch, vain)
               acks == AcksV2(sent)
           IN /\ haves' = haves \ batch
              /\ neg' = [neg EXCEPT !.inVain = IF acks # {} /\ ~ last THEN 0 ELSE vain,
                                    !.acked = @ \/ (acks # {} /\ ~ last),
                                    !.common = IF last THEN @ ELSE @ \cup acks,
                                    !.flush = NextFlush,
                                    !.told = sent]
              /\ SendPack(sent) \/ UNCHANGED <<pc, resp>>
    BY Zenon DEF RoundV2, Batches, kSubset
  <1> DEFINE sent == neg.common \cup batch
  <1>4. batch \subseteq cObjs /\ sent \subseteq cObjs /\ AcksV2(sent) \subseteq sent
    BY <1>2 DEF FetchTypes, AcksV2
  <1>5. /\ haves' \subseteq haves /\ {"common", "told"} \subseteq DOMAIN neg' /\ neg'.told = sent
        /\ neg'.common \subseteq neg.common \cup AcksV2(sent)
    BY <1>2, <1>3 DEF FetchTypes
  <1>6. SendPack(sent) \/ UNCHANGED <<pc, resp>>
    BY <1>3
  <1> HIDE DEF sent
  <1>7. neg'.common \subseteq cObjs /\ neg'.told \subseteq cObjs /\ sent \in SUBSET cObjs
    BY <1>2, <1>4, <1>5 DEF FetchTypes
  <1> QED BY <1>1, <1>5, <1>6, <1>7, TurnInv

LEMMA FetchInductive == Spec => []FetchInv
  <1>1. FetchInv /\ [Next]_vars => FetchInv'
    <2> SUFFICES ASSUME FetchInv, [Next]_vars PROVE FetchInv'
      OBVIOUS
    <2>1. CASE UNCHANGED vars
      <3>1. FetchTypes'
        BY <2>1, Groups DEF FetchInv, FetchTypes
      <3> QED BY <2>1, <3>1, Groups, SameWhole DEF FetchInv
    <2>2. CASE Next
      BY <2>1, <2>2, MoveInv, CommitInv, AdvertiseInv, PlanInv, RoundV0Inv, RoundV2Inv, StoreInv,
         ShallowInv, RefsInv, InterruptInv
      DEF Next, Step, Quiet
    <2> QED BY <2>1, <2>2
  <1> QED BY <1>1, FetchAtInit, PTL DEF Spec

\* Types: the client offers only commits it has, the server sends only commits it has.
THEOREM FetchTypeCorrect == Spec => []TypeOK
  <1>1. FetchInv => TypeOK
    BY DEF FetchInv, FetchTypes, TypeOK
  <1> QED BY <1>1, FetchInductive, PTL

(***************************************************************************)
(* After any sequence of fetches, full or shallow, over either protocol,   *)
(* every reference of the client has its whole history up to the shallow   *)
(* commits, also when Remote.fetch stops between storing the pack and the  *)
(* references. The two cases "spoiled" marks are excepted: a shallow clone *)
(* fetched without a depth, and a call that stops after the pack and before *)
(* the shallow file that belongs to it.                                    *)
(***************************************************************************)
THEOREM HistoriesStayComplete == Spec => []FetchCompletes
  <1>1. FetchInv => FetchCompletes
    BY DEF FetchInv, WholeOK, FetchCompletes
  <1> QED BY <1>1, FetchInductive, PTL

(***************************************************************************)
(* A fetch with a depth leaves the client with every commit that is fewer  *)
(* than that many steps from the references it fetched, whatever it was    *)
(* shallow at before (unless spoiled, as above): the plan the server makes *)
(* of the depth reaches it.                                                *)
(***************************************************************************)
THEOREM DepthsAreServed == Spec => []DepthServed
  <1> DEFINE distance == Min({opt.depth, Cardinality(Commit) + 1})
  <1>1. ASSUME FetchInv, pc = "refs", wants # {}, opt.depth > 0, ~ spoiled
        PROVE  /\ Ball(wants, distance) \subseteq cObjs
               /\ opt.depth > 1 => Ball(wants, distance - 1) \cap shallow = {}
    <2>1. /\ opt.depth \in Nat /\ wants \subseteq cObjs /\ ParentClosed(cObjs, shallow)
          /\ Clear(shallow) /\ wants \subseteq Commit
      BY <1>1 DEF FetchInv, FetchTypes, WholeOK, DeepOK
    <2>2. Cardinality(Commit) \in Nat /\ Cardinality(Commit) # 0
      BY <1>1, <2>1, FiniteAssumption, FS_CardinalityType, FS_EmptySet
    <2>3. /\ distance \in 1..opt.depth /\ distance \in Nat
          /\ opt.depth > 1 => distance - 1 \in 1..(opt.depth - 1)
      <3> DEFINE S == {opt.depth, Cardinality(Commit) + 1}
      <3>1. \E x \in S : \A y \in S : x =< y
        BY <2>1, <2>2
      <3>2. distance \in S /\ \A y \in S : distance =< y
        BY <3>1 DEF Min
      <3> HIDE DEF distance
      <3> QED BY <1>1, <2>1, <2>2, <3>2
    <2> HIDE DEF distance
    <2>4. \A j \in 1..(opt.depth - 1) : \A c \in Ball(wants, j) \cap cObjs : Parents[c] \subseteq cObjs
      BY <2>1 DEF Clear, ParentClosed
    <2>5. opt.depth >= 1
      BY <1>1, <2>1
    <2>6. Ball(wants, distance) \subseteq cObjs
      BY <2>1, <2>3, <2>4, <2>5, BallWithin, Zenon
    <2> QED BY <2>1, <2>3, <2>6 DEF Clear
  <1>2. FetchInv => DepthServed
    BY <1>1 DEF DepthServed
  <1> QED BY <1>2, FetchInductive, PTL

-----------------------------------------------------------------------------
(* PackStream, for packs and streams of every length and every interleaving *)
(* of the caller and the goroutine.                                         *)
(*                                                                          *)
(* None of its properties is inductive.  StreamInv adds what ties the       *)
(* shared counters to the file: read is the position of the descriptor      *)
(* outside a Read, written is the size of the file outside a Write; and     *)
(* what ties the flags to the program counters: blocked is set only while   *)
(* the goroutine is at the receive, done and closed only in the             *)
(* corresponding part of Close.                                             *)

\* Close is under way or has returned.
Closing == {"closing", "wait", "truncate", "save", "cleaned", "failed"}

\* read follows the descriptor and the parser the descriptor.
Position ==
    /\ rpc = "count" => read + rn = pos
    /\ rpc # "count" => read = pos /\ pos <= seen
    /\ wpc # "save" => pos <= size /\ seen <= size

\* written follows the file.
Length ==
    /\ wpc = "add" => written + wn = size
    /\ wpc \notin {"add", "save"} => written = size

\* The flags of Close.
ClosedFlags ==
    /\ done => wpc \in Closing
    /\ closed => wpc \in Closing \ {"closing"}

\* A set blocked flag means a goroutine at the receive, until Close.
BlockedFlag ==
    /\ blocked /\ ~closed => rpc = "receive"
    /\ wpc = "unblock" => rpc = "receive"
    /\ wpc = "send" => rpc = "receive" /\ ~blocked

\* Where io.EOF can be on its way to the parser.
EndOfFile ==
    /\ rpc = "eof" => rn = 0
    /\ rpc \in {"count", "parse"} /\ rn = 0 => done
    /\ verdict \in {"truncated", "empty"} => done

\* The verdict, and what Close makes of it.
Verdict ==
    /\ rpc \notin {"report", "end"} => verdict = "none"
    /\ verdict = "ok" => seen >= PackSize
    /\ wpc \in {"truncate", "save"} => verdict = "ok" /\ rpc = "end"
    /\ wpc = "save" => size = PackSize

StreamInv == StreamTypeOK /\ Position /\ Length /\ ClosedFlags /\ BlockedFlag /\ EndOfFile /\ Verdict

-----------------------------------------------------------------------------
LEMMA StreamInitInv == StreamInit => StreamInv
<1> SUFFICES ASSUME StreamInit PROVE StreamInv
  OBVIOUS
<1>1. blocked \in BOOLEAN /\ done \in BOOLEAN /\ closed \in BOOLEAN
  BY Zenon DEF StreamInit
<1>2. ~blocked /\ ~done /\ ~closed
  BY Zenon DEF StreamInit
<1>3. StreamTypeOK
  BY <1>1, StreamAssumption DEF StreamAssumption, StreamInit, StreamTypeOK
<1>4. Position /\ Length /\ EndOfFile /\ Verdict
  BY <1>2 DEF StreamInit, Position, Length, EndOfFile, Verdict
<1>5. ClosedFlags /\ BlockedFlag
  BY <1>2 DEF StreamInit, ClosedFlags, BlockedFlag
<1> QED BY <1>3, <1>4, <1>5 DEF StreamInv

LEMMA WriteInv ==
    ASSUME StreamInv, (\E n \in 0 .. MaxStream : WriteFile(n)) \/ SetDone \/ WriteStep
    PROVE  StreamInv'
<1> USE StreamAssumption DEF StreamAssumption, StreamInv, StreamTypeOK, Position, Length, ClosedFlags, BlockedFlag,
        EndOfFile, Verdict, Closing, counters, caller, builder
<1>1. ASSUME NEW n \in 0 .. MaxStream, WriteFile(n) PROVE StreamInv'
  BY <1>1 DEF WriteFile
<1>2. CASE SetDone
  BY <1>2 DEF SetDone
<1>3. CASE AddWritten
  BY <1>3 DEF AddWritten
<1>4. CASE CompareRead
  BY <1>4 DEF CompareRead
<1>5. CASE Wake
  BY <1>5 DEF Wake
<1>6. CASE Unblock
  BY <1>6 DEF Unblock
<1>7. CASE Send
  BY <1>7 DEF Send
<1> QED BY <1>1, <1>2, <1>3, <1>4, <1>5, <1>6, <1>7 DEF WriteStep

LEMMA CloseInv ==
    ASSUME StreamInv, CloseStep \/ CloseFails
    PROVE  StreamInv'
<1> USE StreamAssumption DEF StreamAssumption, StreamInv, StreamTypeOK, Position, Length, ClosedFlags, BlockedFlag,
        EndOfFile, Verdict, Closing, counters, caller, builder
<1>1. CASE CloseNews
  BY <1>1 DEF CloseNews
<1>2. CASE WaitBuildIndex
  BY <1>2 DEF WaitBuildIndex
<1>3. CASE Truncate
  BY <1>3 DEF Truncate
<1>4. CASE CloseFails
  BY <1>4 DEF CloseFails
<1> QED BY <1>1, <1>2, <1>3, <1>4 DEF CloseStep

LEMMA BuildInv ==
    ASSUME StreamInv, Build
    PROVE  StreamInv'
<1> USE StreamAssumption DEF StreamAssumption, StreamInv, StreamTypeOK, Position, Length, ClosedFlags, BlockedFlag,
        EndOfFile, Verdict, Closing, counters, caller, builder
<1>1. CASE Sleep
  BY <1>1 DEF Sleep
<1>2. CASE Block
  BY <1>2 DEF Block
<1>3. CASE ReceiveClosed
  BY <1>3 DEF ReceiveClosed
<1>4. ASSUME NEW n \in 1 .. MaxStream, ReadFile(n) PROVE StreamInv'
  BY <1>4 DEF ReadFile
<1>5. CASE ReadEOF
  BY <1>5 DEF ReadEOF
<1>6. CASE CheckDone
  BY <1>6 DEF CheckDone
<1>7. CASE Count
  BY <1>7 DEF Count
<1>8. CASE NeedMore
  BY <1>8 DEF NeedMore
<1>9. CASE ParseEOF
  BY <1>9 DEF ParseEOF, Report
<1>10. CASE ParseOK
  BY <1>10 DEF ParseOK, Report
<1>11. CASE ParseError
  BY <1>11 DEF ParseError, Report
<1>12. ASSUME NEW p \in 0 .. PackSize - 1, SeekStart(p) PROVE StreamInv'
  BY <1>12 DEF SeekStart
<1> QED BY <1>1, <1>2, <1>3, <1>4, <1>5, <1>6, <1>7, <1>8, <1>9, <1>10, <1>11, <1>12
        DEF Build, Parse

\* StreamInv holds in every reachable state.
THEOREM StreamInductive == StreamSpec => []StreamInv
<1>1. StreamInv /\ [StreamNext]_streamVars => StreamInv'
  <2> SUFFICES ASSUME StreamInv, [StreamNext]_streamVars PROVE StreamInv'
    OBVIOUS
  <2>1. CASE UNCHANGED streamVars
    BY <2>1 DEF StreamInv, StreamTypeOK, Position, Length, ClosedFlags, BlockedFlag, EndOfFile,
       Verdict, Closing, streamVars, counters, caller, builder
  <2>2. CASE StreamNext
    BY <2>1, <2>2, WriteInv, CloseInv, BuildInv DEF StreamNext, Finished
  <2> QED BY <2>1, <2>2
<1> QED BY <1>1, StreamInitInv, PTL DEF StreamSpec

\* Every variable of the receiving PackWriter has its type, and neither read nor
\* written runs past the bytes the caller wrote.
THEOREM StreamTypeCorrect == StreamSpec => []StreamTypeOK
BY StreamInductive, PTL DEF StreamInv

\* syncedReader.Read returns io.EOF only after Close.
THEOREM EOFCorrect == StreamSpec => []EOFOnlyWhenDone
<1>1. StreamInv => EOFOnlyWhenDone
  BY DEF StreamInv, EndOfFile, EOFOnlyWhenDone
<1> QED BY <1>1, StreamInductive, PTL

\* wake never sends without a receiver and never on the closed channel, so a
\* Write cannot hang on a parser that has ended.
THEOREM SendCorrect == StreamSpec => []SendHasReceiver
<1>1. StreamInv => SendHasReceiver
  BY DEF StreamInv, BlockedFlag, ClosedFlags, Closing, SendHasReceiver
<1> QED BY <1>1, StreamInductive, PTL

\* The file Close passes to save holds exactly the pack.
THEOREM SavedCorrect == StreamSpec => []SavedPackIsExact
<1>1. StreamInv => SavedPackIsExact
  BY DEF StreamInv, Verdict, SavedPackIsExact
<1> QED BY <1>1, StreamInductive, PTL

-----------------------------------------------------------------------------
(* PackSave, for any number of writers and tries.  The invariants say what  *)
(* each stage of save may rely on: a writer that is past a sidecar file     *)
(* knows something about that file, whatever the other writers did since,   *)
(* unless two saves met on it.                                              *)

\* The stages after the reverse index has been dealt with, and after the index.
AfterRev == {"pack", "marker", "createMarker", "writeMarker", "rename"}
AfterIdx == AfterRev \cup {"rev", "createRev", "encodeRev"}
MarkerStage == {"marker", "createMarker", "writeMarker"}
Stage == AfterIdx \cup {"idle", "idx", "createIdx", "encodeIdx", "saved", "failed"}

\* The shape of the state of the saves.
SaveTypes ==
    /\ idx \in {"none", "partial", "full"}
    /\ rev \in {"none", "partial", "full"}
    /\ marker \in {"none", "partial", "full"}
    /\ pack \in BOOLEAN /\ mixed \in BOOLEAN
    /\ temp \subseteq Writer /\ promisor \subseteq Writer /\ found \subseteq Writer
    /\ placedBy \subseteq Writer /\ alone \subseteq Writer
    /\ at \in [Writer -> Stage]
    /\ tries \in [Writer -> Nat]

\* No two saves having met, a sidecar file is complete once a writer is past
\* it, and both are once the pack is in place.
SidecarsComplete ==
    ~mixed =>
        /\ pack => idx = "full" /\ (WriteRev => rev = "full")
        /\ \A w \in Writer :
              /\ at[w] \in AfterIdx => idx = "full"
              /\ at[w] \in AfterRev /\ WriteRev => rev = "full"

\* What a writer near the end of save knows of the pack and its marker.
MarkerFirst ==
    \A w \in Writer :
        /\ w \in placedBy => at[w] = "saved" /\ (w \in promisor => marker # "none")
        /\ at[w] = "writeMarker" => marker # "none"
        /\ (at[w] = "rename" /\ w \in promisor /\ w \notin found) => marker # "none"

\* An index file is there from the first writer past it on; a writer that found
\* the pack, or that returned, leaves it in place.
PackStays ==
    \A w \in Writer :
        /\ at[w] \in AfterIdx => idx # "none"
        /\ at[w] \in MarkerStage \cup {"rename"} /\ w \in found => pack
        /\ at[w] = "saved" => pack /\ idx # "none" /\ w \notin temp

\* A save that is alone has seen everything that happened to the pack since it
\* began: while it deals with the marker the pack is not in place.
AloneSees ==
    \A w \in alone :
        /\ alone = {w}
        /\ w \in Active => Active = {w}
        /\ at[w] \in MarkerStage => ~pack

SaveInv == SaveTypes /\ SidecarsComplete /\ MarkerFirst /\ PackStays /\ AloneSees
-----------------------------------------------------------------------------
\* The invariant holds before the first save.
LEMMA SaveAtInit == SaveInit => SaveInv
  <1> SUFFICES ASSUME SaveInit PROVE SaveInv
    OBVIOUS
  <1>1. SaveTypes
    BY DEF SaveInit, SaveTypes, Stage, AfterIdx, AfterRev
  <1>2. SidecarsComplete /\ MarkerFirst
    BY DEF SaveInit, SidecarsComplete, MarkerFirst, AfterIdx, AfterRev
  <1>3. PackStays /\ AloneSees
    BY DEF SaveInit, PackStays, AloneSees, AfterIdx, AfterRev, MarkerStage
  <1> QED BY <1>1, <1>2, <1>3 DEF SaveInv

\* Every step of the saves keeps the types.
LEMMA TypesStep == SaveInv /\ [SaveNext]_saveVars => SaveTypes'
  <1> SUFFICES ASSUME SaveInv, [SaveNext]_saveVars PROVE SaveTypes'
    OBVIOUS
  <1> USE DEF SaveInv, SaveTypes, Stage, AfterIdx, AfterRev, GoTo, files, history
  <1>1. ASSUME NEW w \in Writer, Begin(w) PROVE SaveTypes'
    BY <1>1 DEF Begin
  <1>2. ASSUME NEW w \in Writer, SaveStep(w) PROVE SaveTypes'
    <2>1. CASE CheckIdx(w) \/ CreateIdx(w) \/ EncodeIdx(w)
      BY <2>1 DEF CheckIdx, CreateIdx, EncodeIdx, NextAfterIdx
    <2>2. CASE CheckRev(w) \/ CreateRev(w) \/ EncodeRev(w)
      BY <2>2 DEF CheckRev, CreateRev, EncodeRev
    <2>3. CASE CheckPack(w) \/ CheckMarker(w) \/ CreateMarker(w) \/ WriteMarker(w)
      BY <2>3 DEF CheckPack, CheckMarker, CreateMarker, WriteMarker
    <2>4. CASE CleanTemp(w) \/ RenamePack(w)
      BY <2>4 DEF CleanTemp, RenamePack
    <2> QED BY <1>2, <2>1, <2>2, <2>3, <2>4 DEF SaveStep
  <1>3. ASSUME NEW w \in Writer, Fail(w) PROVE SaveTypes'
    BY <1>3 DEF Fail
  <1>4. CASE UNCHANGED saveVars
    BY <1>4 DEF saveVars
  <1> QED BY <1>1, <1>2, <1>3, <1>4 DEF SaveNext, Done

\* A sidecar file is never made incomplete once somebody relies on it, unless
\* that is recorded as two saves meeting on it.
LEMMA SidecarsStep == SaveInv /\ [SaveNext]_saveVars => SidecarsComplete'
  <1> SUFFICES ASSUME SaveInv, [SaveNext]_saveVars PROVE SidecarsComplete'
    OBVIOUS
  <1> USE SaveAssumption
      DEF SaveInv, SaveTypes, SidecarsComplete, Stage, AfterIdx, AfterRev, GoTo,
          files, history
  <1>1. ASSUME NEW w \in Writer, Begin(w) PROVE SidecarsComplete'
    BY <1>1 DEF Begin
  <1>2. ASSUME NEW w \in Writer, SaveStep(w) PROVE SidecarsComplete'
    <2>1. CASE CheckIdx(w)
      BY <2>1 DEF CheckIdx, NextAfterIdx
    <2>2. CASE CreateIdx(w)
      BY <2>2 DEF CreateIdx
    <2>3. CASE EncodeIdx(w)
      BY <2>3 DEF EncodeIdx, NextAfterIdx
    <2>4. CASE CheckRev(w)
      BY <2>4 DEF CheckRev
    <2>5. CASE CreateRev(w)
      BY <2>5 DEF CreateRev
    <2>6. CASE EncodeRev(w)
      BY <2>6 DEF EncodeRev
    <2>7. CASE CheckPack(w) \/ CheckMarker(w) \/ CreateMarker(w) \/ WriteMarker(w)
      BY <2>7 DEF CheckPack, CheckMarker, CreateMarker, WriteMarker
    <2>8. CASE CleanTemp(w) \/ RenamePack(w)
      BY <2>8 DEF CleanTemp, RenamePack
    <2> QED BY <1>2, <2>1, <2>2, <2>3, <2>4, <2>5, <2>6, <2>7, <2>8 DEF SaveStep
  <1>3. ASSUME NEW w \in Writer, Fail(w) PROVE SidecarsComplete'
    BY <1>3 DEF Fail
  <1>4. CASE UNCHANGED saveVars
    BY <1>4 DEF saveVars
  <1> QED BY <1>1, <1>2, <1>3, <1>4 DEF SaveNext, Done

\* The marker comes before the pack it marks.
LEMMA MarkerStep == SaveInv /\ [SaveNext]_saveVars => MarkerFirst'
  <1> SUFFICES ASSUME SaveInv, [SaveNext]_saveVars PROVE MarkerFirst'
    OBVIOUS
  <1> USE DEF SaveInv, SaveTypes, MarkerFirst, Stage, AfterIdx, AfterRev, GoTo,
          files, history
  <1>1. ASSUME NEW w \in Writer, Begin(w) PROVE MarkerFirst'
    BY <1>1 DEF Begin
  <1>2. ASSUME NEW w \in Writer, SaveStep(w) PROVE MarkerFirst'
    <2>1. CASE CheckIdx(w) \/ CreateIdx(w) \/ EncodeIdx(w)
      BY <2>1 DEF CheckIdx, CreateIdx, EncodeIdx, NextAfterIdx
    <2>2. CASE CheckRev(w) \/ CreateRev(w) \/ EncodeRev(w)
      BY <2>2 DEF CheckRev, CreateRev, EncodeRev
    <2>3. CASE CheckPack(w)
      BY <2>3 DEF CheckPack
    <2>4. CASE CheckMarker(w) \/ CreateMarker(w) \/ WriteMarker(w)
      BY <2>4 DEF CheckMarker, CreateMarker, WriteMarker
    <2>5. CASE CleanTemp(w)
      BY <2>5 DEF CleanTemp
    <2>6. CASE RenamePack(w)
      BY <2>6 DEF RenamePack
    <2> QED BY <1>2, <2>1, <2>2, <2>3, <2>4, <2>5, <2>6 DEF SaveStep
  <1>3. ASSUME NEW w \in Writer, Fail(w) PROVE MarkerFirst'
    BY <1>3 DEF Fail, Active
  <1>4. CASE UNCHANGED saveVars
    BY <1>4 DEF saveVars
  <1> QED BY <1>1, <1>2, <1>3, <1>4 DEF SaveNext, Done

\* What is in place stays in place.
LEMMA StaysStep == SaveInv /\ [SaveNext]_saveVars => PackStays'
  <1> SUFFICES ASSUME SaveInv, [SaveNext]_saveVars PROVE PackStays'
    OBVIOUS
  <1> USE DEF SaveInv, SaveTypes, PackStays, Stage, AfterIdx, AfterRev, MarkerStage, GoTo,
          files, history
  <1>1. ASSUME NEW w \in Writer, Begin(w) PROVE PackStays'
    BY <1>1 DEF Begin
  <1>2. ASSUME NEW w \in Writer, SaveStep(w) PROVE PackStays'
    <2>1. CASE CheckIdx(w)
      BY <2>1 DEF CheckIdx, NextAfterIdx
    <2>2. CASE CreateIdx(w) \/ EncodeIdx(w)
      BY <2>2 DEF CreateIdx, EncodeIdx, NextAfterIdx
    <2>3. CASE CheckRev(w) \/ CreateRev(w) \/ EncodeRev(w)
      BY <2>3 DEF CheckRev, CreateRev, EncodeRev
    <2>4. CASE CheckPack(w)
      BY <2>4 DEF CheckPack
    <2>5. CASE CheckMarker(w) \/ CreateMarker(w) \/ WriteMarker(w)
      BY <2>5 DEF CheckMarker, CreateMarker, WriteMarker
    <2>6. CASE CleanTemp(w) \/ RenamePack(w)
      BY <2>6 DEF CleanTemp, RenamePack
    <2> QED BY <1>2, <2>1, <2>2, <2>3, <2>4, <2>5, <2>6 DEF SaveStep
  <1>3. ASSUME NEW w \in Writer, Fail(w) PROVE PackStays'
    BY <1>3 DEF Fail
  <1>4. CASE UNCHANGED saveVars
    BY <1>4 DEF saveVars
  <1> QED BY <1>1, <1>2, <1>3, <1>4 DEF SaveNext, Done

\* A step inside a save changes no other writer's stage and starts no save.
LEMMA StepStaysActive ==
  ASSUME SaveInv, NEW w \in Writer, SaveStep(w) \/ Fail(w)
  PROVE /\ w \in Active /\ Active' \subseteq Active /\ alone' = alone
        /\ \A v \in Writer \ {w} : at'[v] = at[v]
  <1> USE DEF SaveInv, SaveTypes, Stage, AfterIdx, AfterRev, GoTo, history, Active
  <1>1. CASE CheckIdx(w) \/ CreateIdx(w) \/ EncodeIdx(w)
    BY <1>1 DEF CheckIdx, CreateIdx, EncodeIdx
  <1>2. CASE CheckRev(w) \/ CreateRev(w) \/ EncodeRev(w)
    BY <1>2 DEF CheckRev, CreateRev, EncodeRev
  <1>3. CASE CheckPack(w) \/ CheckMarker(w) \/ CreateMarker(w) \/ WriteMarker(w)
    BY <1>3 DEF CheckPack, CheckMarker, CreateMarker, WriteMarker
  <1>4. CASE CleanTemp(w) \/ RenamePack(w)
    BY <1>4 DEF CleanTemp, RenamePack
  <1>5. CASE Fail(w)
    BY <1>5 DEF Fail
  <1> QED BY <1>1, <1>2, <1>3, <1>4, <1>5 DEF SaveStep

\* The lone save stays the only one that can move.
LEMMA AloneStep == SaveInv /\ [SaveNext]_saveVars => AloneSees'
  <1> SUFFICES ASSUME SaveInv, [SaveNext]_saveVars PROVE AloneSees'
    OBVIOUS
  <1>1. ASSUME NEW w \in Writer, Begin(w) PROVE AloneSees'
    BY <1>1 DEF Begin, SaveInv, SaveTypes, AloneSees, Stage, AfterIdx, AfterRev,
       MarkerStage, GoTo, Active
  <1>2. ASSUME NEW w \in Writer, SaveStep(w) \/ Fail(w) PROVE AloneSees'
    <2>1. SUFFICES ASSUME NEW v \in alone, alone' = alone
          PROVE /\ alone = {v}
                /\ v \in Active' => Active' = {v}
                /\ at'[v] \in MarkerStage => ~pack'
      BY <1>2, StepStaysActive DEF AloneSees
    <2>2. alone = {v} /\ v \in Writer
      BY DEF SaveInv, SaveTypes, AloneSees
    <2>3. v \in Active' => Active' = {v}
      BY <1>2, StepStaysActive DEF SaveInv, AloneSees
    <2>4. at'[v] \in MarkerStage => ~pack'
      <3> SUFFICES ASSUME at'[v] \in MarkerStage PROVE ~pack'
        OBVIOUS
      <3>1. v \in Active'
        BY <2>2 DEF Active, MarkerStage
      <3>2. w = v
        BY <1>2, <3>1, StepStaysActive DEF SaveInv, AloneSees
      <3>3. ASSUME at[v] \in MarkerStage PROVE ~pack
        BY <3>3 DEF SaveInv, AloneSees
      <3>4. CASE Fail(w)
        BY <1>2, <3>2, <3>4 DEF Fail, GoTo, SaveInv, SaveTypes, MarkerStage
      <3>5. CASE CheckPack(w)
        BY <3>2, <3>5 DEF CheckPack, GoTo, SaveInv, SaveTypes, MarkerStage, files
      <3>6. CASE CheckMarker(w) \/ CreateMarker(w) \/ WriteMarker(w)
        BY <3>2, <3>3, <3>6 DEF CheckMarker, CreateMarker, WriteMarker, GoTo, SaveInv,
           SaveTypes, MarkerStage, files
      <3>7. CASE CheckIdx(w) \/ CreateIdx(w) \/ EncodeIdx(w) \/ CheckRev(w)
                 \/ CreateRev(w) \/ EncodeRev(w) \/ CleanTemp(w) \/ RenamePack(w)
        BY <3>2, <3>7 DEF CheckIdx, CreateIdx, EncodeIdx, CheckRev, CreateRev,
           EncodeRev, CleanTemp, RenamePack, NextAfterIdx, GoTo, SaveInv, SaveTypes,
           MarkerStage
      <3> QED BY <1>2, <3>4, <3>5, <3>6, <3>7 DEF SaveStep
    <2> QED BY <2>2, <2>3, <2>4
  <1>3. CASE UNCHANGED saveVars
    BY <1>3 DEF saveVars, history, files, SaveInv, AloneSees, Active
  <1> QED BY <1>1, <1>2, <1>3 DEF SaveNext, Done

\* The invariant of the saves, in every behaviour.
LEMMA SaveInvariant == SaveSpec => []SaveInv
  <1>1. SaveInv /\ [SaveNext]_saveVars => SaveInv'
    BY TypesStep, SidecarsStep, MarkerStep, StaysStep, AloneStep DEF SaveInv
  <1> QED BY SaveAtInit, <1>1, PTL DEF SaveSpec
-----------------------------------------------------------------------------
(***************************************************************************)
(* PackWriter.save never shows a pack whose index or reverse index is      *)
(* missing or half written, at any step and after any crash, for any       *)
(* number of writers of the same pack, unless two saves met on one sidecar *)
(* file.                                                                   *)
(***************************************************************************)
THEOREM PacksAreVisibleComplete == SaveSpec => []VisibleIsComplete
  <1>1. SaveInv => VisibleIsComplete
    BY DEF SaveInv, SidecarsComplete, VisibleIsComplete
  <1> QED BY SaveInvariant, <1>1, PTL

(***************************************************************************)
(* save writes the promisor marker before it renames the pack: no crash    *)
(* and no other writer can leave a promisor's pack in place unmarked.      *)
(***************************************************************************)
THEOREM PromisorPacksAreMarked == SaveSpec => []PromisorMarked
  <1>1. SaveInv => PromisorMarked
    BY DEF SaveInv, SaveTypes, MarkerFirst, PromisorMarked
  <1> QED BY SaveInvariant, <1>1, PTL

(***************************************************************************)
(* A save that returned nil leaves the pack in place, an index beside it   *)
(* and no temporary file, whatever the other writers do.                   *)
(***************************************************************************)
THEOREM SavedPacksStay == SaveSpec => []SavedIsVisible
  <1>1. SaveInv => SavedIsVisible
    BY DEF SaveInv, PackStays, SavedIsVisible
  <1> QED BY SaveInvariant, <1>1, PTL

(***************************************************************************)
(* An identical pack already on disk is left as it is, marked or not, by   *)
(* every save that no other save overlaps.                                 *)
(***************************************************************************)
THEOREM DuplicatesStayUnmarked == SaveSpec => DuplicateUnmarked
  <1> DEFINE Unmarked == pack /\ marker' # marker => \E w \in Active : w \notin alone
  <1>1. SaveInv /\ [SaveNext]_saveVars => [Unmarked]_saveVars
    <2> SUFFICES ASSUME SaveInv, SaveNext, pack, marker' # marker
                 PROVE \E w \in Active : w \notin alone
      OBVIOUS
    <2>1. PICK w \in Writer : SaveStep(w) \/ Begin(w) \/ Fail(w)
      BY DEF SaveNext, Done, saveVars, files
    <2>2. CreateMarker(w) \/ WriteMarker(w)
      BY <2>1 DEF SaveStep, Begin, Fail, CheckIdx, CreateIdx, EncodeIdx, CheckRev,
         CreateRev, EncodeRev, CheckPack, CheckMarker, CleanTemp, RenamePack, files
    <2>3. at[w] \in MarkerStage /\ w \in Active
      BY <2>2 DEF CreateMarker, WriteMarker, MarkerStage, Active
    <2> QED BY <2>3 DEF SaveInv, AloneSees
  <1> QED BY SaveInvariant, <1>1, PTL DEF SaveSpec, DuplicateUnmarked

-----------------------------------------------------------------------------
(* PackWriter: a step of the whole is a step of one part and leaves the     *)
(* other alone, so that what is proved of the parts holds of the whole.     *)

\* A PackWriter followed from its first Write is one of the streams and one of
\* the saves above, whatever the other PackWriters do meanwhile.
THEOREM WriterImplementsParts == WriterSpec => StreamSpec /\ SaveSpec
<1>1. WriterInit => StreamInit /\ SaveInit
  BY DEF WriterInit
<1>2. [WriterNext]_writerVars => [StreamNext]_streamVars /\ [SaveNext]_saveVars
  BY OwnAssumption DEF WriterNext, writerVars, Receive, Close, CloseOther, Save, SaveNext
<1> QED BY <1>1, <1>2, PTL DEF WriterSpec, StreamSpec, SaveSpec

\* Once Own has begun to save, the stream stays where it handed the file over.
HandedOver == at[Own] # "idle" => wpc = "save"

\* What Close publishes under the pack's name is exactly the pack it was sent,
\* for packs, streams and splits of any length and any number of other writers.
THEOREM PlacedPacksAreExact == WriterSpec => []PlacedIsExact
<1>1. WriterInit => HandedOver
  BY OwnAssumption DEF WriterInit, SaveInit, HandedOver
<1>2. SaveInv /\ HandedOver /\ [WriterNext]_writerVars => HandedOver'
  <2> SUFFICES ASSUME SaveTypes, HandedOver, [WriterNext]_writerVars PROVE HandedOver'
    BY DEF SaveInv
  <2> USE OwnAssumption DEF HandedOver
  <2>1. CASE Receive
    <3>1. at' = at
      BY <2>1 DEF Receive, saveVars
    <3>2. CASE Build
      BY <3>1, <3>2 DEF Build, caller, Sleep, Block, ReceiveClosed, ReadFile, ReadEOF,
         CheckDone, Count, Parse, NeedMore, ParseEOF, ParseOK, ParseError, SeekStart, Report
    <3>3. CASE WriteStep \/ CloseStep
      BY <3>1, <3>3 DEF WriteStep, AddWritten, CompareRead, Wake, Unblock, Send,
         CloseStep, CloseNews, WaitBuildIndex, Truncate
    <3>4. CASE (\E n \in 0 .. MaxStream : WriteFile(n)) \/ SetDone \/ CloseFails \/ Finished
      BY <3>1, <3>4 DEF WriteFile, SetDone, CloseFails, Finished, streamVars, caller
    <3> QED BY <2>1, <3>2, <3>3, <3>4 DEF Receive, StreamNext
  <2>2. CASE Close
    BY <2>2 DEF Close, streamVars, caller
  <2>3. CASE CloseOther
    <3>1. PICK w \in Writer \ {Own} : GoTo(w, "idx") /\ UNCHANGED streamVars
      BY <2>3 DEF CloseOther, Begin
    <3> QED BY <3>1 DEF GoTo, SaveTypes, streamVars, caller
  <2>4. CASE Save
    <3>1. PICK w \in Writer : SaveStep(w) \/ Fail(w)
      BY <2>4 DEF Save
    <3>2. at[w] # "idle"
      BY <3>1 DEF SaveStep, CheckIdx, CreateIdx, EncodeIdx, CheckRev, CreateRev, EncodeRev,
         CheckPack, CheckMarker, CreateMarker, WriteMarker, CleanTemp, RenamePack, Fail, Active
    <3>3. \E stage : at' = [at EXCEPT ![w] = stage]
      BY <3>1 DEF SaveStep, CheckIdx, CreateIdx, EncodeIdx, CheckRev, CreateRev, EncodeRev,
         CheckPack, CheckMarker, CreateMarker, WriteMarker, CleanTemp, RenamePack, Fail, GoTo
    <3>4. wpc' = wpc
      BY <2>4 DEF Save, streamVars, caller
    <3> QED BY <3>2, <3>3, <3>4 DEF SaveTypes
  <2>5. CASE UNCHANGED writerVars
    BY <2>5 DEF writerVars, streamVars, saveVars, caller
  <2> QED BY <2>1, <2>2, <2>3, <2>4, <2>5 DEF WriterNext
<1>3. SaveInv /\ HandedOver /\ SavedPackIsExact => PlacedIsExact
  <2>1. SaveInv /\ Own \in placedBy => at[Own] = "saved"
    BY OwnAssumption DEF SaveInv, MarkerFirst
  <2> QED BY <2>1 DEF HandedOver, SavedPackIsExact, PlacedIsExact
<1> QED BY <1>1, <1>2, <1>3, WriterImplementsParts, SaveInvariant, SavedCorrect, PTL DEF WriterSpec

\* A pack that is visible has its index, its reverse index where one is written
\* and its marker, while Own receives and saves and others save as well.
THEOREM PublishedPacksAreWhole == WriterSpec => []PublishedIsWhole
BY WriterImplementsParts, PacksAreVisibleComplete, PromisorPacksAreMarked, PTL
   DEF PublishedIsWhole

=============================================================================
