----------------------------- MODULE PushProofs -----------------------------
(***************************************************************************)
(* Proofs about Push, for any commit graph, any number of clients and any  *)
(* references.  The first part says what the recursive functions behind    *)
(* Reach and the fast-forward check compute; the second what each stage of *)
(* a push knows of the server, however the other sessions moved it since.  *)
(***************************************************************************)
EXTENDS Push, FiniteSetTheorems, TLAPS

\* A set that contains the parents of its commits, except those of the cut.
ParentClosed(s, cut) == \A c \in s \ cut : Parents[c] \subseteq s

\* The least such set that contains commit c.
Least(cut) ==
    [c \in Commit |->
        {x \in Commit : \A s \in SUBSET Commit : (c \in s /\ ParentClosed(s, cut)) => x \in s}]

ReachStep(r, cut) ==
    [c \in Commit |-> {c} \cup IF c \in cut THEN {} ELSE UNION {r[p] : p \in Parents[c]}]

\* A set of natural numbers has a least element.
LEMMA LeastNatural ==
    ASSUME NEW T \in SUBSET Nat, T # {}
    PROVE  \E n \in T : \A m \in T : n <= m
  <1> DEFINE Below == {0..n : n \in T}
  <1>1. \A n \in Nat : 0..n \in SUBSET Nat /\ IsFiniteSet(0..n)
    BY FS_Interval
  <1>2. Below \subseteq FiniteSubsetsOf(Nat) /\ Below # {}
    BY <1>1 DEF FiniteSubsetsOf
  <1>3. PICK b \in Below : \A d \in Below : ~ (<<d, b>> \in StrictSubsetOrdering(Nat))
    <2> HIDE DEF Below
    <2> QED BY <1>2, WFMin, FS_StrictSubsetOrderingWellFounded
  <1>4. PICK n \in T : b = 0..n
    OBVIOUS
  <1>5. ASSUME NEW m \in T PROVE n <= m
    <2> SUFFICES ASSUME m < n PROVE FALSE
      OBVIOUS
    <2>1. 0..m \subseteq 0..n /\ 0..m # 0..n /\ 0..m \in SUBSET Nat /\ 0..n \in SUBSET Nat
      OBVIOUS
    <2>2. <<0..m, 0..n>> \in StrictSubsetOrdering(Nat)
      BY <2>1 DEF StrictSubsetOrdering
    <2> QED BY <1>3, <1>4, <2>2
  <1> QED BY <1>5

\* Reach is defined by a recursive function; Least solves its equation.
LEMMA LeastSolves == ASSUME NEW cut PROVE Least(cut) = ReachStep(Least(cut), cut)
  <1> DEFINE L == Least(cut)
  <1>1. ASSUME NEW c \in Commit
        PROVE  L[c] = {c} \cup IF c \in cut THEN {} ELSE UNION {L[p] : p \in Parents[c]}
    <2> DEFINE B == {c} \cup IF c \in cut THEN {} ELSE UNION {L[p] : p \in Parents[c]}
    <2>1. Parents[c] \subseteq Commit
      BY ParentsAssumption
    <2>2. \A d \in Commit :
             L[d] = {x \in Commit : \A s \in SUBSET Commit :
                                       (d \in s /\ ParentClosed(s, cut)) => x \in s}
      BY DEF Least
    <2> HIDE DEF L
    <2>3. \A d \in Commit : d \in L[d] /\ L[d] \subseteq Commit /\ ParentClosed(L[d], cut)
      <3> SUFFICES ASSUME NEW d \in Commit
                   PROVE  d \in L[d] /\ L[d] \subseteq Commit /\ ParentClosed(L[d], cut)
        OBVIOUS
      <3>1. d \in L[d] /\ L[d] \subseteq Commit
        BY <2>2
      <3>2. ASSUME NEW y \in L[d] \ cut, NEW p \in Parents[y] PROVE p \in L[d]
        <4>1. y \in Commit /\ p \in Commit
          BY <3>1, ParentsAssumption
        <4>2. ASSUME NEW s \in SUBSET Commit, d \in s, ParentClosed(s, cut) PROVE p \in s
          BY <2>2, <3>2, <4>2 DEF ParentClosed
        <4> QED BY <2>2, <4>1, <4>2
      <3> QED BY <3>1, <3>2 DEF ParentClosed
    <2>4. B \subseteq L[c]
      <3> SUFFICES ASSUME c \notin cut, NEW p \in Parents[c] PROVE L[p] \subseteq L[c]
        BY <2>3
      <3>1. p \in Commit /\ p \in L[c]
        BY <2>1, <2>3 DEF ParentClosed
      <3>2. ASSUME NEW x \in L[p] PROVE x \in L[c]
        <4>1. L[c] \in SUBSET Commit /\ ParentClosed(L[c], cut)
          BY <2>3
        <4> QED BY <2>2, <3>1, <3>2, <4>1
      <3> QED BY <3>2
    <2>5. L[c] \subseteq B
      <3>1. B \in SUBSET Commit /\ c \in B
        BY <2>1, <2>3
      <3>2. ASSUME NEW y \in B \ cut PROVE Parents[y] \subseteq B
        <4>1. CASE y = c
          BY <2>1, <2>3, <3>2, <4>1
        <4>2. CASE c \notin cut /\ \E p \in Parents[c] : y \in L[p]
          <5>1. PICK p \in Parents[c] : y \in L[p]
            BY <4>2
          <5>2. Parents[y] \subseteq L[p]
            BY <2>1, <2>3, <3>2, <5>1 DEF ParentClosed
          <5> QED BY <4>2, <5>2
        <4> QED BY <3>2, <4>1, <4>2
      <3> HIDE DEF B
      <3>3. ParentClosed(B, cut)
        BY <3>2 DEF ParentClosed
      <3> QED BY <2>2, <3>1, <3>3
    <2> QED BY <2>4, <2>5
  <1>2. L = [c \in Commit |-> L[c]]
    BY DEF Least
  <1> HIDE DEF L
  <1>3. L = ReachStep(L, cut)
    BY <1>1, <1>2 DEF ReachStep
  <1> QED BY <1>3 DEF L

\* The equation has no other solution: at the least commit where two differ
\* their parents' values agree.
LEMMA OnlyLeastSolves ==
    ASSUME NEW cut, NEW r, r = ReachStep(r, cut) PROVE r = Least(cut)
  <1> DEFINE L == Least(cut)
             T == {c \in Commit : r[c] # L[c]}
  <1>1. L = ReachStep(L, cut)
    BY LeastSolves
  <1> HIDE DEF L
  <1>2. T = {}
    <2> SUFFICES ASSUME T # {} PROVE FALSE
      OBVIOUS
    <2>1. PICK c \in T : \A d \in T : c <= d
      BY ParentsAssumption, LeastNatural
    <2>2. c \in Commit /\ c \in Nat /\ \A p \in Parents[c] : p \in Commit /\ p \in Nat /\ p < c
      BY ParentsAssumption
    <2>3. \A p \in Parents[c] : r[p] = L[p]
      BY <2>1, <2>2
    <2>4. {r[p] : p \in Parents[c]} = {L[p] : p \in Parents[c]}
      BY <2>3
    <2>5. /\ r[c] = {c} \cup IF c \in cut THEN {} ELSE UNION {r[p] : p \in Parents[c]}
          /\ L[c] = {c} \cup IF c \in cut THEN {} ELSE UNION {L[p] : p \in Parents[c]}
      BY <1>1, <2>2 DEF ReachStep
    <2> QED BY <2>1, <2>4, <2>5
  <1>3. r = [c \in Commit |-> r[c]] /\ L = [c \in Commit |-> L[c]]
    BY <1>1 DEF ReachStep
  <1>4. r = L
    BY <1>2, <1>3
  <1> QED BY <1>4 DEF L

\* What Reach computes.
LEMMA ReachIsLeast ==
    ASSUME NEW tips, NEW cut
    PROVE  Reach(tips, cut) = UNION {Least(cut)[c] : c \in tips}
  <1> DEFINE R == CHOOSE r : r = ReachStep(r, cut)
  <1>1. Reach(tips, cut) = UNION {R[c] : c \in tips}
    BY Zenon DEF Reach, ReachStep
  <1>2. R = ReachStep(R, cut)
    BY LeastSolves, Zenon
  <1> HIDE DEF R
  <1>3. R = Least(cut)
    BY <1>2, OnlyLeastSolves
  <1> QED BY <1>1, <1>3

\* Reach is the least set with the tips that is closed under the parents of
\* its commits, those of the cut excepted.
LEMMA ReachProperties ==
    ASSUME NEW tips \in SUBSET Commit, NEW cut
    PROVE  /\ Reach(tips, cut) \subseteq Commit
           /\ tips \subseteq Reach(tips, cut)
           /\ ParentClosed(Reach(tips, cut), cut)
           /\ \A s \in SUBSET Commit : (tips \subseteq s /\ ParentClosed(s, cut)) =>
                                           Reach(tips, cut) \subseteq s
  <1> DEFINE L == Least(cut)
  <1>1. Reach(tips, cut) = UNION {L[c] : c \in tips}
    BY ReachIsLeast
  <1>2. \A d \in Commit :
           L[d] = {x \in Commit : \A s \in SUBSET Commit :
                                     (d \in s /\ ParentClosed(s, cut)) => x \in s}
    BY DEF Least
  <1> HIDE DEF L
  <1>3. Reach(tips, cut) \subseteq Commit /\ tips \subseteq Reach(tips, cut)
    BY <1>1, <1>2
  <1>4. ASSUME NEW y \in Reach(tips, cut) \ cut, NEW p \in Parents[y]
        PROVE  p \in Reach(tips, cut)
    <2>1. PICK c \in tips : y \in L[c]
      BY <1>1
    <2>2. y \in Commit /\ p \in Commit
      BY <1>2, <2>1, ParentsAssumption
    <2>3. ASSUME NEW s \in SUBSET Commit, c \in s, ParentClosed(s, cut) PROVE p \in s
      BY <1>2, <1>4, <2>1, <2>3 DEF ParentClosed
    <2>4. p \in L[c]
      BY <1>2, <2>2, <2>3
    <2> QED BY <1>1, <2>4
  <1>5. ASSUME NEW s \in SUBSET Commit, tips \subseteq s, ParentClosed(s, cut)
        PROVE  Reach(tips, cut) \subseteq s
    BY <1>1, <1>2, <1>5
  <1> QED BY <1>3, <1>4, <1>5 DEF ParentClosed
-----------------------------------------------------------------------------
(* The invariant.                                                           *)

\* The shape of the state, with the parts of the sessions TypeOK leaves out.
PushTypes ==
    /\ TypeOK
    /\ mode \in [Client -> Modes \cup {"none"}]
    /\ cmds \in [Client -> SUBSET Command] /\ pack \in [Client -> SUBSET Commit]
    /\ todo \in [Client -> SUBSET Command] /\ busy \in [Client -> Command]
    /\ status \in [Client -> SUBSET Name] /\ applied \in [Client -> SUBSET Name]
    /\ was \in [Name -> SUBSET Value]

\* The server has the parents of its commits, and its references name commits
\* it has.
ServerOK ==
    /\ ParentClosed(sObjs, {})
    /\ \A n \in Name : sRefs[n] \in sObjs \cup {None} /\ sRefs[n] \in was[n]

\* A clone has its branches, and their history down to its shallow commits,
\* which the server has.
CloneOK(c) ==
    /\ Tips(cRefs[c]) \subseteq cObjs[c]
    /\ ParentClosed(cObjs[c], shallow[c])
    /\ shallow[c] \subseteq sObjs /\ shallow[c] \subseteq cObjs[c]
    /\ \A n \in Name : track[c][n] \in was[n]

\* What was advertised, and what the pack leaves out, is with the server.
PackOK(c) ==
    /\ Tips(adv[c]) \subseteq sObjs
    /\ \A x \in pack[c] : Parents[x] \subseteq pack[c] \cup sObjs
    /\ \A cmd \in cmds[c] : cmd.old \in sObjs \cup {None}
    /\ busy[c].new \in sObjs \cup {None}

\* The commands of a push: one for each name, and each as its mode allows.
CommandsOK(c) ==
    /\ pc[c] \notin InSession =>
          cmds[c] = {} /\ todo[c] = {} /\ status[c] = {} /\ applied[c] = {}
    /\ \A a, b \in cmds[c] : a.name = b.name => a = b
    /\ \A cmd \in cmds[c] :
          /\ cmd # NoCommand
          /\ cmd.new = None => cmd.old # None /\ mode[c] \in {"delete", "prune"}
          /\ LeaseOn(c, cmd.name) => cmd.old # None /\ cmd.old = Expected(c, cmd.name)
          /\ (/\ cmd.old # None /\ cmd.new # None /\ shallow[c] = {}
              /\ mode[c] \notin {"force", "lease", "leaseOne", "leaseAt"}) =>
                cmd.old \in History({cmd.new})

\* Every command is still to do, being written, or in one of the two outcomes.
OutcomesOK(c) ==
    /\ pc[c] = "receive" => todo[c] = cmds[c] /\ applied[c] = {} /\ status[c] = {}
    /\ \A cmd \in cmds[c] :
          \/ cmd.name \in applied[c] \cup status[c]
          \/ pc[c] # "report" /\ (cmd \in todo[c] \/ cmd = busy[c])
    /\ \A n \in applied[c] : \E cmd \in cmds[c] : cmd.name = n /\ cmd.new \in was[n]

\* A server that serialises its writers: what the check of a create or delete
\* saw is still so when it is written.
SerialOK ==
    serial =>
        /\ \A c, d \in Client : pc[c] = "apply" /\ pc[d] = "apply" => c = d
        /\ \A c \in Client : busy[c] # NoCommand =>
              /\ Action(busy[c]) = "create" => sRefs[busy[c].name] = None
              /\ Action(busy[c]) = "delete" => sRefs[busy[c].name] = busy[c].old

ClientOK(c) == CloneOK(c) /\ PackOK(c) /\ CommandsOK(c) /\ OutcomesOK(c)
PushInv == PushTypes /\ ServerOK /\ SerialOK /\ \A c \in Client : ClientOK(c)
-----------------------------------------------------------------------------
(* Operators of the model.                                                  *)

\* The zero hash is no commit.
LEMMA NoneIsNoCommit == None \notin Commit /\ Commit \subseteq Nat
  BY ParentsAssumption DEF None

\* A closed set of commits is closed whatever the cut.
LEMMA ClosedWithCut ==
    ASSUME NEW s, NEW cut, ParentClosed(s, {}) PROVE ParentClosed(s, cut)
  BY DEF ParentClosed

\* The history of a commit in another's history is part of it.
LEMMA HistoryGrows ==
    ASSUME NEW x \in Commit, NEW y \in Commit, x \in History({y})
    PROVE  History({x}) \subseteq History({y})
  <1> DEFINE s == History({y})
  <1>1. s \in SUBSET Commit /\ ParentClosed(s, {})
    BY ReachProperties DEF History
  <1> HIDE DEF s
  <1>2. {x} \subseteq s /\ {x} \in SUBSET Commit
    BY DEF s
  <1> QED BY <1>1, <1>2, ReachProperties DEF History, s

\* The tips of a table of references are commits.
LEMMA TipsType ==
    ASSUME NEW r \in [Name -> Value]
    PROVE  /\ Tips(r) \in SUBSET Commit
           /\ \A n \in Name : r[n] # None => r[n] \in Tips(r)
           /\ \A x \in Tips(r) : \E n \in Name : r[n] = x
  BY NoneIsNoCommit DEF Tips, Value

\* Without shallow commits the walk of isFastForward visits the history.
LEMMA VisitedIsHistory ==
    ASSUME NEW c, shallow[c] = {}, NEW x \in Commit
    PROVE  Visited(c, x) = History({x})
  <1> DEFINE ignored == UNION {Parents[s] : s \in shallow[c]}
             V == CHOOSE v : v = [y \in Commit |->
                     IF y \in ignored THEN {} ELSE {y} \cup UNION {v[p] : p \in Parents[y]}]
  <1>1. Visited(c, x) = V[x]
    BY Zenon DEF Visited
  <1>2. ignored = {}
    OBVIOUS
  <1> HIDE DEF ignored
  <1>3. \A v : ReachStep(v, {}) = [y \in Commit |->
                  IF y \in ignored THEN {} ELSE {y} \cup UNION {v[p] : p \in Parents[y]}]
    BY <1>2 DEF ReachStep
  <1>4. V = ReachStep(V, {})
    <2>1. Least({}) = [y \in Commit |->
              IF y \in ignored THEN {} ELSE {y} \cup UNION {Least({})[p] : p \in Parents[y]}]
      BY <1>3, LeastSolves
    <2>2. V = [y \in Commit |->
              IF y \in ignored THEN {} ELSE {y} \cup UNION {V[p] : p \in Parents[y]}]
      BY <2>1, Zenon
    <2> HIDE DEF V
    <2> QED BY <1>3, <2>2
  <1> HIDE DEF V
  <1>5. V = Least({})
    BY <1>4, OnlyLeastSolves
  <1>6. History({x}) = UNION {Least({})[y] : y \in {x}}
    BY ReachIsLeast DEF History
  <1> QED BY <1>1, <1>5, <1>6

\* The commands a push builds.
LEMMA CommandsType ==
    ASSUME PushTypes, NEW c \in Client
    PROVE  /\ Commands(c) \in SUBSET Command
           /\ \A cmd \in Commands(c) :
                 /\ cmd.old = adv[c][cmd.name]
                 /\ \/ cmd \in Updates(c) /\ mode[c] # "delete"
                       /\ cmd.new # None /\ cmd.new = cRefs[c][cmd.name]
                    \/ cmd \in Deletes(c) /\ cmd.new = None /\ cmd.old # None
                       /\ mode[c] \in {"delete", "prune"}
                       /\ (mode[c] = "prune" => cRefs[c][cmd.name] = None)
  <1>1. adv[c] \in [Name -> Value] /\ cRefs[c] \in [Name -> Value] /\ None \in Value
    BY DEF PushTypes, TypeOK, Value
  <1>2. ASSUME NEW cmd \in Updates(c)
        PROVE  /\ cmd \in Command /\ cmd.old = adv[c][cmd.name]
               /\ cmd.new # None /\ cmd.new = cRefs[c][cmd.name]
    BY <1>1 DEF Updates, Command
  <1>3. ASSUME NEW cmd \in Deletes(c)
        PROVE  /\ cmd \in Command /\ cmd.old = adv[c][cmd.name]
               /\ cmd.new = None /\ cmd.old # None /\ mode[c] \in {"delete", "prune"}
               /\ (mode[c] = "prune" => cRefs[c][cmd.name] = None)
    BY <1>1 DEF Deletes, Command
  <1> QED BY <1>2, <1>3 DEF Commands

\* One command for each name.
LEMMA CommandsUnique ==
    ASSUME PushTypes, NEW c \in Client, NEW a \in Commands(c), NEW b \in Commands(c),
           a.name = b.name
    PROVE  a = b
  <1>1. a \in Command /\ b \in Command
    BY CommandsType
  <1>2. a.old = b.old /\ a.new = b.new
    BY CommandsType
  <1>3. a = [name |-> a.name, old |-> a.old, new |-> a.new]
    BY <1>1 DEF Command
  <1>4. b = [name |-> b.name, old |-> b.old, new |-> b.new]
    BY <1>1 DEF Command
  <1> QED BY <1>2, <1>3, <1>4

\* The placeholder for no command.
LEMMA NoCommandType == NoCommand \in Command /\ NoCommand.old = None /\ NoCommand.new = None
  BY NamesAssumption DEF NoCommand, Command, Value
-----------------------------------------------------------------------------
(* Steps.                                                                   *)

\* The step leaves what client d knows and does alone.
Apart(d) ==
    /\ cRefs'[d] = cRefs[d] /\ cObjs'[d] = cObjs[d] /\ track'[d] = track[d]
    /\ shallow'[d] = shallow[d] /\ pc'[d] = pc[d] /\ mode'[d] = mode[d] /\ adv'[d] = adv[d]
    /\ cmds'[d] = cmds[d] /\ pack'[d] = pack[d] /\ todo'[d] = todo[d] /\ busy'[d] = busy[d]
    /\ status'[d] = status[d] /\ applied'[d] = applied[d]

\* The server forgets no commit.
Grows == sObjs \subseteq sObjs' /\ \A n \in Name : was[n] \subseteq was'[n]

\* A step of another client, or of its session, keeps what client d relies on.
LEMMA OthersKeep ==
    ASSUME PushInv, Grows, NEW d \in Client, Apart(d) PROVE ClientOK(d)'
  <1>1. CloneOK(d) /\ PackOK(d) /\ CommandsOK(d) /\ OutcomesOK(d) /\ PushTypes
    BY DEF PushInv, ClientOK
  <1>2. CloneOK(d)'
    BY <1>1 DEF CloneOK, Apart, Grows
  <1>3. PackOK(d)'
    BY <1>1 DEF PackOK, Apart, Grows
  <1>4. CommandsOK(d)'
    BY <1>1 DEF CommandsOK, LeaseOn, Expected, Apart
  <1>5. OutcomesOK(d)'
    BY <1>1 DEF OutcomesOK, Apart, Grows, PushTypes
  <1> QED BY <1>2, <1>3, <1>4, <1>5 DEF ClientOK

\* The user's step: the clone has what its branches name.
LEMMA MoveStep ==
    ASSUME PushInv, NEW c \in Client, NEW n \in Name, NEW x \in Value, Move(c, n, x)
    PROVE  PushInv'
  <1>1. PushTypes /\ ServerOK /\ SerialOK /\ ClientOK(c)
    BY DEF PushInv
  <1>2. /\ cRefs' = [cRefs EXCEPT ![c] = [cRefs[c] EXCEPT ![n] = x]]
        /\ cObjs' = [cObjs EXCEPT ![c] = cObjs[c] \cup ({x} \ {None})]
        /\ UNCHANGED <<server, serial, track, shallow, pc, request, session>>
        /\ x \in Commit => x \in cObjs[c] \/ Parents[x] \subseteq cObjs[c]
    BY DEF Move
  <1>3. UNCHANGED <<sRefs, sObjs, was, serial, track, shallow, pc, mode, adv, cmds, pack,
                    todo, busy, status, applied>>
    BY <1>2 DEF server, request, session
  <1>4. cRefs[c] \in [Name -> Value] /\ cObjs[c] \subseteq Commit /\ {x} \ {None} \subseteq Commit
    BY <1>1 DEF PushTypes, TypeOK, Value
  <1>5. cRefs'[c] = [cRefs[c] EXCEPT ![n] = x] /\ cObjs'[c] = cObjs[c] \cup ({x} \ {None})
    BY <1>1, <1>2 DEF PushTypes, TypeOK
  <1>6. PushTypes'
    <2>1. cRefs' \in [Client -> [Name -> Value]] /\ cObjs' \in [Client -> SUBSET Commit]
      BY <1>1, <1>2, <1>4 DEF PushTypes, TypeOK
    <2>2. \A d \in Client : cObjs[d] \subseteq cObjs'[d]
      BY <1>1, <1>2 DEF PushTypes, TypeOK
    <2> QED BY <1>1, <1>3, <2>1, <2>2 DEF PushTypes, TypeOK
  <1>7. ServerOK' /\ SerialOK'
    BY <1>1, <1>3 DEF ServerOK, SerialOK
  <1>8. CloneOK(c)'
    <2>1. Tips(cRefs'[c]) \subseteq cObjs'[c]
      <3> SUFFICES ASSUME NEW y \in Tips(cRefs'[c]) PROVE y \in cObjs'[c]
        OBVIOUS
      <3>1. PICK m \in Name : cRefs'[c][m] = y /\ y # None
        BY <1>4, <1>5 DEF Tips
      <3>2. CASE m = n
        BY <1>4, <1>5, <3>1, <3>2
      <3>3. CASE m # n
        BY <1>1, <1>4, <1>5, <3>1, <3>3, TipsType DEF ClientOK, CloneOK
      <3> QED BY <3>2, <3>3
    <2>2. ParentClosed(cObjs'[c], shallow[c])
      BY <1>1, <1>2, <1>4, <1>5 DEF ClientOK, CloneOK, ParentClosed, Value
    <2> QED BY <1>1, <1>3, <1>5, <2>1, <2>2 DEF ClientOK, CloneOK
  <1>9. ClientOK(c)'
    BY <1>1, <1>3, <1>8 DEF ClientOK, PackOK, CommandsOK, LeaseOn, Expected, OutcomesOK
  <1>10. Grows /\ \A d \in Client \ {c} : Apart(d)
    BY <1>1, <1>2, <1>3 DEF Grows, Apart, PushTypes, TypeOK
  <1> QED BY <1>6, <1>7, <1>9, <1>10, OthersKeep DEF PushInv

\* A fetch brings the history of the server's references.
LEMMA FetchStep ==
    ASSUME PushInv, NEW c \in Client, Fetch(c) PROVE PushInv'
  <1>1. PushTypes /\ ServerOK /\ SerialOK /\ ClientOK(c)
    BY DEF PushInv
  <1> DEFINE got == Reach(Tips(sRefs), shallow[c])
  <1>2. /\ track' = [track EXCEPT ![c] = sRefs]
        /\ cObjs' = [cObjs EXCEPT ![c] = cObjs[c] \cup got]
        /\ pc[c] = "idle"
        /\ UNCHANGED <<sRefs, sObjs, was, serial, cRefs, shallow, pc, mode, adv, cmds, pack,
                       todo, busy, status, applied>>
    BY DEF Fetch, server, request, session
  <1>3. got \in SUBSET Commit /\ ParentClosed(got, shallow[c])
    <2>1. Tips(sRefs) \in SUBSET Commit
      BY <1>1, TipsType DEF PushTypes, TypeOK
    <2> QED BY <2>1, ReachProperties
  <1> HIDE DEF got
  <1>4. cObjs'[c] = cObjs[c] \cup got /\ track'[c] = sRefs
    BY <1>1, <1>2 DEF PushTypes, TypeOK
  <1>5. PushTypes'
    <2>1. track' \in [Client -> [Name -> Value]] /\ cObjs' \in [Client -> SUBSET Commit]
      BY <1>1, <1>2, <1>3 DEF PushTypes, TypeOK
    <2>2. \A d \in Client : cObjs[d] \subseteq cObjs'[d]
      BY <1>1, <1>2 DEF PushTypes, TypeOK
    <2> QED BY <1>1, <1>2, <2>1, <2>2 DEF PushTypes, TypeOK
  <1>6. ServerOK' /\ SerialOK'
    BY <1>1, <1>2 DEF ServerOK, SerialOK
  <1>7. CloneOK(c)'
    BY <1>1, <1>2, <1>3, <1>4 DEF ClientOK, CloneOK, ParentClosed, ServerOK
  <1>8. CommandsOK(c)'
    BY <1>1, <1>2 DEF ClientOK, CommandsOK, InSession
  <1>9. PackOK(c)' /\ OutcomesOK(c)'
    BY <1>1, <1>2 DEF ClientOK, PackOK, OutcomesOK
  <1>10. Grows /\ \A d \in Client \ {c} : Apart(d)
    BY <1>1, <1>2 DEF Grows, Apart, PushTypes, TypeOK
  <1> QED BY <1>5, <1>6, <1>7, <1>8, <1>9, <1>10, OthersKeep DEF PushInv, ClientOK

\* The advertisement names commits the server has.
LEMMA AdvertiseStep ==
    ASSUME PushInv, NEW c \in Client, Advertise(c) PROVE PushInv'
  <1>1. PushTypes /\ ServerOK /\ SerialOK /\ ClientOK(c)
    BY DEF PushInv
  <1>2. PICK m \in Modes : mode' = [mode EXCEPT ![c] = m]
    BY DEF Advertise
  <1>3. /\ adv' = [adv EXCEPT ![c] = sRefs] /\ pc' = [pc EXCEPT ![c] = "plan"]
        /\ pc[c] = "idle"
        /\ UNCHANGED <<sRefs, sObjs, was, serial, cRefs, cObjs, track, shallow, cmds, pack,
                       todo, busy, status, applied>>
    BY DEF Advertise, server, client, session
  <1>4. adv'[c] = sRefs /\ pc'[c] = "plan" /\ \A d \in Client \ {c} : pc'[d] = pc[d]
    BY <1>1, <1>3 DEF PushTypes, TypeOK
  <1>5. busy[c] = NoCommand
    BY <1>1, <1>3 DEF PushTypes, TypeOK
  <1>6. PushTypes'
    BY <1>1, <1>2, <1>3, <1>4, <1>5 DEF PushTypes, TypeOK
  <1>7. ServerOK' /\ SerialOK'
    BY <1>1, <1>3, <1>4 DEF ServerOK, SerialOK
  <1>8. CloneOK(c)' /\ OutcomesOK(c)'
    BY <1>1, <1>3, <1>4 DEF ClientOK, CloneOK, OutcomesOK, CommandsOK, InSession
  <1>9. CommandsOK(c)'
    BY <1>1, <1>3, <1>4 DEF ClientOK, CommandsOK, InSession
  <1>10. PackOK(c)'
    <2>1. Tips(sRefs) \subseteq sObjs
      BY <1>1, TipsType DEF ServerOK, PushTypes, TypeOK, Tips
    <2> QED BY <1>1, <1>3, <1>4, <2>1 DEF ClientOK, PackOK
  <1>11. Grows /\ \A d \in Client \ {c} : Apart(d)
    BY <1>1, <1>2, <1>3 DEF Grows, Apart, PushTypes, TypeOK
  <1> QED BY <1>6, <1>7, <1>8, <1>9, <1>10, <1>11, OthersKeep DEF PushInv, ClientOK

\* A push that returns leaves nothing of its session.
LEMMA ReturnStep ==
    ASSUME PushInv, NEW c \in Client, Return(c), busy[c] = NoCommand, Grows,
           UNCHANGED <<sRefs, sObjs, was, serial, cRefs, cObjs, shallow>>,
           \A d \in Client \ {c} : track'[d] = track[d],
           track' \in [Client -> [Name -> Value]],
           \A n \in Name : track'[c][n] \in was[n]
    PROVE  PushInv'
  <1>1. PushTypes /\ ServerOK /\ SerialOK /\ ClientOK(c)
    BY DEF PushInv
  <1>2. /\ pc'[c] = "idle" /\ mode'[c] = "none" /\ adv'[c] = NoRefs /\ cmds'[c] = {}
        /\ pack'[c] = {} /\ todo'[c] = {} /\ status'[c] = {} /\ applied'[c] = {}
        /\ busy' = busy
        /\ \A d \in Client \ {c} : pc'[d] = pc[d]
    BY <1>1 DEF Return, PushTypes, TypeOK
  <1>3. PushTypes'
    <2>1. NoRefs \in [Name -> Value]
      BY DEF NoRefs, Value
    <2>2. /\ pc' \in [Client -> {"idle", "plan"} \cup InSession]
          /\ adv' \in [Client -> [Name -> Value]]
          /\ mode' \in [Client -> Modes \cup {"none"}]
          /\ cmds' \in [Client -> SUBSET Command] /\ pack' \in [Client -> SUBSET Commit]
          /\ todo' \in [Client -> SUBSET Command]
          /\ status' \in [Client -> SUBSET Name] /\ applied' \in [Client -> SUBSET Name]
      BY <1>1, <2>1 DEF Return, PushTypes, TypeOK
    <2>3. \A d \in Client :
             /\ todo'[d] \subseteq cmds'[d] /\ cmds'[d] \subseteq Command
             /\ pack'[d] \subseteq cObjs'[d]
             /\ busy'[d] \in cmds'[d] \cup {NoCommand}
             /\ pc'[d] = "apply" \/ busy'[d] = NoCommand
      BY <1>1 DEF Return, PushTypes, TypeOK
    <2> QED BY <1>1, <1>2, <2>2, <2>3 DEF PushTypes, TypeOK
  <1>4. ServerOK' /\ SerialOK'
    BY <1>1, <1>2 DEF ServerOK, SerialOK
  <1>5. CloneOK(c)'
    BY <1>1 DEF ClientOK, CloneOK
  <1>6. PackOK(c)'
    <2>1. Tips(NoRefs) = {}
      BY DEF Tips, NoRefs
    <2> QED BY <1>1, <1>2, <2>1 DEF ClientOK, PackOK
  <1>7. CommandsOK(c)' /\ OutcomesOK(c)'
    BY <1>2 DEF CommandsOK, OutcomesOK
  <1>8. \A d \in Client \ {c} : Apart(d)
    BY <1>1 DEF Return, Apart, PushTypes, TypeOK
  <1> QED BY <1>3, <1>4, <1>5, <1>6, <1>7, <1>8, OthersKeep DEF PushInv, ClientOK

\* What a push packs: the parents of a packed commit are packed or, like
\* everything behind the haves, with the server; and the client has it.
LEMMA PackIsEnough ==
    ASSUME PushInv, NEW c \in Client
    PROVE  /\ ObjectsToPush(c) \in SUBSET cObjs[c]
           /\ \A x \in ObjectsToPush(c) : Parents[x] \subseteq ObjectsToPush(c) \cup sObjs
  <1> DEFINE objects == {cmd.new : cmd \in Commands(c)} \ {None}
             haves == (Tips(adv[c]) \cap cObjs[c]) \cup shallow[c]
             sent == Reach(objects, shallow[c])
             held == Reach(haves, shallow[c])
  <1>1. PushTypes /\ ServerOK /\ CloneOK(c) /\ PackOK(c)
    BY DEF PushInv, ClientOK
  <1>2. ObjectsToPush(c) = sent \ held
    BY DEF ObjectsToPush
  <1>3. objects \subseteq cObjs[c] /\ cObjs[c] \in SUBSET Commit
    <2>1. cRefs[c] \in [Name -> Value] /\ cObjs[c] \in SUBSET Commit
      BY <1>1 DEF PushTypes, TypeOK
    <2>2. ASSUME NEW cmd \in Commands(c), cmd.new # None PROVE cmd.new \in cObjs[c]
      <3>1. cmd \in Command /\ cmd.new = cRefs[c][cmd.name]
        BY <1>1, <2>2, CommandsType
      <3>2. cmd.name \in Name
        BY <3>1 DEF Command
      <3>3. cmd.new \in Tips(cRefs[c])
        BY <2>1, <2>2, <3>1, <3>2, TipsType
      <3> QED BY <1>1, <3>3 DEF CloneOK
    <2> QED BY <2>1, <2>2
  <1>4. haves \subseteq sObjs /\ sObjs \in SUBSET Commit /\ ParentClosed(sObjs, shallow[c])
    BY <1>1, ClosedWithCut DEF CloneOK, PackOK, ServerOK, PushTypes, TypeOK
  <1> HIDE DEF objects, haves
  <1>5. /\ sent \subseteq cObjs[c] /\ ParentClosed(sent, shallow[c])
    <2>1. objects \in SUBSET Commit
      BY <1>3
    <2> QED BY <1>1, <1>3, <2>1, ReachProperties DEF CloneOK
  <1>6. held \subseteq sObjs /\ shallow[c] \subseteq held
    <2>1. haves \in SUBSET Commit
      BY <1>4
    <2> QED BY <1>4, <2>1, ReachProperties DEF haves
  <1> HIDE DEF sent, held
  <1>7. ASSUME NEW x \in sent \ held PROVE Parents[x] \subseteq (sent \ held) \cup sObjs
    BY <1>5, <1>6 DEF ParentClosed
  <1> QED BY <1>2, <1>5, <1>7

\* The request: the commands are as the mode of the push allows.
LEMMA SendPackStep ==
    ASSUME PushInv, NEW c \in Client, SendPack(c) PROVE PushInv'
  <1>1. PushTypes /\ ServerOK /\ SerialOK /\ ClientOK(c)
    BY DEF PushInv
  <1>2. /\ pc[c] = "plan" /\ busy[c] = NoCommand /\ Grows
        /\ UNCHANGED <<sRefs, sObjs, was, serial, cRefs, cObjs, track, shallow>>
    BY <1>1 DEF SendPack, server, client, PushTypes, TypeOK, InSession, Grows
  <1> DEFINE refused == \E cmd \in Updates(c) : mode[c] # "delete" /\ ~ Allowed(c, cmd)
  <1>3. CASE refused \/ Commands(c) = {}
    <2>1. Return(c)
      BY <1>3 DEF SendPack
    <2>2. \A n \in Name : track'[c][n] \in was[n]
      BY <1>1, <1>2 DEF ClientOK, CloneOK
    <2>3. track' \in [Client -> [Name -> Value]]
      BY <1>1, <1>2 DEF PushTypes, TypeOK
    <2> QED BY <1>2, <2>1, <2>2, <2>3, ReturnStep
  <1>4. CASE ~ (refused \/ Commands(c) = {})
    <2>1. /\ pc' = [pc EXCEPT ![c] = "receive"]
          /\ cmds' = [cmds EXCEPT ![c] = Commands(c)]
          /\ pack' = [pack EXCEPT ![c] = ObjectsToPush(c)]
          /\ todo' = [todo EXCEPT ![c] = Commands(c)]
          /\ UNCHANGED <<mode, adv, busy, status, applied>>
      BY <1>4 DEF SendPack
    <2>2. Commands(c) \in SUBSET Command /\ ObjectsToPush(c) \in SUBSET Commit
          /\ ObjectsToPush(c) \subseteq cObjs[c]
      BY <1>1, PackIsEnough, CommandsType DEF PushTypes, TypeOK
    <2>3. /\ pc'[c] = "receive" /\ cmds'[c] = Commands(c) /\ todo'[c] = Commands(c)
          /\ pack'[c] = ObjectsToPush(c) /\ mode'[c] = mode[c] /\ adv'[c] = adv[c]
          /\ \A d \in Client \ {c} : pc'[d] = pc[d]
      BY <1>1, <2>1 DEF PushTypes, TypeOK
    <2>4. PushTypes'
      <3>1. /\ pc' \in [Client -> {"idle", "plan"} \cup InSession]
            /\ cmds' \in [Client -> SUBSET Command] /\ pack' \in [Client -> SUBSET Commit]
            /\ todo' \in [Client -> SUBSET Command]
        BY <1>1, <2>1, <2>2 DEF PushTypes, TypeOK, InSession
      <3>2. \A d \in Client :
               /\ todo'[d] \subseteq cmds'[d] /\ cmds'[d] \subseteq Command
               /\ pack'[d] \subseteq cObjs[d]
               /\ busy[d] \in cmds'[d] \cup {NoCommand}
               /\ pc'[d] = "apply" \/ busy[d] = NoCommand
        BY <1>1, <1>2, <2>1, <2>2 DEF PushTypes, TypeOK
      <3> QED BY <1>1, <1>2, <2>1, <3>1, <3>2 DEF PushTypes, TypeOK
    <2>5. ServerOK' /\ SerialOK'
      BY <1>1, <1>2, <2>1, <2>3 DEF ServerOK, SerialOK
    <2>6. CloneOK(c)'
      BY <1>1, <1>2 DEF ClientOK, CloneOK
    <2>7. PackOK(c)'
      <3>1. \A cmd \in Commands(c) : cmd.old \in sObjs \cup {None}
        <4> SUFFICES ASSUME NEW cmd \in Commands(c), cmd.old # None PROVE cmd.old \in sObjs
          OBVIOUS
        <4>1. cmd \in Command /\ cmd.old = adv[c][cmd.name] /\ adv[c] \in [Name -> Value]
          BY <1>1, CommandsType DEF PushTypes, TypeOK
        <4>2. cmd.old \in Tips(adv[c])
          BY <4>1, TipsType DEF Command
        <4> QED BY <1>1, <4>2 DEF ClientOK, PackOK
      <3> QED BY <1>1, <1>2, <2>1, <2>3, <3>1, PackIsEnough DEF ClientOK, PackOK
    <2>8. CommandsOK(c)'
      <3>1. ASSUME NEW cmd \in Commands(c)
            PROVE  /\ cmd # NoCommand
                   /\ cmd.new = None => cmd.old # None /\ mode[c] \in {"delete", "prune"}
                   /\ LeaseOn(c, cmd.name) =>
                         cmd.old # None /\ cmd.old = Expected(c, cmd.name)
                   /\ (/\ cmd.old # None /\ cmd.new # None /\ shallow[c] = {}
                       /\ mode[c] \notin {"force", "lease", "leaseOne", "leaseAt"}) =>
                         cmd.old \in History({cmd.new})
        <4>1. CASE cmd.new = None
          BY <1>1, <4>1, CommandsType, NoCommandType DEF LeaseOn
        <4>2. CASE cmd.new # None
          <5>1. cmd \in Updates(c) /\ Allowed(c, cmd) /\ cmd \in Command
            BY <1>1, <1>4, <4>2, CommandsType
          <5>2. ASSUME LeaseOn(c, cmd.name)
                PROVE  cmd.old # None /\ cmd.old = Expected(c, cmd.name)
            <6>1. track[c][cmd.name] # None /\ cmd.old = Expected(c, cmd.name)
              BY <5>1, <5>2 DEF Allowed, CheckForceWithLease, LeaseOn
            <6> QED BY <6>1, NamesAssumption, NoneIsNoCommit DEF Expected
          <5>3. ASSUME cmd.old # None, shallow[c] = {},
                       mode[c] \notin {"force", "lease", "leaseOne", "leaseAt"}
                PROVE  cmd.old \in History({cmd.new})
            <6>1. IsFastForward(c, cmd.old, cmd.new)
              BY <5>1, <5>3 DEF Allowed, CheckFastForwardUpdate
            <6>2. cmd.old \in Visited(c, cmd.new)
              BY <5>3, <6>1 DEF IsFastForward
            <6>3. cmd.new \in Commit
              BY <4>2, <5>1 DEF Command, Value
            <6> QED BY <5>3, <6>2, <6>3, VisitedIsHistory
          <5> QED BY <4>2, <5>2, <5>3, NoCommandType
        <4> QED BY <4>1, <4>2
      <3>2. pc'[c] \in InSession
        BY <2>3 DEF InSession
      <3> QED BY <1>1, <1>2, <2>3, <3>1, <3>2, CommandsUnique DEF CommandsOK, LeaseOn, Expected
    <2>9. OutcomesOK(c)'
      BY <1>1, <1>2, <2>1, <2>3 DEF ClientOK, OutcomesOK, CommandsOK, InSession
    <2>10. \A d \in Client \ {c} : Apart(d)
      BY <1>1, <1>2, <2>1 DEF Apart, PushTypes, TypeOK
    <2> QED BY <1>2, <2>4, <2>5, <2>6, <2>7, <2>8, <2>9, <2>10, OthersKeep DEF PushInv, ClientOK
  <1> QED BY <1>3, <1>4

\* Only the stage, the commands left, the one being written and the two
\* outcomes of the session of c change.
SessionStep(c) ==
    /\ UNCHANGED <<serial, cRefs, cObjs, track, shallow, mode, adv, cmds, pack>>
    /\ pc' \in [Client -> {"idle", "plan"} \cup InSession]
    /\ todo' \in [Client -> SUBSET Command] /\ busy' \in [Client -> Command]
    /\ status' \in [Client -> SUBSET Name] /\ applied' \in [Client -> SUBSET Name]
    /\ pc'[c] \in InSession
    /\ todo'[c] \subseteq todo[c] /\ busy'[c] \in cmds[c] \cup {NoCommand}
    /\ pc'[c] = "apply" \/ busy'[c] = NoCommand
    /\ \A d \in Client \ {c} :
          /\ pc'[d] = pc[d] /\ todo'[d] = todo[d] /\ busy'[d] = busy[d]
          /\ status'[d] = status[d] /\ applied'[d] = applied[d]

\* What is left to show of such a step.
LEMMA SessionKeeps ==
    ASSUME PushInv, NEW c \in Client, SessionStep(c), Grows,
           pc[c] \in InSession,
           sRefs' \in [Name -> Value], sObjs' \in SUBSET Commit,
           was' \in [Name -> SUBSET Value],
           ServerOK', SerialOK', OutcomesOK(c)', busy'[c].new \in sObjs' \cup {None}
    PROVE  PushInv'
  <1>1. PushTypes /\ ClientOK(c)
    BY DEF PushInv
  <1>2. PushTypes'
    <2>1. \A d \in Client :
             /\ todo'[d] \subseteq cmds[d] /\ cmds[d] \subseteq Command
             /\ pack[d] \subseteq cObjs[d]
             /\ busy'[d] \in cmds[d] \cup {NoCommand}
             /\ pc'[d] = "apply" \/ busy'[d] = NoCommand
      BY <1>1 DEF PushTypes, TypeOK, SessionStep
    <2> QED BY <1>1, <2>1 DEF PushTypes, TypeOK, SessionStep
  <1>3. CloneOK(c)' /\ PackOK(c)'
    BY <1>1 DEF ClientOK, CloneOK, PackOK, SessionStep, Grows
  <1>4. CommandsOK(c)'
    BY <1>1 DEF ClientOK, CommandsOK, LeaseOn, Expected, SessionStep
  <1>5. \A d \in Client \ {c} : Apart(d)
    BY DEF Apart, SessionStep
  <1> QED BY <1>2, <1>3, <1>4, <1>5, OthersKeep DEF PushInv, ClientOK

\* The names of a set of commands.
LEMMA CommandNames ==
    ASSUME PushTypes, NEW c \in Client
    PROVE  /\ {cmd.name : cmd \in cmds[c]} \in SUBSET Name
           /\ \A cmd \in cmds[c] : cmd.name \in {x.name : x \in cmds[c]}
           /\ \A cmd \in cmds[c] : cmd \in Command
  BY DEF PushTypes, TypeOK, Command

\* The pack is stored: the server's commits stay closed.
LEMMA ReceiveStep ==
    ASSUME PushInv, NEW c \in Client, Receive(c) PROVE PushInv'
  <1>1. PushTypes /\ ServerOK /\ SerialOK /\ ClientOK(c)
    BY DEF PushInv
  <1>2. /\ pc[c] = "receive" /\ sObjs' = sObjs \cup pack[c]
        /\ UNCHANGED <<sRefs, was, serial, cRefs, cObjs, track, shallow, mode, adv, cmds,
                       pack, todo, busy, applied>>
        /\ \/ MayApply(c) /\ pc' = [pc EXCEPT ![c] = "apply"] /\ UNCHANGED status
           \/ /\ status' = [status EXCEPT ![c] = {cmd.name : cmd \in cmds[c]}]
              /\ pc' = [pc EXCEPT ![c] = "report"]
    BY DEF Receive, client, request
  <1>3. /\ busy[c] = NoCommand /\ todo[c] = cmds[c] /\ applied[c] = {}
        /\ pc'[c] \in {"apply", "report"}
        /\ pc'[c] = "report" => status'[c] = {cmd.name : cmd \in cmds[c]}
        /\ \A d \in Client \ {c} : pc'[d] = pc[d] /\ status'[d] = status[d]
    BY <1>1, <1>2, CommandNames DEF ClientOK, OutcomesOK, PushTypes, TypeOK
  <1>4. SessionStep(c)
    <2>1. status' \in [Client -> SUBSET Name]
      BY <1>1, <1>2, CommandNames DEF PushTypes
    <2>2. pc' \in [Client -> {"idle", "plan"} \cup InSession]
      BY <1>1, <1>2 DEF PushTypes, TypeOK, InSession
    <2> QED BY <1>1, <1>2, <1>3, <2>1, <2>2 DEF SessionStep, PushTypes, TypeOK, InSession
  <1>5. Grows /\ sObjs' \in SUBSET Commit /\ pc[c] \in InSession
    BY <1>1, <1>2 DEF Grows, PushTypes, TypeOK, InSession
  <1>6. ServerOK'
    BY <1>1, <1>2 DEF ServerOK, ParentClosed, ClientOK, PackOK
  <1>7. SerialOK'
    <2>1. ASSUME serial, NEW d \in Client, NEW e \in Client, pc'[d] = "apply", pc'[e] = "apply"
          PROVE  d = e
      <3>1. pc'[c] = "apply" => MayApply(c)
        BY <1>1, <1>2 DEF PushTypes, TypeOK
      <3> QED BY <1>1, <1>2, <1>3, <2>1, <3>1 DEF SerialOK, MayApply
    <2> QED BY <1>1, <1>2, <2>1 DEF SerialOK
  <1>8. OutcomesOK(c)'
    <2>1. ASSUME NEW x \in cmds[c]
          PROVE  x.name \in applied[c] \cup status'[c] \/ (pc'[c] # "report" /\ x \in todo[c])
      BY <1>3, <2>1
    <2>2. pc'[c] # "receive" /\ applied[c] = {}
      BY <1>3
    <2> QED BY <1>2, <2>1, <2>2 DEF OutcomesOK
  <1>9. busy'[c].new \in sObjs' \cup {None}
    BY <1>2, <1>3, NoCommandType
  <1> QED BY <1>1, <1>2, <1>4, <1>5, <1>6, <1>7, <1>8, <1>9, SessionKeeps
         DEF PushTypes, TypeOK

\* The pack did not arrive: every command is reported.
LEMMA UnpackFailsStep ==
    ASSUME PushInv, NEW c \in Client, UnpackFails(c) PROVE PushInv'
  <1>1. PushTypes /\ ServerOK /\ SerialOK /\ ClientOK(c)
    BY DEF PushInv
  <1>2. /\ pc[c] = "receive" /\ pc' = [pc EXCEPT ![c] = "report"]
        /\ status' = [status EXCEPT ![c] = {cmd.name : cmd \in cmds[c]}]
        /\ UNCHANGED <<sRefs, sObjs, was, serial, cRefs, cObjs, track, shallow, mode, adv,
                       cmds, pack, todo, busy, applied>>
    BY DEF UnpackFails, server, client, request
  <1>3. /\ busy[c] = NoCommand /\ todo[c] = cmds[c] /\ applied[c] = {}
        /\ pc'[c] = "report" /\ status'[c] = {cmd.name : cmd \in cmds[c]}
        /\ \A d \in Client \ {c} : pc'[d] = pc[d] /\ status'[d] = status[d]
    BY <1>1, <1>2 DEF ClientOK, OutcomesOK, PushTypes, TypeOK
  <1>4. SessionStep(c)
    BY <1>1, <1>2, <1>3, CommandNames DEF SessionStep, PushTypes, TypeOK, InSession
  <1>5. Grows /\ pc[c] \in InSession
    BY <1>1, <1>2 DEF Grows, InSession
  <1>6. ServerOK' /\ SerialOK'
    BY <1>1, <1>2, <1>3 DEF ServerOK, SerialOK
  <1>7. OutcomesOK(c)'
    BY <1>1, <1>2, <1>3, CommandNames DEF ClientOK, OutcomesOK
  <1>8. busy'[c].new \in sObjs' \cup {None}
    BY <1>2, <1>3, NoCommandType
  <1> QED BY <1>1, <1>2, <1>4, <1>5, <1>6, <1>7, <1>8, SessionKeeps DEF PushTypes, TypeOK

\* A command is checked: the server has the commit, and what a create or a
\* delete needs of the reference is so.
LEMMA CheckStep ==
    ASSUME PushInv, NEW c \in Client, NEW cmd \in todo[c], Check(c, cmd) PROVE PushInv'
  <1>1. PushTypes /\ ServerOK /\ SerialOK /\ ClientOK(c)
    BY DEF PushInv
  <1>2. /\ pc[c] = "apply" /\ busy[c] = NoCommand
        /\ todo' = [todo EXCEPT ![c] = todo[c] \ {cmd}]
        /\ \/ /\ Refuses(cmd) /\ UNCHANGED busy
              /\ status' = [status EXCEPT ![c] = status[c] \cup {cmd.name}]
           \/ ~Refuses(cmd) /\ UNCHANGED status /\ busy' = [busy EXCEPT ![c] = cmd]
        /\ UNCHANGED <<sRefs, sObjs, was, serial, cRefs, cObjs, track, shallow, pc, mode,
                       adv, cmds, pack, applied>>
    BY DEF Check, server, client, request
  <1>3. cmd \in cmds[c] /\ cmd \in Command /\ cmd.name \in Name /\ cmd # NoCommand
    BY <1>1, CommandNames DEF PushTypes, TypeOK, ClientOK, CommandsOK, Command
  <1>4. /\ todo'[c] = todo[c] \ {cmd}
        /\ \/ busy'[c] = NoCommand /\ status'[c] = status[c] \cup {cmd.name}
           \/ busy'[c] = cmd /\ ~Refuses(cmd) /\ status'[c] = status[c]
        /\ \A d \in Client \ {c} :
              todo'[d] = todo[d] /\ busy'[d] = busy[d] /\ status'[d] = status[d]
    BY <1>1, <1>2 DEF PushTypes, TypeOK
  <1>5. SessionStep(c)
    <2>1. todo' \in [Client -> SUBSET Command] /\ status' \in [Client -> SUBSET Name]
          /\ busy' \in [Client -> Command]
      BY <1>1, <1>2, <1>3 DEF PushTypes
    <2> QED BY <1>1, <1>2, <1>3, <1>4, <2>1 DEF SessionStep, PushTypes, TypeOK, InSession
  <1>6. Grows /\ pc[c] \in InSession
    BY <1>1, <1>2 DEF Grows, InSession
  <1>7. ServerOK'
    BY <1>1, <1>2 DEF ServerOK
  <1>8. ASSUME ~Refuses(cmd)
        PROVE  /\ cmd.new \in sObjs \cup {None}
               /\ Action(cmd) = "create" => sRefs[cmd.name] = None
               /\ Action(cmd) = "delete" => sRefs[cmd.name] = cmd.old
    <2>1. cmd.old \in sObjs \cup {None}
      BY <1>1, <1>3 DEF ClientOK, PackOK
    <2>2. cmd.new # None => cmd.new \in sObjs
      BY <1>8 DEF Refuses, Action
    <2>3. Action(cmd) = "create" => sRefs[cmd.name] = None
      BY <1>8 DEF Refuses
    <2>4. ASSUME Action(cmd) = "delete" PROVE sRefs[cmd.name] = cmd.old
      <3>1. cmd.new = None
        BY <2>4 DEF Action
      <3>2. cmd.old # None
        BY <1>1, <1>3, <3>1 DEF ClientOK, CommandsOK
      <3> QED BY <1>8, <2>1, <2>4, <3>2 DEF Refuses
    <2> QED BY <2>2, <2>3, <2>4
  <1>9. SerialOK'
    BY <1>1, <1>2, <1>4, <1>8 DEF SerialOK
  <1>10. OutcomesOK(c)'
    <2>1. ASSUME NEW x \in cmds[c]
          PROVE  x.name \in applied[c] \cup status'[c] \/ x \in todo'[c] \/ x = busy'[c]
      <3>1. CASE x = cmd
        BY <1>4, <3>1
      <3>2. CASE x # cmd
        <4>1. x # busy[c]
          BY <1>1, <1>2, <2>1 DEF ClientOK, CommandsOK
        <4>2. x.name \in applied[c] \cup status[c] \/ x \in todo[c]
          BY <1>1, <2>1, <4>1 DEF ClientOK, OutcomesOK
        <4> QED BY <1>4, <3>2, <4>2
      <3> QED BY <3>1, <3>2
    <2>2. \A n \in applied[c] : \E x \in cmds[c] : x.name = n /\ x.new \in was[n]
      BY <1>1 DEF ClientOK, OutcomesOK
    <2> QED BY <1>2, <2>1, <2>2 DEF OutcomesOK
  <1>11. busy'[c].new \in sObjs' \cup {None}
    BY <1>2, <1>4, <1>8, NoCommandType
  <1> QED BY <1>1, <1>2, <1>5, <1>6, <1>7, <1>9, <1>10, <1>11, SessionKeeps
         DEF PushTypes, TypeOK

\* A command is written: the reference names a commit the server has.
LEMMA WriteStep ==
    ASSUME PushInv, NEW c \in Client, Write(c) PROVE PushInv'
  <1> DEFINE cmd == busy[c]
             written == /\ sRefs' = [sRefs EXCEPT ![cmd.name] = cmd.new]
                        /\ was' = [was EXCEPT ![cmd.name] = was[cmd.name] \cup {cmd.new}]
                        /\ applied' = [applied EXCEPT ![c] = applied[c] \cup {cmd.name}]
                        /\ UNCHANGED status
             failed == /\ status' = [status EXCEPT ![c] = status[c] \cup {cmd.name}]
                       /\ UNCHANGED <<sRefs, was, applied>>
  <1>1. PushTypes /\ ServerOK /\ SerialOK /\ ClientOK(c)
    BY DEF PushInv
  <1>2. /\ pc[c] = "apply" /\ cmd # NoCommand /\ busy' = [busy EXCEPT ![c] = NoCommand]
        /\ written \/ failed
        /\ UNCHANGED <<sObjs, serial, cRefs, cObjs, track, shallow, pc, mode, adv, cmds,
                       pack, todo>>
    BY DEF Write, client, request
  <1>3. /\ cmd \in cmds[c] /\ cmd \in Command /\ cmd.name \in Name /\ cmd.new \in Value
        /\ cmd.new \in sObjs \cup {None}
    BY <1>1, <1>2, CommandNames DEF PushTypes, TypeOK, ClientOK, PackOK, Command
  <1>4. busy'[c] = NoCommand /\ \A d \in Client \ {c} : busy'[d] = busy[d]
    BY <1>1, <1>2 DEF PushTypes
  <1> HIDE DEF cmd
  <1>5. SessionStep(c)
    <2>1. status' \in [Client -> SUBSET Name] /\ applied' \in [Client -> SUBSET Name]
      BY <1>1, <1>2, <1>3 DEF PushTypes
    <2>2. \A d \in Client \ {c} : status'[d] = status[d] /\ applied'[d] = applied[d]
      BY <1>1, <1>2 DEF PushTypes
    <2>3. busy' \in [Client -> Command]
      BY <1>1, <1>2, NoCommandType DEF PushTypes
    <2> QED BY <1>1, <1>2, <1>4, <2>1, <2>2, <2>3 DEF SessionStep, PushTypes, TypeOK, InSession
  <1>6. sRefs' \in [Name -> Value] /\ was' \in [Name -> SUBSET Value]
    <2>1. CASE written
      <3>1. sRefs' \in [Name -> Value]
        BY <1>1, <1>3, <2>1 DEF PushTypes, TypeOK
      <3>2. was' \in [Name -> SUBSET Value]
        BY <1>1, <1>3, <2>1 DEF PushTypes
      <3> QED BY <3>1, <3>2
    <2>2. CASE failed
      BY <1>1, <2>2 DEF PushTypes, TypeOK
    <2> QED BY <1>2, <2>1, <2>2
  <1>7. Grows /\ pc[c] \in InSession
    BY <1>1, <1>2, <1>3 DEF Grows, InSession, PushTypes
  <1>8. ServerOK'
    <2>1. ASSUME NEW n \in Name
          PROVE  sRefs'[n] \in sObjs \cup {None} /\ sRefs'[n] \in was'[n]
      <3>1. CASE written /\ n = cmd.name
        BY <1>1, <1>3, <3>1 DEF PushTypes, TypeOK
      <3>2. CASE written /\ n # cmd.name
        BY <1>1, <1>3, <3>2 DEF PushTypes, TypeOK, ServerOK
      <3>3. CASE failed
        BY <1>1, <3>3 DEF ServerOK
      <3> QED BY <1>2, <3>1, <3>2, <3>3
    <2> QED BY <1>1, <1>2, <2>1 DEF ServerOK
  <1>9. SerialOK'
    <2>1. ASSUME serial, NEW d \in Client PROVE busy'[d] = NoCommand
      <3>1. CASE d = c
        BY <1>4, <3>1
      <3>2. CASE d # c
        <4>1. pc[d] # "apply"
          BY <1>1, <1>2, <2>1, <3>2 DEF SerialOK
        <4> QED BY <1>1, <1>4, <3>2, <4>1 DEF PushTypes, TypeOK
      <3> QED BY <3>1, <3>2
    <2> QED BY <1>1, <1>2, <2>1 DEF SerialOK
  <1>10. OutcomesOK(c)'
    <2>1. /\ cmd.name \in applied'[c] \cup status'[c]
          /\ applied[c] \subseteq applied'[c] /\ status[c] \subseteq status'[c]
      BY <1>1, <1>2, <1>3 DEF PushTypes
    <2>2. ASSUME NEW x \in cmds[c]
          PROVE  x.name \in applied'[c] \cup status'[c] \/ x \in todo[c]
      BY <1>1, <1>2, <2>1, <2>2 DEF ClientOK, OutcomesOK, cmd
    <2>3. ASSUME NEW n \in applied'[c]
          PROVE  \E x \in cmds[c] : x.name = n /\ x.new \in was'[n]
      <3>1. CASE n \in applied[c]
        <4>1. PICK x \in cmds[c] : x.name = n /\ x.new \in was[n]
          BY <1>1, <3>1 DEF ClientOK, OutcomesOK
        <4>2. n \in Name
          BY <1>1, <3>1 DEF PushTypes
        <4> QED BY <1>7, <4>1, <4>2 DEF Grows
      <3>2. CASE n \notin applied[c]
        <4>1. written /\ n = cmd.name
          BY <1>1, <1>2, <2>3, <3>2 DEF PushTypes
        <4>2. cmd.new \in was'[n]
          BY <1>1, <1>3, <4>1 DEF PushTypes
        <4> QED BY <1>3, <4>1, <4>2
      <3> QED BY <3>1, <3>2
    <2> QED BY <1>2, <2>2, <2>3 DEF OutcomesOK
  <1>11. busy'[c].new \in sObjs' \cup {None}
    BY <1>4, NoCommandType
  <1>12. sObjs' \in SUBSET Commit
    BY <1>1, <1>2 DEF PushTypes, TypeOK
  <1> QED BY <1>5, <1>6, <1>7, <1>8, <1>9, <1>10, <1>11, <1>12, SessionKeeps

\* Every command has been dealt with when the session comes to its report.
LEMMA AppliedStep ==
    ASSUME PushInv, NEW c \in Client, Applied(c) PROVE PushInv'
  <1>1. PushTypes /\ ServerOK /\ SerialOK /\ ClientOK(c)
    BY DEF PushInv
  <1>2. /\ pc[c] = "apply" /\ busy[c] = NoCommand /\ todo[c] = {}
        /\ pc' = [pc EXCEPT ![c] = "report"]
        /\ UNCHANGED <<sRefs, sObjs, was, serial, cRefs, cObjs, track, shallow, mode, adv,
                       cmds, pack, todo, busy, status, applied>>
    BY DEF Applied, server, client, request, session
  <1>3. pc'[c] = "report" /\ \A d \in Client \ {c} : pc'[d] = pc[d]
    BY <1>1, <1>2 DEF PushTypes, TypeOK
  <1>4. SessionStep(c)
    BY <1>1, <1>2, <1>3 DEF SessionStep, PushTypes, TypeOK, InSession
  <1>5. Grows /\ pc[c] \in InSession
    BY <1>2 DEF Grows, InSession
  <1>6. ServerOK' /\ SerialOK'
    BY <1>1, <1>2, <1>3 DEF ServerOK, SerialOK
  <1>7. OutcomesOK(c)'
    <2>1. ASSUME NEW x \in cmds[c] PROVE x.name \in applied[c] \cup status[c]
      <3>1. x # NoCommand
        BY <1>1 DEF ClientOK, CommandsOK
      <3> QED BY <1>1, <1>2, <3>1 DEF ClientOK, OutcomesOK
    <2>2. \A n \in applied[c] : \E x \in cmds[c] : x.name = n /\ x.new \in was[n]
      BY <1>1 DEF ClientOK, OutcomesOK
    <2> QED BY <1>2, <1>3, <2>1, <2>2 DEF OutcomesOK
  <1>8. busy'[c].new \in sObjs' \cup {None}
    BY <1>2, NoCommandType
  <1> QED BY <1>1, <1>2, <1>4, <1>5, <1>6, <1>7, <1>8, SessionKeeps DEF PushTypes, TypeOK

\* What a report without an error lets the client record.
LEMMA TrackedIsTrue ==
    ASSUME PushInv, NEW c \in Client, pc[c] = "report", status[c] = {}
    PROVE  /\ TrackCommands(c) \in [Name -> Value]
           /\ \A n \in Name : TrackCommands(c)[n] \in was[n]
  <1>1. PushTypes /\ ClientOK(c)
    BY DEF PushInv
  <1>2. ASSUME NEW n \in Name, \E cmd \in cmds[c] : cmd.name = n
        PROVE  /\ (CHOOSE cmd \in cmds[c] : cmd.name = n).new \in was[n]
               /\ (CHOOSE cmd \in cmds[c] : cmd.name = n).new \in Value
    <2> DEFINE x == CHOOSE cmd \in cmds[c] : cmd.name = n
    <2>1. x \in cmds[c] /\ x.name = n
      BY <1>2
    <2> HIDE DEF x
    <2>2. n \in applied[c]
      BY <1>1, <2>1 DEF ClientOK, OutcomesOK
    <2>3. PICK y \in cmds[c] : y.name = n /\ y.new \in was[n]
      BY <1>1, <2>2 DEF ClientOK, OutcomesOK
    <2>4. x = y
      BY <1>1, <2>1, <2>3 DEF ClientOK, CommandsOK
    <2>5. x.new \in Value
      BY <1>1, <2>1, CommandNames DEF Command
    <2> QED BY <2>3, <2>4, <2>5 DEF x
  <1>3. ASSUME NEW n \in Name PROVE track[c][n] \in was[n] /\ track[c][n] \in Value
    BY <1>1 DEF ClientOK, CloneOK, PushTypes, TypeOK
  <1> QED BY <1>2, <1>3 DEF TrackCommands

\* The client reads the report, or loses it.
LEMMA ReportStep ==
    ASSUME PushInv, NEW c \in Client, Report(c) \/ ReportLost(c) PROVE PushInv'
  <1>1. PushTypes /\ ClientOK(c)
    BY DEF PushInv
  <1>2. /\ pc[c] = "report" /\ Return(c)
        /\ UNCHANGED <<sRefs, sObjs, was, serial, cRefs, cObjs, shallow>>
        /\ \/ track' = track
           \/ status[c] = {} /\ track' = [track EXCEPT ![c] = TrackCommands(c)]
    <2>1. CASE Report(c)
      <3>1. CASE status[c] = {}
        BY <2>1, <3>1 DEF Report, server
      <3>2. CASE status[c] # {}
        BY <1>1, <2>1, <3>2 DEF Report, server, PushTypes, TypeOK
      <3> QED BY <3>1, <3>2
    <2>2. CASE ReportLost(c)
      BY <2>2 DEF ReportLost, server, client
    <2> QED BY <2>1, <2>2
  <1>3. busy[c] = NoCommand /\ Grows
    BY <1>1, <1>2 DEF PushTypes, TypeOK, Grows
  <1>4. /\ \A d \in Client \ {c} : track'[d] = track[d]
        /\ track' \in [Client -> [Name -> Value]]
        /\ \A n \in Name : track'[c][n] \in was[n]
    <2>1. CASE track' = track
      BY <1>1, <2>1 DEF ClientOK, CloneOK, PushTypes, TypeOK
    <2>2. CASE status[c] = {} /\ track' = [track EXCEPT ![c] = TrackCommands(c)]
      <3>1. track'[c] = TrackCommands(c) /\ \A d \in Client \ {c} : track'[d] = track[d]
        BY <1>1, <2>2 DEF PushTypes, TypeOK
      <3>2. /\ TrackCommands(c) \in [Name -> Value]
            /\ \A n \in Name : TrackCommands(c)[n] \in was[n]
        BY <1>2, <2>2, TrackedIsTrue
      <3>3. track' \in [Client -> [Name -> Value]]
        BY <1>1, <2>2, <3>2 DEF PushTypes, TypeOK
      <3> QED BY <3>1, <3>2, <3>3
    <2> QED BY <1>2, <2>1, <2>2
  <1> QED BY <1>2, <1>3, <1>4, ReturnStep

\* Everybody starts from the history of Base, or from Base alone.
LEMMA InitOK == Init => PushInv
  <1> SUFFICES ASSUME Init PROVE PushInv
    OBVIOUS
  <1>1. PICK kind \in [Client -> Kinds] :
           /\ shallow = [c \in Client |-> IF kind[c] = "full" THEN {} ELSE {Base}]
           /\ cObjs = [c \in Client |-> Reach({Base}, shallow[c])]
    BY DEF Init
  <1>2. sObjs \in SUBSET Commit /\ Base \in sObjs /\ ParentClosed(sObjs, {})
    <2>1. {Base} \in SUBSET Commit
      BY NamesAssumption
    <2> QED BY <2>1, ReachProperties DEF Init, History
  <1>3. ASSUME NEW c \in Client
        PROVE  /\ shallow[c] \subseteq {Base} /\ cObjs[c] \in SUBSET Commit
               /\ Base \in cObjs[c] /\ ParentClosed(cObjs[c], shallow[c])
    <2>1. {Base} \in SUBSET Commit
      BY NamesAssumption
    <2>2. cObjs[c] = Reach({Base}, shallow[c]) /\ shallow[c] \subseteq {Base}
      BY <1>1
    <2> QED BY <2>1, <2>2, ReachProperties
  <1>4. /\ sRefs \in [Name -> Value] /\ Base \in Value /\ NoRefs \in [Name -> Value]
        /\ \A n \in Name : sRefs[n] \in {Base, None}
    BY NamesAssumption DEF Init, NoRefs, Value
  <1>5. PushTypes
    <2>1. shallow \in [Client -> SUBSET Commit] /\ cObjs \in [Client -> SUBSET Commit]
      BY <1>1, <1>3, NamesAssumption
    <2>2. /\ serial \in BOOLEAN /\ cRefs \in [Client -> [Name -> Value]]
          /\ track \in [Client -> [Name -> Value]] /\ adv \in [Client -> [Name -> Value]]
          /\ pc \in [Client -> {"idle", "plan"} \cup InSession]
      BY <1>4, NamesAssumption DEF Init
    <2>3. /\ mode \in [Client -> Modes \cup {"none"}] /\ cmds \in [Client -> SUBSET Command]
          /\ pack \in [Client -> SUBSET Commit] /\ todo \in [Client -> SUBSET Command]
          /\ busy \in [Client -> Command] /\ status \in [Client -> SUBSET Name]
          /\ applied \in [Client -> SUBSET Name] /\ was \in [Name -> SUBSET Value]
      BY <1>4, NoCommandType DEF Init
    <2>4. \A c \in Client : todo[c] = {} /\ cmds[c] = {} /\ pack[c] = {} /\ busy[c] = NoCommand
      BY DEF Init
    <2> QED BY <1>2, <1>4, <2>1, <2>2, <2>3, <2>4 DEF PushTypes, TypeOK
  <1>6. ServerOK
    <2>1. \A n \in Name : was[n] = {sRefs[n]}
      BY DEF Init
    <2> QED BY <1>2, <1>4, <2>1 DEF ServerOK
  <1>7. SerialOK
    <2>1. \A c \in Client : pc[c] # "apply" /\ busy[c] = NoCommand
      BY DEF Init
    <2> QED BY <2>1 DEF SerialOK
  <1>8. ASSUME NEW c \in Client PROVE ClientOK(c)
    <2>1. /\ cRefs[c] = sRefs /\ track[c] = sRefs /\ adv[c] = NoRefs /\ pc[c] = "idle"
          /\ cmds[c] = {} /\ pack[c] = {} /\ todo[c] = {} /\ busy[c] = NoCommand
          /\ status[c] = {} /\ applied[c] = {}
          /\ \A n \in Name : was[n] = {sRefs[n]}
      BY DEF Init
    <2>2. Tips(sRefs) \subseteq {Base} /\ Tips(NoRefs) = {}
      BY <1>4 DEF Tips, NoRefs
    <2>3. CloneOK(c)
      BY <1>2, <1>3, <2>1, <2>2 DEF CloneOK
    <2>4. PackOK(c)
      BY <2>1, <2>2, NoCommandType DEF PackOK
    <2>5. CommandsOK(c) /\ OutcomesOK(c)
      BY <2>1 DEF CommandsOK, OutcomesOK
    <2> QED BY <2>3, <2>4, <2>5 DEF ClientOK
  <1> QED BY <1>5, <1>6, <1>7, <1>8 DEF PushInv

\* A step that changes nothing.
LEMMA StutterKeeps == ASSUME PushInv, UNCHANGED vars PROVE PushInv'
  <1>1. UNCHANGED <<sRefs, sObjs, was, serial, cRefs, cObjs, track, shallow, pc, mode, adv,
                    cmds, pack, todo, busy, status, applied>>
    BY DEF vars, server, client, request, session
  <1>2. PushTypes' /\ ServerOK' /\ SerialOK'
    BY <1>1 DEF PushInv, PushTypes, TypeOK, ServerOK, SerialOK
  <1>3. Grows /\ \A d \in Client : Apart(d)
    BY <1>1 DEF Grows, Apart
  <1> QED BY <1>2, <1>3, OthersKeep DEF PushInv

\* Every step of the system keeps the invariant.
LEMMA StepKeeps == PushInv /\ [Next]_vars => PushInv'
  <1> SUFFICES ASSUME PushInv, [Next]_vars PROVE PushInv'
    OBVIOUS
  <1>1. CASE UNCHANGED vars
    BY <1>1, StutterKeeps
  <1>2. ASSUME NEW c \in Client, NEW n \in Name, NEW x \in Value, Move(c, n, x) PROVE PushInv'
    BY <1>2, MoveStep
  <1>3. ASSUME NEW c \in Client, Fetch(c) \/ Advertise(c) PROVE PushInv'
    BY <1>3, FetchStep, AdvertiseStep
  <1>4. ASSUME NEW c \in Client, Step(c) PROVE PushInv'
    <2>1. CASE SendPack(c)
      BY <2>1, SendPackStep
    <2>2. CASE Receive(c) \/ UnpackFails(c)
      BY <2>2, ReceiveStep, UnpackFailsStep
    <2>3. CASE \E cmd \in todo[c] : Check(c, cmd)
      BY <2>3, CheckStep
    <2>4. CASE Write(c) \/ Applied(c)
      BY <2>4, WriteStep, AppliedStep
    <2>5. CASE Report(c) \/ ReportLost(c)
      BY <2>5, ReportStep
    <2> QED BY <1>4, <2>1, <2>2, <2>3, <2>4, <2>5 DEF Step
  <1>5. CASE Quiet
    BY <1>5, StutterKeeps DEF Quiet
  <1> QED BY <1>1, <1>2, <1>3, <1>4, <1>5 DEF Next

\* The inductive invariant holds in every state of every behaviour.
THEOREM PushInvariant == Spec => []PushInv
  BY InitOK, StepKeeps, PTL DEF Spec
-----------------------------------------------------------------------------
(* The properties.                                                          *)

(***************************************************************************)
(* The shape of the state is kept by every step: what a session has left   *)
(* to do and what it writes are commands of its request, the pack holds    *)
(* commits of the clone, and only updateReferences has a command under     *)
(* way.                                                                    *)
(***************************************************************************)
THEOREM PushTypesHold == Spec => []TypeOK
  <1>1. PushInv => TypeOK
    BY DEF PushInv, PushTypes
  <1> QED BY <1>1, PushInvariant, PTL

(***************************************************************************)
(* The server has the whole history of each of its references, for any     *)
(* commit graph, any number of clients and any interleaving of their       *)
(* sessions, although updateReferences looks up the commit alone.          *)
(***************************************************************************)
THEOREM ServerHasHistory == Spec => []ServerComplete
  <1>1. PushInv => ServerComplete
    <2> SUFFICES ASSUME PushInv PROVE ServerComplete
      OBVIOUS
    <2>1. PushTypes /\ ServerOK
      BY DEF PushInv
    <2>2. Tips(sRefs) \in SUBSET Commit /\ Tips(sRefs) \subseteq sObjs
      BY <2>1, TipsType DEF ServerOK, PushTypes, TypeOK, Tips
    <2>3. sObjs \in SUBSET Commit /\ ParentClosed(sObjs, {})
      BY <2>1 DEF ServerOK, PushTypes, TypeOK
    <2> QED BY <2>2, <2>3, ReachProperties DEF ServerComplete, History
  <1> QED BY <1>1, PushInvariant, PTL

(***************************************************************************)
(* A report without an error means that every command has been written:    *)
(* the status that updateReferences collects loses no failure.             *)
(***************************************************************************)
THEOREM OkIsApplied == Spec => []OkMeansApplied
  <1>1. PushInv => OkMeansApplied
    <2> SUFFICES ASSUME PushInv, NEW c \in Client, pc[c] = "report", status[c] = {}
                 PROVE  applied[c] = {cmd.name : cmd \in cmds[c]}
      BY DEF OkMeansApplied
    <2>1. OutcomesOK(c)
      BY DEF PushInv, ClientOK
    <2> QED BY <2>1 DEF OutcomesOK
  <1> QED BY <1>1, PushInvariant, PTL

(***************************************************************************)
(* A remote-tracking reference only ever holds a value the server's        *)
(* reference has had, whatever the commands of a push met and whether or   *)
(* not its report arrived.                                                 *)
(***************************************************************************)
THEOREM TrackingIsTrue == Spec => []TrackingWasTrue
  <1>1. PushInv => TrackingWasTrue
    BY DEF PushInv, ClientOK, CloneOK, TrackingWasTrue
  <1> QED BY <1>1, PushInvariant, PTL

\* A command under way ends by its own session's write only.
LEMMA OnlyWriteWrites ==
    ASSUME PushInv, [Next]_vars, NEW c \in Client, busy[c] # NoCommand, busy'[c] = NoCommand
    PROVE  Write(c)
  <1>1. busy \in [Client -> Command] /\ (pc[c] = "apply")
    BY DEF PushInv, PushTypes, TypeOK
  <1>2. CASE UNCHANGED busy
    BY <1>2
  <1>3. ASSUME NEW d \in Client, NEW cmd \in todo[d], Check(d, cmd) PROVE FALSE
    <2>1. busy[d] = NoCommand /\ (busy' = busy \/ busy' = [busy EXCEPT ![d] = cmd])
      BY <1>3 DEF Check
    <2> QED BY <1>1, <2>1
  <1>4. ASSUME NEW d \in Client, Write(d) PROVE d = c
    <2>1. busy' = [busy EXCEPT ![d] = NoCommand]
      BY <1>4 DEF Write
    <2> QED BY <1>1, <2>1
  <1>5. ASSUME NEW d \in Client, Step(d) PROVE UNCHANGED busy \/ Write(c)
    <2>1. CASE SendPack(d)
      BY <2>1 DEF SendPack, Return
    <2>2. CASE Receive(d) \/ UnpackFails(d)
      BY <2>2 DEF Receive, UnpackFails
    <2>3. CASE Applied(d)
      BY <2>3 DEF Applied, session
    <2>4. CASE Report(d) \/ ReportLost(d)
      BY <2>4 DEF Report, ReportLost, Return
    <2> QED BY <1>3, <1>4, <1>5, <2>1, <2>2, <2>3, <2>4 DEF Step
  <1>6. ASSUME NEW d \in Client, Fetch(d) \/ Advertise(d) PROVE UNCHANGED busy
    BY <1>6 DEF Fetch, Advertise, session
  <1>7. ASSUME NEW d \in Client, NEW n \in Name, NEW x \in Value, Move(d, n, x)
        PROVE  UNCHANGED busy
    BY <1>7 DEF Move, session
  <1>8. CASE Quiet \/ UNCHANGED vars
    BY <1>8 DEF Quiet, vars, session
  <1> QED BY <1>2, <1>5, <1>6, <1>7, <1>8 DEF Next

\* What a write does to its reference.
LEMMA WriteEffect ==
    ASSUME PushInv, NEW c \in Client, Write(c)
    PROVE  /\ busy[c] \in cmds[c] /\ busy[c] \in Command
           /\ busy[c].new \in sObjs \cup {None} /\ busy[c].old \in sObjs \cup {None}
           /\ \/ UNCHANGED sRefs
              \/ /\ WriteSucceeds(busy[c])
                 /\ sRefs'[busy[c].name] = busy[c].new
  <1>1. PushTypes /\ ClientOK(c) /\ busy[c] # NoCommand
    BY DEF PushInv, Write
  <1>2. busy[c] \in cmds[c] /\ busy[c] \in Command
    BY <1>1, CommandNames DEF PushTypes, TypeOK
  <1>3. busy[c].new \in sObjs \cup {None} /\ busy[c].old \in sObjs \cup {None}
    BY <1>1, <1>2 DEF ClientOK, PackOK
  <1>4. \/ UNCHANGED sRefs
        \/ /\ WriteSucceeds(busy[c])
           /\ sRefs' = [sRefs EXCEPT ![busy[c].name] = busy[c].new]
    BY DEF Write
  <1>5. sRefs \in [Name -> Value] /\ busy[c].name \in Name
    BY <1>1, <1>2 DEF PushTypes, TypeOK, Command
  <1> QED BY <1>2, <1>3, <1>4, <1>5

(***************************************************************************)
(* ForceWithLease holds at the write: the value a leased push replaces is  *)
(* the hash it names or else the one its tracking reference shows, however *)
(* other sessions moved the reference since the advertisement.             *)
(***************************************************************************)
THEOREM LeasesHold == Spec => LeaseHolds
  <1> DEFINE Ok == \A c \in Client, n \in Name :
                      Writes(c, n) /\ sRefs'[n] # sRefs[n] /\ LeaseOn(c, n)
                      => sRefs[n] = Expected(c, n)
  <1>1. PushInv /\ [Next]_vars => [Ok]_vars
    <2> SUFFICES ASSUME PushInv, [Next]_vars, NEW c \in Client, NEW n \in Name,
                        Writes(c, n), sRefs'[n] # sRefs[n], LeaseOn(c, n)
                 PROVE  sRefs[n] = Expected(c, n)
      OBVIOUS
    <2>1. Write(c) /\ busy[c].name = n
      BY OnlyWriteWrites DEF Writes
    <2>2. busy[c] \in cmds[c] /\ WriteSucceeds(busy[c])
      BY <2>1, WriteEffect
    <2>3. CommandsOK(c)
      BY DEF PushInv, ClientOK
    <2>4. busy[c].old # None /\ busy[c].old = Expected(c, n) /\ busy[c].new # None
      BY <2>1, <2>2, <2>3 DEF CommandsOK, LeaseOn
    <2>5. Action(busy[c]) = "update"
      BY <2>4 DEF Action
    <2> QED BY <2>1, <2>2, <2>4, <2>5 DEF WriteSucceeds
  <1> QED BY <1>1, PushInvariant, PTL DEF Spec, LeaseHolds

(***************************************************************************)
(* No push of a full clone takes commits out of a branch unless its user   *)
(* asked to replace or remove the very value the branch has, for any       *)
(* commit graph and however sessions interleave; creates and deletes need  *)
(* the serialised writers that ReceivePack asks of its callers.            *)
(***************************************************************************)
THEOREM PushesKeepHistory == Spec => PushKeepsHistory
  <1> DEFINE Ok == \A c \in Client, n \in Name :
                      Drops(c, n) => shallow[c] # {} \/ Unserialised(c)
  <1>1. PushInv /\ [Next]_vars => [Ok]_vars
    <2> SUFFICES ASSUME PushInv, [Next]_vars, NEW c \in Client, NEW n \in Name,
                        Drops(c, n), shallow[c] = {}, ~ Unserialised(c)
                 PROVE  FALSE
      OBVIOUS
    <2>1. Write(c) /\ busy[c].name = n /\ ~ Deliberate(c, n) /\ busy[c] # NoCommand
      BY OnlyWriteWrites DEF Drops, Writes
    <2>2. ~ (History({sRefs[n]} \ {None}) \subseteq History({sRefs'[n]} \ {None}))
      BY DEF Drops
    <2>3. sRefs' # sRefs
      BY <2>2
    <2>4. /\ busy[c] \in cmds[c] /\ busy[c] \in Command /\ WriteSucceeds(busy[c])
          /\ sRefs'[n] = busy[c].new
      BY <2>1, <2>3, WriteEffect
    <2>5. CommandsOK(c) /\ SerialOK /\ serial \in BOOLEAN
      BY DEF PushInv, ClientOK, PushTypes, TypeOK
    <2>6. CASE Action(busy[c]) = "update"
      <3>1. sRefs[n] = busy[c].old /\ busy[c].old # None /\ busy[c].new # None
        BY <2>1, <2>4, <2>6 DEF WriteSucceeds, Action
      <3>2. mode[c] \notin {"force", "lease", "leaseOne", "leaseAt"}
        BY <2>1, <3>1 DEF Deliberate
      <3>3. busy[c].old \in History({busy[c].new})
        BY <2>4, <2>5, <3>1, <3>2 DEF CommandsOK
      <3>4. busy[c].old \in Commit /\ busy[c].new \in Commit
        BY <2>4, <3>1 DEF Command, Value
      <3>5. History({busy[c].old}) \subseteq History({busy[c].new})
        BY <3>3, <3>4, HistoryGrows
      <3>6. {sRefs[n]} \ {None} = {busy[c].old} /\ {sRefs'[n]} \ {None} = {busy[c].new}
        BY <2>4, <3>1
      <3> QED BY <2>2, <3>5, <3>6
    <2>7. CASE Action(busy[c]) = "create"
      <3>1. sRefs[n] = None
        BY <2>1, <2>5, <2>7 DEF SerialOK, Unserialised
      <3>2. History({}) = {}
        BY ReachIsLeast DEF History
      <3>3. {sRefs[n]} \ {None} = {}
        BY <3>1
      <3> QED BY <2>2, <3>2, <3>3
    <2>8. CASE Action(busy[c]) = "delete"
      <3>1. sRefs[n] = busy[c].old /\ busy[c].new = None
        BY <2>1, <2>5, <2>8 DEF SerialOK, Unserialised, Action
      <3>2. mode[c] \in {"delete", "prune"}
        BY <2>4, <2>5, <3>1 DEF CommandsOK
      <3> QED BY <2>1, <3>1, <3>2 DEF Deliberate
    <2>9. busy[c].new = None => busy[c].old # None
      BY <2>4, <2>5 DEF CommandsOK
    <2> QED BY <2>6, <2>7, <2>8, <2>9 DEF Action
  <1> QED BY <1>1, PushInvariant, PTL DEF Spec, PushKeepsHistory
=============================================================================
