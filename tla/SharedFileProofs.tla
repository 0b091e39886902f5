-------------------------- MODULE SharedFileProofs --------------------------
(***************************************************************************)
(* The safety properties of SharedFile hold for any number of goroutines    *)
(* and files and any pool capacity.                                         *)
(***************************************************************************)
EXTENDS SharedFile, FiniteSetTheorems, SequenceTheorems, TLAPS

\* A sequence whose elements are pairwise different.
Distinct(s) == \A i, j \in 1..Len(s) : s[i] = s[j] => i = j

-----------------------------------------------------------------------------
(* Lemmas on the list operations.                                           *)

\* What container/list.Remove leaves: one element fewer, the rest in order.
LEMMA RemoveAtElements ==
    ASSUME NEW S, NEW s \in Seq(S), NEW i \in 1..Len(s)
    PROVE  /\ RemoveAt(s, i) \in Seq(S)
           /\ Len(RemoveAt(s, i)) = Len(s) - 1
           /\ \A j \in 1..(Len(s) - 1) :
                RemoveAt(s, i)[j] = IF j < i THEN s[j] ELSE s[j + 1]
<1> DEFINE a == SubSeq(s, 1, i - 1)
           b == SubSeq(s, i + 1, Len(s))
<1>1. a \in Seq(S) /\ Len(a) = i - 1 /\ \A j \in 1..(i - 1) : a[j] = s[j]
  OBVIOUS
<1>2. /\ b \in Seq(S) /\ Len(b) = Len(s) - i
      /\ \A j \in 1..(Len(s) - i) : b[j] = s[i + j]
  OBVIOUS
<1>3. /\ a \o b \in Seq(S)
      /\ Len(a \o b) = Len(s) - 1
      /\ \A j \in 1..(Len(s) - 1) : (a \o b)[j] = IF j < i THEN s[j] ELSE s[j + 1]
  <2> HIDE DEF a, b
  <2>1. a \o b \in Seq(S) /\ Len(a \o b) = Len(a) + Len(b)
    BY <1>1, <1>2, ConcatProperties
  <2>2. ASSUME NEW j \in 1..(Len(s) - 1)
        PROVE  (a \o b)[j] = IF j < i THEN s[j] ELSE s[j + 1]
    <3>1. CASE j < i
      BY <1>1, <1>2, <3>1
    <3>2. CASE ~(j < i)
      <4>1. (a \o b)[j] = b[j - (i - 1)]
        BY <1>1, <1>2, <3>2
      <4>2. b[j - (i - 1)] = s[i + (j - (i - 1))]
        BY <1>2, <3>2
      <4> QED BY <4>1, <4>2, <3>2
    <3> QED BY <3>1, <3>2
  <2>3. Len(a) + Len(b) = Len(s) - 1
    BY <1>1, <1>2
  <2> QED BY <2>1, <2>2, <2>3
<1> QED BY <1>3 DEF RemoveAt

\* Removing position i of a list without repetitions removes exactly s[i].
LEMMA RemoveAtDistinct ==
    ASSUME NEW S, NEW s \in Seq(S), NEW i \in 1..Len(s), Distinct(s)
    PROVE  /\ Distinct(RemoveAt(s, i))
           /\ ToSet(RemoveAt(s, i)) = ToSet(s) \ {s[i]}
<1> DEFINE r == RemoveAt(s, i)
<1>1. /\ r \in Seq(S) /\ Len(r) = Len(s) - 1
      /\ \A j \in 1..(Len(s) - 1) : r[j] = IF j < i THEN s[j] ELSE s[j + 1]
  BY RemoveAtElements
<1> HIDE DEF r
<1>2. Distinct(r)
  BY <1>1 DEF Distinct
<1>3. ASSUME NEW x \in ToSet(r) PROVE x \in ToSet(s) \ {s[i]}
  BY <1>1, <1>3 DEF ToSet, Distinct
<1>4. ASSUME NEW x \in ToSet(s) \ {s[i]} PROVE x \in ToSet(r)
  <2>1. PICK k \in 1..Len(s) : s[k] = x
    BY DEF ToSet
  <2>2. k # i
    BY <2>1
  <2>3. CASE k < i
    BY <2>1, <2>3, <1>1 DEF ToSet
  <2>4. CASE k > i
    <3>1. k - 1 \in 1..(Len(s) - 1) /\ ~(k - 1 < i) /\ (k - 1) + 1 = k
      BY <2>4
    <3>2. r[k - 1] = s[k]
      BY <3>1, <1>1
    <3> QED BY <3>1, <3>2, <2>1, <1>1 DEF ToSet
  <2> QED BY <2>2, <2>3, <2>4
<1> QED BY <1>2, <1>3, <1>4 DEF r

\* Pushing a new element to the front keeps the list free of repetitions.
LEMMA ConsDistinct ==
    ASSUME NEW S, NEW s \in Seq(S), NEW x \in S, Distinct(s), x \notin ToSet(s)
    PROVE  /\ Cons(x, s) \in Seq(S)
           /\ Len(Cons(x, s)) = Len(s) + 1
           /\ Distinct(Cons(x, s))
           /\ ToSet(Cons(x, s)) = ToSet(s) \cup {x}
<1> DEFINE r == Cons(x, s)
<1>1. /\ r \in Seq(S) /\ Len(r) = Len(s) + 1
      /\ r[1] = x /\ \A j \in 2..(Len(s) + 1) : r[j] = s[j - 1]
  BY DEF Cons
<1> HIDE DEF r
<1>2. \A j \in 1..Len(s) : r[j + 1] = s[j]
  BY <1>1
<1>3. \A j \in 1..Len(s) : s[j] # x
  BY DEF ToSet
<1>4. Distinct(r)
  <2> SUFFICES ASSUME NEW i \in 1..(Len(s) + 1), NEW j \in 1..(Len(s) + 1),
                      r[i] = r[j], i < j
               PROVE  FALSE
    BY <1>1 DEF Distinct
  <2>1. j - 1 \in 1..Len(s) /\ r[j] = s[j - 1]
    BY <1>1
  <2>2. CASE i = 1
    BY <2>1, <2>2, <1>1, <1>3
  <2>3. CASE i # 1
    <3>1. i - 1 \in 1..Len(s) /\ r[i] = s[i - 1]
      BY <2>3, <1>1
    <3>2. s[i - 1] = s[j - 1]
      BY <3>1, <2>1
    <3>3. i - 1 = j - 1
      BY <3>1, <3>2, <2>1 DEF Distinct
    <3> QED BY <3>3
  <2> QED BY <2>2, <2>3
<1>5. ASSUME NEW y \in ToSet(r) PROVE y \in ToSet(s) \cup {x}
  <2>1. PICK k \in 1..(Len(s) + 1) : r[k] = y
    BY <1>1, <1>5 DEF ToSet
  <2>2. CASE k = 1
    BY <2>1, <2>2, <1>1
  <2>3. CASE k # 1
    BY <2>1, <2>3, <1>1 DEF ToSet
  <2> QED BY <2>2, <2>3
<1>6. ASSUME NEW y \in ToSet(s) \cup {x} PROVE y \in ToSet(r)
  <2>1. CASE y = x
    BY <2>1, <1>1 DEF ToSet
  <2>2. CASE y \in ToSet(s)
    <3>1. PICK k \in 1..Len(s) : s[k] = y
      BY <2>2 DEF ToSet
    <3>2. k + 1 \in 1..Len(r) /\ r[k + 1] = y
      BY <3>1, <1>1, <1>2
    <3> QED BY <3>2, <1>1 DEF ToSet
  <2> QED BY <1>6, <2>1, <2>2
<1> QED BY <1>1, <1>4, <1>5, <1>6 DEF r

\* Unlinking a member of a list without repetitions.
LEMMA UnlinkDistinct ==
    ASSUME NEW S, NEW s \in Seq(S), NEW x \in ToSet(s), Distinct(s)
    PROVE  /\ Unlink(s, x) \in Seq(S)
           /\ Len(Unlink(s, x)) = Len(s) - 1
           /\ Distinct(Unlink(s, x))
           /\ ToSet(Unlink(s, x)) = ToSet(s) \ {x}
<1> DEFINE i == CHOOSE i \in 1..Len(s) : s[i] = x
<1>1. \E k \in 1..Len(s) : s[k] = x
  BY DEF ToSet
<1>2. i \in 1..Len(s) /\ s[i] = x
  BY <1>1
<1> HIDE DEF i
<1>3. /\ RemoveAt(s, i) \in Seq(S)
      /\ Len(RemoveAt(s, i)) = Len(s) - 1
  BY <1>2, RemoveAtElements
<1>4. /\ Distinct(RemoveAt(s, i))
      /\ ToSet(RemoveAt(s, i)) = ToSet(s) \ {x}
  BY <1>2, RemoveAtDistinct
<1> QED BY <1>3, <1>4 DEF Unlink, i

-----------------------------------------------------------------------------
(* The inductive invariant.                                                 *)

\* Where the goroutines stand in their pool calls.
StageInv ==
    /\ \A p \in Proc : pc[p] \in {"touch", "walk", "evict", "forget"}
                           => pooled /\ arg[p] \in File
    /\ \A p \in Proc : pc[p] = "touch" => arg[p] \in held[p]
    /\ \A p \in Proc : pc[p] = "forget" => arg[p] \in closed
    /\ \A p \in Proc : pc[p] = "walk" <=> mu = p
    /\ \A p \in Proc : pc[p] = "walk" => capacity > 0 /\ walk \in 1..Len(lru)

\* An Acquire in its open function holds s.mu, and nobody else holds one.
LockInv ==
    /\ \A p \in Proc : pc[p] = "open"
                           => /\ arg[p] \in File /\ smu[arg[p]] = p
                              /\ arg[p] \notin held[p] /\ arg[p] \notin closed
    /\ PoolCalledUnlocked

\* How a SharedFile's fields depend on each other.
FileInv ==
    /\ \A f \in File : refs[f] > 0 /\ f \notin closed => f \in open
    /\ \A f \in File : f \in closed => f \notin open

\* LruMatchesHandles, in the form the list lemmas use.
LruInv ==
    /\ Distinct(lru)
    /\ linked = ToSet(lru)
    /\ lru # <<>> => Len(lru) <= capacity + (IF mu = Nobody THEN 0 ELSE 1)

IndInv ==
    /\ TypeOK /\ StageInv /\ LockInv /\ RefsMatchHolders /\ FileInv /\ LatchHasReaders
    /\ IdleHasTimer /\ LruInv /\ OpenIsGoverned

\* The initial state satisfies the invariant.
LEMMA InitIndInv == Init => IndInv
<1> SUFFICES ASSUME Init PROVE IndInv
  OBVIOUS
<1> USE ProcAssumption DEF Init
<1>1. TypeOK
  BY DEF TypeOK, Stages
<1>2. StageInv /\ LockInv
  BY DEF StageInv, LockInv, PoolCalledUnlocked
<1>3. RefsMatchHolders
  <2>1. \A f \in File : Holders(f) = {}
    BY DEF Holders
  <2> QED BY <2>1, FS_EmptySet DEF RefsMatchHolders
<1>4. FileInv /\ LatchHasReaders /\ IdleHasTimer /\ OpenIsGoverned
  BY DEF FileInv, LatchHasReaders, IdleHasTimer, OpenIsGoverned
<1>5. LruInv
  BY DEF LruInv, Distinct, ToSet
<1> QED BY <1>1, <1>2, <1>3, <1>4, <1>5 DEF IndInv

\* What moving to a stage, or returning, does to a goroutine's place and locks.
LEMMA GoToIfEffect ==
    ASSUME TypeOK, NEW p \in Proc, NEW f \in File, NEW stage \in Stages,
           NEW cond \in BOOLEAN, GoToIf(cond, p, stage, f)
    PROVE  /\ pc' \in [Proc -> Stages] /\ arg' \in [Proc -> File \cup {NoFile}]
           /\ smu' \in [File -> Proc \cup {Nobody}]
           /\ \A q \in Proc \ {p} : pc'[q] = pc[q] /\ arg'[q] = arg[q]
           /\ pc'[p] = IF cond THEN stage ELSE "idle"
           /\ cond => arg'[p] = f
           /\ \A e \in File : smu'[e] = smu[e] \/ (smu[e] = p /\ smu'[e] = Nobody)
           /\ cond => smu' = smu
           /\ ~cond => \A e \in File : smu'[e] # p \/ p = Nobody
<1>1. CASE cond
  BY <1>1 DEF GoToIf, GoTo, TypeOK
<1>2. CASE ~cond
  <2>1. /\ pc' = [pc EXCEPT ![p] = "idle"] /\ arg' = [arg EXCEPT ![p] = NoFile]
        /\ smu' = [e \in File |-> IF smu[e] = p THEN Nobody ELSE smu[e]]
    BY <1>2 DEF GoToIf, Return, GoTo, Unlock
  <2>2. "idle" \in Stages
    BY DEF Stages
  <2> QED BY <1>2, <2>1, <2>2 DEF TypeOK
<1> QED BY <1>1, <1>2

\* What ReleaseNow may do to the fields of a SharedFile.
LEMMA ReleaseNowEffect ==
    ASSUME TypeOK, NEW f \in File, ReleaseNow(f)
    PROVE  /\ gen' \in [File -> Nat] /\ timer' \in [File -> Nat]
           /\ open' \subseteq open /\ latched' \subseteq latched \cup {f}
           /\ latched \subseteq latched'
           /\ open \ {f} \subseteq open'
           /\ refs[f] > 0 => open' = open
           /\ f \in latched' \ latched => refs[f] > 0
           /\ f \in open' /\ f \notin closed => f \in latched' /\ refs[f] > 0
           /\ \A e \in File \ {f} : gen'[e] = gen[e] /\ timer'[e] = timer[e]
<1>1. CASE f \in closed
  BY <1>1 DEF ReleaseNow, TypeOK
<1>2. CASE f \notin closed
  <2>1. /\ timer'  = [timer EXCEPT ![f] = 0]
        /\ gen'    = [gen EXCEPT ![f] = @ + 1]
        /\ open'  = IF refs[f] > 0 THEN open ELSE open \ {f}
        /\ latched' = IF refs[f] > 0 THEN latched \cup {f} ELSE latched
    BY <1>2 DEF ReleaseNow
  <2>2. gen' \in [File -> Nat] /\ timer' \in [File -> Nat]
    BY <2>1 DEF TypeOK
  <2>3. \A e \in File \ {f} : gen'[e] = gen[e] /\ timer'[e] = timer[e]
    BY <2>1 DEF TypeOK
  <2>4. CASE refs[f] > 0
    BY <2>1, <2>2, <2>3, <2>4
  <2>5. CASE ~(refs[f] > 0)
    BY <2>1, <2>2, <2>3, <2>5
  <2> QED BY <2>4, <2>5
<1> QED BY <1>1, <1>2

\* Every step keeps the types.
LEMMA TypeStep == IndInv /\ [Next]_vars => TypeOK'
<1> SUFFICES ASSUME IndInv, [Next]_vars PROVE TypeOK'
  OBVIOUS
<1> USE DEF IndInv, TypeOK, Stages, fileVars, poolVars, GoTo, Return, GoToIf, Unlock
<1>1. ASSUME NEW p \in Proc, NEW f \in File, Acquire(p, f) PROVE TypeOK'
  BY <1>1 DEF Acquire, Acquired
<1>2. ASSUME NEW p \in Proc, NEW f \in File, AcquireOpens(p, f) PROVE TypeOK'
  BY <1>2 DEF AcquireOpens
<1>16. ASSUME NEW p \in Proc, Opened(p) PROVE TypeOK'
  <2>1. arg[p] \in File
    BY <1>16 DEF Opened, LockInv
  <2> QED BY <2>1, <1>16 DEF Opened, Acquired
<1>17. ASSUME NEW p \in Proc, OpenFails(p) PROVE TypeOK'
  BY <1>17 DEF OpenFails
<1>3. ASSUME NEW p \in Proc, NEW f \in File, Release(p, f) PROVE TypeOK'
  BY <1>3 DEF Release
<1>4. ASSUME NEW p \in Proc, NEW f \in File, Close(p, f) PROVE TypeOK'
  <2>1. GoToIf(pooled, p, "forget", f)
    BY <1>4 DEF Close
  <2>2. /\ pc' \in [Proc -> Stages] /\ arg' \in [Proc -> File \cup {NoFile}]
        /\ smu' \in [File -> Proc \cup {Nobody}]
    BY <2>1, GoToIfEffect
  <2> HIDE DEF GoToIf
  <2> QED BY <2>2, <1>4 DEF Close
<1>5. ASSUME NEW p \in Proc, NEW f \in File, CloseIdle(p, f) PROVE TypeOK'
  BY <1>5, ReleaseNowEffect DEF CloseIdle
<1>6. ASSUME NEW f \in File, TimerFires(f) PROVE TypeOK'
  BY <1>6 DEF TimerFires
<1>7. ASSUME NEW f \in File, NEW g \in fired[f], TimerCallback(f, g) PROVE TypeOK'
  BY <1>7 DEF TimerCallback
<1>8. ASSUME NEW p \in Proc, TouchNoop(p) \/ Relock(p) \/ ForgetNoop(p) PROVE TypeOK'
  BY <1>8 DEF TouchNoop, Relock, ForgetNoop
<1>9. ASSUME NEW p \in Proc, TouchHit(p) PROVE TypeOK'
  <2>1. arg[p] \in ToSet(lru) /\ arg[p] \in File
    BY <1>9 DEF TouchHit, StageInv, LruInv
  <2>2. Unlink(lru, arg[p]) \in Seq(File)
    BY <2>1, UnlinkDistinct DEF LruInv
  <2>3. lru' \in Seq(File)
    BY <2>1, <2>2, <1>9 DEF TouchHit, Cons
  <2> QED BY <2>3, <1>9 DEF TouchHit
<1>10. ASSUME NEW p \in Proc, TouchInsert(p) PROVE TypeOK'
  <2>1. arg[p] \in File
    BY <1>10 DEF TouchInsert, StageInv
  <2>2. lru' \in Seq(File)
    BY <2>1, <1>10 DEF TouchInsert, Cons
  <2> DEFINE evict == Len(lru) + 1 > capacity
  <2>3. GoToIf(evict, p, "walk", arg[p]) /\ evict \in BOOLEAN
    BY <1>10 DEF TouchInsert
  <2>4. /\ pc' \in [Proc -> Stages] /\ arg' \in [Proc -> File \cup {NoFile}]
        /\ smu' \in [File -> Proc \cup {Nobody}]
    <3> HIDE DEF evict
    <3> QED BY <2>1, <2>3, GoToIfEffect
  <2>5. /\ mu' = (IF evict THEN p ELSE Nobody)
        /\ walk' = (IF evict THEN Len(lru) + 1 ELSE walk)
        /\ linked' = linked \cup {arg[p]}
        /\ UNCHANGED <<pooled, capacity, fileVars, held>>
    BY <1>10 DEF TouchInsert
  <2> HIDE DEF GoToIf, evict
  <2> QED BY <2>1, <2>2, <2>4, <2>5
<1>11. ASSUME NEW p \in Proc, WalkSkip(p) PROVE TypeOK'
  BY <1>11 DEF WalkSkip
<1>12. ASSUME NEW p \in Proc, NEW i \in 1..Len(lru), TakeVictim(p, i) PROVE TypeOK'
  <2>1. lru' \in Seq(File)
    BY <1>12, RemoveAtElements DEF TakeVictim
  <2>2. lru[i] \in File
    BY <1>12
  <2> QED BY <2>1, <2>2, <1>12 DEF TakeVictim
<1>13. ASSUME NEW p \in Proc, Evict(p) PROVE TypeOK'
  <2>1. arg[p] \in File
    BY <1>13 DEF Evict, StageInv
  <2> QED BY <2>1, <1>13, ReleaseNowEffect DEF Evict
<1>14. ASSUME NEW p \in Proc, Forget(p) PROVE TypeOK'
  <2>1. arg[p] \in File
    BY <1>14 DEF Forget, StageInv
  <2>2. lru' \in Seq(File)
    <3>1. CASE arg[p] \in linked
      BY <2>1, <3>1, <1>14, UnlinkDistinct DEF Forget, LruInv
    <3>2. CASE arg[p] \notin linked
      BY <3>2, <1>14 DEF Forget
    <3> QED BY <3>1, <3>2
  <2> QED BY <2>1, <2>2, <1>14 DEF Forget
<1>15. CASE UNCHANGED vars
  BY <1>15 DEF vars
<1> QED
  <2>1. ASSUME NEW p \in Proc, WalkFound(p) \/ WalkFallback(p)
        PROVE  \E i \in 1..Len(lru) : TakeVictim(p, i)
    <3>1. walk \in 1..Len(lru) /\ Len(lru) \in 1..Len(lru)
      BY <2>1 DEF WalkFound, WalkFallback, StageInv
    <3> QED BY <2>1, <3>1 DEF WalkFound, WalkFallback
  <2> QED
    BY <1>1, <1>2, <1>3, <1>4, <1>5, <1>6, <1>7, <1>8, <1>9, <1>10, <1>11, <1>12,
       <1>13, <1>14, <1>15, <1>16, <1>17, <2>1
    DEF Next, Call, CallStep

\* An eviction takes its victim from a valid position of the list.
LEMMA VictimInList ==
    ASSUME TypeOK, StageInv, NEW p \in Proc, WalkFound(p) \/ WalkFallback(p)
    PROVE  \E i \in 1..Len(lru) : pc[p] = "walk" /\ TakeVictim(p, i)
<1>1. walk \in 1..Len(lru) /\ Len(lru) \in 1..Len(lru)
  BY DEF WalkFound, WalkFallback, StageInv, TypeOK
<1> QED BY <1>1 DEF WalkFound, WalkFallback

\* Every step keeps the goroutines' stages consistent.
LEMMA StageStep == IndInv /\ [Next]_vars => StageInv'
<1> SUFFICES ASSUME IndInv, [Next]_vars PROVE StageInv'
  OBVIOUS
<1> USE ProcAssumption DEF IndInv, TypeOK, StageInv, Stages, fileVars, poolVars,
        GoTo, Return
<1>1. ASSUME NEW p \in Proc, NEW f \in File, Acquire(p, f) PROVE StageInv'
  BY <1>1 DEF Acquire, Acquired
<1>2. ASSUME NEW p \in Proc, NEW f \in File, AcquireOpens(p, f) PROVE StageInv'
  BY <1>2 DEF AcquireOpens
<1>16. ASSUME NEW p \in Proc, Opened(p) PROVE StageInv'
  <2>1. arg[p] \in File
    BY <1>16 DEF Opened, LockInv
  <2> QED BY <2>1, <1>16 DEF Opened, Acquired
<1>17. ASSUME NEW p \in Proc, OpenFails(p) PROVE StageInv'
  BY <1>17 DEF OpenFails
<1>3. ASSUME NEW p \in Proc, NEW f \in File, Release(p, f) PROVE StageInv'
  BY <1>3 DEF Release
<1>4. ASSUME NEW p \in Proc, NEW f \in File, Close(p, f) PROVE StageInv'
  <2>1. GoToIf(pooled, p, "forget", f)
    BY <1>4 DEF Close
  <2>2. /\ \A q \in Proc \ {p} : pc'[q] = pc[q] /\ arg'[q] = arg[q]
        /\ pc'[p] = (IF pooled THEN "forget" ELSE "idle") /\ (pooled => arg'[p] = f)
    BY <2>1, GoToIfEffect
  <2> QED BY <2>2, <1>4 DEF Close
<1>5. ASSUME NEW p \in Proc, NEW f \in File, CloseIdle(p, f) PROVE StageInv'
  BY <1>5 DEF CloseIdle
<1>6. ASSUME NEW f \in File, TimerFires(f) PROVE StageInv'
  BY <1>6 DEF TimerFires
<1>7. ASSUME NEW f \in File, NEW g \in fired[f], TimerCallback(f, g) PROVE StageInv'
  BY <1>7 DEF TimerCallback
<1>8. ASSUME NEW p \in Proc, TouchNoop(p) \/ Relock(p) \/ ForgetNoop(p) PROVE StageInv'
  BY <1>8 DEF TouchNoop, Relock, ForgetNoop
<1>9. ASSUME NEW p \in Proc, TouchHit(p) PROVE StageInv'
  BY <1>9 DEF TouchHit
<1>10. ASSUME NEW p \in Proc, TouchInsert(p) PROVE StageInv'
  <2>1. arg[p] \in File /\ Len(lru') = Len(lru) + 1
    BY <1>10 DEF TouchInsert, Cons
  <2> DEFINE evict == Len(lru) + 1 > capacity
  <2>2. GoToIf(evict, p, "walk", arg[p]) /\ evict \in BOOLEAN /\ pc[p] = "touch"
    BY <1>10 DEF TouchInsert
  <2>3. /\ \A q \in Proc \ {p} : pc'[q] = pc[q] /\ arg'[q] = arg[q]
        /\ pc'[p] = (IF evict THEN "walk" ELSE "idle") /\ (evict => arg'[p] = arg[p])
    <3> HIDE DEF evict
    <3> QED BY <2>1, <2>2, GoToIfEffect
  <2>4. /\ mu' = (IF evict THEN p ELSE Nobody) /\ mu = Nobody /\ capacity > 0
        /\ walk' = (IF evict THEN Len(lru) + 1 ELSE walk)
        /\ UNCHANGED <<pooled, capacity, fileVars, held>>
    BY <1>10 DEF TouchInsert
  <2> HIDE DEF evict
  <2>5. \A q \in Proc : pc[q] # "walk"
    BY <2>4
  <2>6. Len(lru) + 1 \in 1..Len(lru')
    BY <2>1
  <2>7. \A q \in Proc : pc'[q] = "walk" <=> mu' = q
    BY <2>2, <2>3, <2>4, <2>5
  <2>8. \A q \in Proc : pc'[q] = "walk" => capacity' > 0 /\ walk' \in 1..Len(lru')
    BY <2>3, <2>4, <2>5, <2>6
  <2>9. \A q \in Proc : pc'[q] \in {"touch", "walk", "evict", "forget"}
                             => pooled' /\ arg'[q] \in File
    BY <2>1, <2>2, <2>3, <2>4
  <2>10. /\ \A q \in Proc : pc'[q] = "touch" => arg'[q] \in held'[q]
         /\ \A q \in Proc : pc'[q] = "forget" => arg'[q] \in closed'
    BY <2>2, <2>3, <2>4
  <2> QED BY <2>7, <2>8, <2>9, <2>10
<1>11. ASSUME NEW p \in Proc, WalkSkip(p) PROVE StageInv'
  BY <1>11 DEF WalkSkip
<1>12. ASSUME NEW p \in Proc, NEW i \in 1..Len(lru), pc[p] = "walk", TakeVictim(p, i)
       PROVE  StageInv'
  <2>1. lru[i] \in File
    OBVIOUS
  <2>2. pooled /\ mu = p /\ \A q \in Proc \ {p} : pc[q] # "walk"
    BY <1>12
  <2> QED BY <2>1, <2>2, <1>12 DEF TakeVictim
<1>13. ASSUME NEW p \in Proc, Evict(p) PROVE StageInv'
  BY <1>13 DEF Evict
<1>14. ASSUME NEW p \in Proc, Forget(p) PROVE StageInv'
  BY <1>14 DEF Forget
<1>15. CASE UNCHANGED vars
  BY <1>15 DEF vars
<1> QED
  BY <1>1, <1>2, <1>3, <1>4, <1>5, <1>6, <1>7, <1>8, <1>9, <1>10, <1>11, <1>12,
     <1>13, <1>14, <1>15, <1>16, <1>17, VictimInList
  DEF Next, Call, CallStep

\* Every step keeps the locks: only an Acquire that opens its file holds
\* s.mu across steps, and nobody touches that file meanwhile.
LEMMA LockStep == IndInv /\ [Next]_vars => LockInv'
<1> SUFFICES ASSUME IndInv, [Next]_vars PROVE LockInv'
  OBVIOUS
<1>a. Nobody \notin Proc
  BY ProcAssumption
<1>b. TypeOK /\ LockInv /\ StageInv
  BY DEF IndInv
\* A step of p that gives its own locks back and starts no open.
<1>1. ASSUME NEW p \in Proc, pc'[p] # "open",
             \A q \in Proc \ {p} : /\ pc'[q] = pc[q] /\ arg'[q] = arg[q]
                                   /\ held'[q] = held[q],
             \A e \in File : \/ smu'[e] = smu[e] /\ smu[e] # p
                             \/ smu[e] = p /\ smu'[e] = Nobody,
             \A e \in closed' : e \in closed \/ smu[e] = Nobody
      PROVE  LockInv'
  <2>1. ASSUME NEW q \in Proc, pc'[q] = "open"
        PROVE  /\ arg'[q] \in File /\ smu'[arg'[q]] = q
               /\ arg'[q] \notin held'[q] /\ arg'[q] \notin closed'
    <3>1. /\ q # p /\ pc[q] = "open" /\ arg'[q] = arg[q] /\ held'[q] = held[q]
          /\ arg[q] \in File /\ smu[arg[q]] = q
          /\ arg[q] \notin held[q] /\ arg[q] \notin closed
      BY <1>1, <1>b, <2>1 DEF LockInv
    <3>2. smu'[arg[q]] = q
      BY <1>1, <3>1
    <3> QED BY <1>1, <1>a, <3>1, <3>2
  <2>2. ASSUME NEW e \in File, smu'[e] # Nobody
        PROVE  pc'[smu'[e]] = "open" /\ arg'[smu'[e]] = e
    <3>1. smu'[e] = smu[e] /\ smu[e] # p
      BY <1>1, <2>2
    <3>2. smu[e] \in Proc \ {p} /\ pc[smu[e]] = "open" /\ arg[smu[e]] = e
      BY <1>b, <2>2, <3>1 DEF LockInv, PoolCalledUnlocked, TypeOK
    <3> QED BY <1>1, <3>1, <3>2
  <2> QED BY <2>1, <2>2 DEF LockInv, PoolCalledUnlocked
\* A step that leaves the places and the locks alone.
<1>2. ASSUME UNCHANGED <<pc, arg, smu>>, closed' = closed,
             \A q \in Proc : pc[q] = "open" => held'[q] = held[q]
      PROVE  LockInv'
  BY <1>2, <1>b DEF LockInv, PoolCalledUnlocked, TypeOK
<1>3. ASSUME NEW p \in Proc, pc[p] # "open" PROVE \A e \in File : smu[e] # p
  BY <1>3, <1>a, <1>b DEF LockInv, PoolCalledUnlocked
<1>4. ASSUME NEW p \in Proc, GoTo(p, "idle", NoFile) \/ Return(p)
      PROVE  /\ pc'[p] # "open"
             /\ \A q \in Proc \ {p} : pc'[q] = pc[q] /\ arg'[q] = arg[q]
  BY <1>4, <1>b DEF GoTo, Return, TypeOK
<1>5. ASSUME NEW p \in Proc, Unlock(p)
      PROVE  \A e \in File : \/ smu'[e] = smu[e] /\ smu[e] # p
                             \/ smu[e] = p /\ smu'[e] = Nobody
  BY <1>5, <1>b DEF Unlock, TypeOK
<1>6. ASSUME NEW p \in Proc, NEW f \in File, Acquired(p, f), closed' = closed
      PROVE  LockInv'
  <2>1. /\ pc'[p] # "open"
        /\ \A q \in Proc \ {p} : pc'[q] = pc[q] /\ arg'[q] = arg[q] /\ held'[q] = held[q]
    BY <1>6, <1>b DEF Acquired, GoTo, TypeOK
  <2>2. Unlock(p)
    BY <1>6 DEF Acquired
  <2> QED BY <1>1, <1>5, <1>6, <2>1, <2>2
<1>7. ASSUME NEW p \in Proc, NEW f \in File, Acquire(p, f) PROVE LockInv'
  BY <1>6, <1>7 DEF Acquire
<1>8. ASSUME NEW p \in Proc, NEW f \in File, AcquireOpens(p, f) PROVE LockInv'
  <2>1. /\ pc' = [pc EXCEPT ![p] = "open"] /\ arg' = [arg EXCEPT ![p] = f]
        /\ smu' = [smu EXCEPT ![f] = p] /\ smu[f] = Nobody /\ f \notin closed
        /\ f \notin held[p] /\ closed' = closed /\ held' = held
    BY <1>8 DEF AcquireOpens, GoTo
  <2>2. pc[p] # "open"
    BY <1>8 DEF AcquireOpens
  <2>3. \A e \in File : smu[e] # p
    BY <2>2, <1>3
  <2> QED BY <2>1, <2>3, <1>a, <1>b DEF LockInv, PoolCalledUnlocked, TypeOK
<1>9. ASSUME NEW p \in Proc, Opened(p) PROVE LockInv'
  <2>1. arg[p] \in File
    BY <1>9, <1>b DEF Opened, LockInv
  <2> QED BY <1>6, <1>9, <2>1 DEF Opened
<1>10. ASSUME NEW p \in Proc, Return(p), held' = held, closed' = closed
       PROVE  LockInv'
  <2>1. Unlock(p)
    BY <1>10 DEF Return
  <2> QED BY <1>1, <1>4, <1>5, <1>10, <2>1
<1>11. ASSUME NEW p \in Proc,
              \/ OpenFails(p) \/ TouchNoop(p) \/ TouchHit(p) \/ Relock(p)
              \/ ForgetNoop(p) \/ Forget(p)
       PROVE  LockInv'
  BY <1>10, <1>11 DEF OpenFails, TouchNoop, TouchHit, Relock, ForgetNoop, Forget, fileVars
<1>12. ASSUME NEW p \in Proc, NEW f \in File, Release(p, f) PROVE LockInv'
  <2>1. /\ pc[p] = "idle" /\ UNCHANGED <<pc, arg, smu, closed>>
        /\ held' = [held EXCEPT ![p] = @ \ {f}]
    BY <1>12 DEF Release
  <2>2. \A q \in Proc : pc[q] = "open" => held'[q] = held[q]
    BY <2>1, <1>b DEF TypeOK
  <2> QED BY <1>2, <2>1, <2>2
<1>13. ASSUME NEW p \in Proc, NEW f \in File, CloseIdle(p, f) PROVE LockInv'
  BY <1>2, <1>13 DEF CloseIdle
\* A step of p, outside open, to a stage that is not open either.
<1>14. ASSUME NEW p \in Proc, NEW f \in File, NEW cond \in BOOLEAN,
              NEW stage \in {"walk", "forget"}, GoToIf(cond, p, stage, f),
              held' = held, pc[p] # "open",
              \A e \in closed' : e \in closed \/ smu[e] = Nobody
       PROVE  LockInv'
  <2>1. stage \in Stages /\ stage # "open"
    BY DEF Stages
  <2>2. /\ \A q \in Proc \ {p} : pc'[q] = pc[q] /\ arg'[q] = arg[q]
        /\ pc'[p] = (IF cond THEN stage ELSE "idle")
        /\ \A e \in File : smu'[e] = smu[e] \/ (smu[e] = p /\ smu'[e] = Nobody)
    BY <1>14, <1>b, <2>1, GoToIfEffect
  <2>3. pc'[p] # "open"
    BY <2>1, <2>2
  <2> QED BY <1>1, <1>3, <1>14, <2>2, <2>3
<1>15. ASSUME NEW p \in Proc, NEW f \in File, Close(p, f) PROVE LockInv'
  <2>1. /\ GoToIf(pooled, p, "forget", f) /\ held' = held /\ pc[p] # "open"
        /\ closed' = closed \cup {f} /\ smu[f] = Nobody
    BY <1>15 DEF Close
  <2>2. pooled \in BOOLEAN
    BY <1>b DEF TypeOK
  <2> QED BY <1>14, <2>1, <2>2
<1>16. ASSUME NEW p \in Proc, TouchInsert(p) PROVE LockInv'
  <2> DEFINE evict == Len(lru) + 1 > capacity
  <2>1. /\ GoToIf(evict, p, "walk", arg[p]) /\ held' = held /\ pc[p] = "touch"
        /\ closed' = closed /\ evict \in BOOLEAN
    BY <1>16 DEF TouchInsert, fileVars
  <2>2. arg[p] \in File
    BY <2>1, <1>b DEF StageInv
  <2> HIDE DEF evict
  <2> QED BY <1>14, <2>1, <2>2
<1>17. ASSUME NEW p \in Proc, NEW stage \in {"evict", "relock"},
              NEW f, GoTo(p, stage, f), pc[p] # "open", UNCHANGED <<smu, held, closed>>
       PROVE  LockInv'
  <2>1. /\ pc'[p] # "open"
        /\ \A q \in Proc \ {p} : pc'[q] = pc[q] /\ arg'[q] = arg[q]
    BY <1>17, <1>b DEF GoTo, TypeOK
  <2> QED BY <1>1, <1>3, <1>17, <2>1
<1>18. ASSUME NEW p \in Proc, WalkFound(p) \/ WalkFallback(p) PROVE LockInv'
  BY <1>17, <1>18 DEF WalkFound, WalkFallback, TakeVictim, fileVars
<1>19. ASSUME NEW p \in Proc, Evict(p) PROVE LockInv'
  BY <1>17, <1>19 DEF Evict
<1>20. ASSUME NEW p \in Proc, WalkSkip(p) PROVE LockInv'
  BY <1>2, <1>20 DEF WalkSkip, fileVars
<1>21. ASSUME NEW f \in File, TimerFires(f) \/ \E g \in fired[f] : TimerCallback(f, g)
       PROVE  LockInv'
  BY <1>2, <1>21 DEF TimerFires, TimerCallback
<1>22. CASE UNCHANGED vars
  BY <1>2, <1>22 DEF vars
<1> QED
  BY <1>7, <1>8, <1>9, <1>11, <1>12, <1>13, <1>15, <1>16, <1>18, <1>19, <1>20, <1>21,
     <1>22
  DEF Next, Call, CallStep

\* Every step keeps the refcounts equal to the number of holders.
LEMMA RefsStep == IndInv /\ [Next]_vars => RefsMatchHolders'
<1> SUFFICES ASSUME IndInv, [Next]_vars PROVE RefsMatchHolders'
  OBVIOUS
<1>1. \A f \in File : IsFiniteSet(Holders(f))
  BY ProcAssumption, FS_Subset DEF Holders
<1>2. ASSUME NEW p \in Proc, NEW f \in File, f \notin held[p], Acquired(p, f)
      PROVE  RefsMatchHolders'
  <2> SUFFICES ASSUME NEW e \in File PROVE refs'[e] = Cardinality(Holders(e)')
    BY DEF RefsMatchHolders
  <2>1. CASE e = f
    <3>1. p \notin Holders(f) /\ Holders(f)' = Holders(f) \cup {p}
      BY <1>2 DEF Acquired, Holders, IndInv, TypeOK
    <3>2. Cardinality(Holders(f)') = Cardinality(Holders(f)) + 1
      BY <1>1, <3>1, FS_AddElement
    <3> QED BY <2>1, <3>2, <1>2 DEF Acquired, IndInv, TypeOK, RefsMatchHolders
  <2>2. CASE e # f
    <3>1. Holders(e)' = Holders(e)
      BY <2>2, <1>2 DEF Acquired, Holders, IndInv, TypeOK
    <3> QED BY <2>2, <3>1, <1>2 DEF Acquired, IndInv, TypeOK, RefsMatchHolders
  <2> QED BY <2>1, <2>2
<1>3. ASSUME NEW p \in Proc, NEW f \in File, Release(p, f) PROVE RefsMatchHolders'
  <2>0. /\ refs' = [refs EXCEPT ![f] = @ - 1]
        /\ held' = [held EXCEPT ![p] = @ \ {f}]
        /\ f \in held[p]
    BY <1>3 DEF Release
  <2> SUFFICES ASSUME NEW e \in File PROVE refs'[e] = Cardinality(Holders(e)')
    BY DEF RefsMatchHolders
  <2>1. CASE e = f
    <3>1. p \in Holders(f) /\ Holders(f)' = Holders(f) \ {p}
      BY <2>0 DEF Holders, IndInv, TypeOK
    <3>2. Cardinality(Holders(f)') = Cardinality(Holders(f)) - 1
      BY <1>1, <3>1, FS_RemoveElement
    <3> QED BY <2>0, <2>1, <3>2 DEF IndInv, TypeOK, RefsMatchHolders
  <2>2. CASE e # f
    <3>1. Holders(e)' = Holders(e)
      BY <2>2, <2>0 DEF Holders, IndInv, TypeOK
    <3> QED BY <2>2, <3>1, <2>0 DEF IndInv, TypeOK, RefsMatchHolders
  <2> QED BY <2>1, <2>2
<1>4. CASE UNCHANGED <<refs, held>>
  BY <1>4 DEF RefsMatchHolders, Holders, IndInv
<1>5. ASSUME NEW p \in Proc, NEW f \in File,
             AcquireOpens(p, f) \/ Close(p, f) \/ CloseIdle(p, f)
      PROVE  UNCHANGED <<refs, held>>
  BY <1>5 DEF AcquireOpens, Close, CloseIdle
<1>6. ASSUME NEW p \in Proc, CallStep(p), ~Opened(p) PROVE UNCHANGED <<refs, held>>
  BY <1>6 DEF CallStep, OpenFails, TouchNoop, TouchHit, TouchInsert, WalkSkip, WalkFound,
     WalkFallback, TakeVictim, Evict, Relock, ForgetNoop, Forget, fileVars
<1>7. ASSUME NEW f \in File, TimerFires(f) \/ \E g \in fired[f] : TimerCallback(f, g)
      PROVE  UNCHANGED <<refs, held>>
  BY <1>7 DEF TimerFires, TimerCallback
<1>8. CASE UNCHANGED vars
  BY <1>4, <1>8 DEF vars
<1>9. ASSUME NEW p \in Proc, NEW f \in File, Acquire(p, f) PROVE RefsMatchHolders'
  BY <1>2, <1>9 DEF Acquire
<1>10. ASSUME NEW p \in Proc, Opened(p) PROVE RefsMatchHolders'
  <2>1. arg[p] \in File /\ arg[p] \notin held[p]
    BY <1>10 DEF Opened, IndInv, LockInv
  <2> QED BY <2>1, <1>2, <1>10 DEF Opened
<1> QED
  BY <1>3, <1>4, <1>5, <1>6, <1>7, <1>8, <1>9, <1>10 DEF Next, Call

\* A goroutine that holds a file is counted in its refs.
LEMMA HeldIsReferenced ==
    ASSUME TypeOK, RefsMatchHolders, NEW p \in Proc, NEW f \in held[p]
    PROVE  f \in File /\ refs[f] > 0
<1>1. f \in File /\ p \in Holders(f)
  BY DEF TypeOK, Holders
<1>2. IsFiniteSet(Holders(f))
  BY ProcAssumption, FS_Subset DEF Holders
<1>3. Cardinality(Holders(f)) # 0
  BY <1>1, <1>2, FS_EmptySet
<1> QED BY <1>1, <1>3 DEF TypeOK, RefsMatchHolders

\* FileInv, LatchHasReaders and IdleHasTimer for one file.
FileOK(f) ==
    /\ refs[f] > 0 /\ f \notin closed => f \in open
    /\ f \in closed => f \notin open
    /\ f \in latched /\ f \notin closed => refs[f] > 0
    /\ ~pooled /\ f \in open /\ refs[f] = 0
         => gen[f] \in fired[f] \cup {timer[f]} /\ gen[f] # 0

\* Every step keeps the fields of each SharedFile consistent.
LEMMA FileStep ==
    IndInv /\ [Next]_vars => FileInv' /\ LatchHasReaders' /\ IdleHasTimer'
<1> SUFFICES ASSUME IndInv, [Next]_vars
             PROVE  FileInv' /\ LatchHasReaders' /\ IdleHasTimer'
  OBVIOUS
<1>a. latched' \subseteq File
  BY TypeStep DEF TypeOK
<1> SUFFICES ASSUME NEW e \in File PROVE FileOK(e)'
  BY <1>a DEF FileOK, FileInv, LatchHasReaders, IdleHasTimer
<1>b. TypeOK /\ StageInv /\ LockInv /\ FileOK(e)
  BY DEF IndInv, FileOK, FileInv, LatchHasReaders, IdleHasTimer
<1> USE DEF TypeOK, FileOK
<1>1. ASSUME NEW p \in Proc, NEW f \in File, Acquire(p, f) PROVE FileOK(e)'
  BY <1>1, <1>b DEF Acquire, Acquired
<1>2. ASSUME NEW p \in Proc, NEW f \in File, AcquireOpens(p, f) PROVE FileOK(e)'
  BY <1>2, <1>b DEF AcquireOpens
<1>13. ASSUME NEW p \in Proc, Opened(p) PROVE FileOK(e)'
  <2>1. arg[p] \in File /\ arg[p] \notin closed
    BY <1>13, <1>b DEF Opened, LockInv
  <2> QED BY <2>1, <1>13, <1>b DEF Opened, Acquired
<1>3. ASSUME NEW p \in Proc, NEW f \in File, Release(p, f) PROVE FileOK(e)'
  <2>1. /\ refs' = [refs EXCEPT ![f] = @ - 1] /\ gen' = [gen EXCEPT ![f] = @ + 1]
        /\ closed' = closed /\ fired' = fired /\ pooled' = pooled
        /\ refs[f] > 0
    BY <1>3 DEF Release
  <2>2. CASE e # f
    <3>1. /\ timer'[e] = timer[e] /\ (e \in open' <=> e \in open)
          /\ (e \in latched' <=> e \in latched)
      BY <1>3, <1>b, <2>2 DEF Release
    <3> QED BY <2>1, <2>2, <3>1, <1>b
  <2>3. CASE e = f /\ refs[f] = 1 /\ f \notin closed /\ f \in open
    <3>1. CASE f \in latched
      <4>1. f \notin open' /\ f \notin latched'
        BY <1>3, <2>3, <3>1 DEF Release
      <4> QED BY <2>1, <2>3, <4>1, <1>b
    <3>2. CASE f \notin latched
      <4>1. open' = open /\ latched' = latched /\ (~pooled => timer'[f] = gen[f] + 1)
        BY <1>3, <1>b, <2>3, <3>2 DEF Release
      <4> QED BY <2>1, <2>3, <3>2, <4>1, <1>b
    <3> QED BY <3>1, <3>2
  <2>4. CASE e = f /\ ~(refs[f] = 1 /\ f \notin closed /\ f \in open)
    <3>1. open' = open /\ latched' = latched
      BY <1>3, <2>4 DEF Release
    <3>2. refs[f] \in Nat /\ refs'[f] = refs[f] - 1
      BY <2>1, <1>b
    <3> QED BY <2>1, <2>4, <3>1, <3>2, <1>b
  <2> QED BY <2>2, <2>3, <2>4
<1>4. ASSUME NEW p \in Proc, NEW f \in File, Close(p, f) PROVE FileOK(e)'
  BY <1>4, <1>b DEF Close
<1>5. ASSUME NEW f \in File, ReleaseNow(f),
             UNCHANGED <<refs, closed, fired, pooled>>
      PROVE  FileOK(e)'
  <2>1. CASE f \in closed
    BY <1>5, <1>b, <2>1 DEF ReleaseNow
  <2>2. CASE f \notin closed
    <3>1. /\ timer'  = [timer EXCEPT ![f] = 0]
          /\ gen'    = [gen EXCEPT ![f] = @ + 1]
          /\ open'  = IF refs[f] > 0 THEN open ELSE open \ {f}
          /\ latched' = IF refs[f] > 0 THEN latched \cup {f} ELSE latched
      BY <1>5, <2>2 DEF ReleaseNow
    <3>2. refs[e] \in Nat /\ refs' = refs
      BY <1>5, <1>b
    <3>3. CASE e # f
      <4>1. gen'[e] = gen[e] /\ timer'[e] = timer[e]
        BY <3>1, <3>3, <1>b
      <4> QED BY <4>1, <3>1, <3>2, <3>3, <1>5, <1>b
    <3>4. CASE e = f
      BY <3>1, <3>2, <3>4, <1>5, <1>b
    <3> QED BY <3>3, <3>4
  <2> QED BY <2>1, <2>2
<1>6. ASSUME NEW p \in Proc, NEW f \in File, CloseIdle(p, f) PROVE FileOK(e)'
  BY <1>5, <1>6 DEF CloseIdle
<1>7. ASSUME NEW p \in Proc, Evict(p) PROVE FileOK(e)'
  <2>1. arg[p] \in File
    BY <1>7, <1>b DEF Evict, StageInv
  <2> QED BY <1>5, <1>7, <2>1 DEF Evict
<1>8. ASSUME NEW f \in File, TimerFires(f) PROVE FileOK(e)'
  BY <1>8, <1>b DEF TimerFires
<1>9. ASSUME NEW f \in File, NEW g \in fired[f], TimerCallback(f, g) PROVE FileOK(e)'
  BY <1>9, <1>b DEF TimerCallback
<1>10. CASE UNCHANGED <<open, refs, gen, timer, fired, closed, latched, pooled>>
  BY <1>10, <1>b
<1>11. ASSUME NEW p \in Proc, CallStep(p), ~Evict(p), ~Opened(p)
       PROVE  UNCHANGED <<open, refs, gen, timer, fired, closed, latched, pooled>>
  BY <1>11 DEF CallStep, OpenFails, TouchNoop, TouchHit, TouchInsert, WalkSkip, WalkFound,
     WalkFallback, TakeVictim, Relock, ForgetNoop, Forget, fileVars
<1>12. CASE UNCHANGED vars
  BY <1>10, <1>12 DEF vars
<1> HIDE DEF FileOK, TypeOK
<1> QED
  BY <1>1, <1>2, <1>3, <1>4, <1>6, <1>7, <1>8, <1>9, <1>10, <1>11, <1>12, <1>13
  DEF Next, Call

\* Every step keeps the list free of repetitions, equal to the set of linked
\* files, and within capacity outside an eviction.
LEMMA LruStep == IndInv /\ [Next]_vars => LruInv'
<1> SUFFICES ASSUME IndInv, [Next]_vars PROVE LruInv'
  OBVIOUS
<1>1. ASSUME NEW p \in Proc, TouchHit(p) PROVE LruInv'
  <2> DEFINE f == arg[p]
             s == Unlink(lru, f)
  <2>1. f \in ToSet(lru) /\ f \in File /\ lru \in Seq(File) /\ Distinct(lru)
    BY <1>1 DEF TouchHit, IndInv, TypeOK, StageInv, LruInv
  <2>2. /\ s \in Seq(File) /\ Len(s) = Len(lru) - 1
        /\ Distinct(s) /\ ToSet(s) = ToSet(lru) \ {f}
    BY <2>1, UnlinkDistinct
  <2>3. /\ Len(Cons(f, s)) = Len(s) + 1 /\ Distinct(Cons(f, s))
        /\ ToSet(Cons(f, s)) = ToSet(s) \cup {f}
    <3> HIDE DEF s, f
    <3> QED BY <2>1, <2>2, ConsDistinct
  <2>4. lru' = Cons(f, s) /\ linked' = linked /\ mu' = mu /\ capacity' = capacity
    BY <1>1 DEF TouchHit
  <2>5. lru # <<>>
    BY <2>1 DEF ToSet
  <2> HIDE DEF s, f
  <2>6. Len(lru') = Len(lru) /\ Distinct(lru')
    <3>1. Len(lru) \in Nat
      BY <2>1
    <3> QED BY <3>1, <2>2, <2>3, <2>4
  <2>7. ToSet(lru') = ToSet(lru)
    BY <2>1, <2>2, <2>3, <2>4
  <2> QED BY <2>4, <2>5, <2>6, <2>7 DEF LruInv, IndInv
<1>2. ASSUME NEW p \in Proc, TouchInsert(p) PROVE LruInv'
  <2> DEFINE f == arg[p]
  <2>1. f \notin ToSet(lru) /\ f \in File /\ lru \in Seq(File) /\ Distinct(lru)
    BY <1>2 DEF TouchInsert, IndInv, TypeOK, StageInv, LruInv
  <2>2. /\ Len(Cons(f, lru)) = Len(lru) + 1 /\ Distinct(Cons(f, lru))
        /\ ToSet(Cons(f, lru)) = ToSet(lru) \cup {f}
    BY <2>1, ConsDistinct
  <2>3. /\ lru' = Cons(f, lru) /\ linked' = linked \cup {f} /\ capacity' = capacity
        /\ mu' = IF Len(lru) + 1 > capacity THEN p ELSE Nobody
        /\ mu = Nobody /\ capacity > 0
    BY <1>2 DEF TouchInsert
  <2>4. Len(lru) \in Nat /\ capacity \in Int /\ p # Nobody
        /\ (lru = <<>> => Len(lru) = 0)
    BY <2>1, CapacityAssumption, ProcAssumption DEF IndInv, TypeOK
  <2>5. Len(lru) <= capacity
    BY <2>3, <2>4 DEF IndInv, LruInv
  <2> HIDE DEF f
  <2> QED BY <2>2, <2>3, <2>4, <2>5 DEF IndInv, LruInv
<1>3. ASSUME NEW p \in Proc, NEW i \in 1..Len(lru), pc[p] = "walk", TakeVictim(p, i)
      PROVE  LruInv'
  <2>1. lru \in Seq(File) /\ Distinct(lru) /\ mu = p /\ p # Nobody /\ lru # <<>>
        /\ capacity \in Int
    BY <1>3, ProcAssumption, CapacityAssumption DEF IndInv, TypeOK, StageInv, LruInv
  <2>2. Len(RemoveAt(lru, i)) = Len(lru) - 1
    BY <2>1, RemoveAtElements
  <2>3. /\ Distinct(RemoveAt(lru, i))
        /\ ToSet(RemoveAt(lru, i)) = ToSet(lru) \ {lru[i]}
    BY <2>1, RemoveAtDistinct
  <2>4. /\ lru' = RemoveAt(lru, i) /\ linked' = linked \ {lru[i]}
        /\ mu' = Nobody /\ capacity' = capacity
    BY <1>3 DEF TakeVictim
  <2>5. Len(lru) \in Nat /\ Len(lru) <= capacity + 1
    BY <2>1 DEF IndInv, LruInv
  <2> QED BY <2>2, <2>3, <2>4, <2>5, <2>1 DEF IndInv, LruInv
<1>4. ASSUME NEW p \in Proc, Forget(p) PROVE LruInv'
  <2> DEFINE f == arg[p]
  <2>1. f \in File /\ lru \in Seq(File) /\ Distinct(lru) /\ linked = ToSet(lru)
        /\ Len(lru) \in Nat /\ capacity \in Int
    BY <1>4, CapacityAssumption DEF Forget, IndInv, TypeOK, StageInv, LruInv
  <2>2. /\ lru' = (IF f \in linked THEN Unlink(lru, f) ELSE lru)
        /\ linked' = linked \ {f} /\ mu' = mu /\ capacity' = capacity
    BY <1>4 DEF Forget
  <2>3. CASE f \in linked
    <3>1. /\ Len(Unlink(lru, f)) = Len(lru) - 1
          /\ Distinct(Unlink(lru, f)) /\ ToSet(Unlink(lru, f)) = ToSet(lru) \ {f}
      BY <2>1, <2>3, UnlinkDistinct
    <3>2. lru # <<>>
      BY <2>1, <2>3 DEF ToSet
    <3> HIDE DEF f
    <3> QED BY <2>1, <2>2, <2>3, <3>1, <3>2 DEF IndInv, LruInv
  <2>4. CASE f \notin linked
    BY <2>1, <2>2, <2>4 DEF IndInv, LruInv
  <2> QED BY <2>3, <2>4
<1>5. CASE UNCHANGED <<lru, linked, mu, capacity>>
  BY <1>5 DEF IndInv, LruInv, Distinct
<1>6. ASSUME NEW p \in Proc, NEW f \in File, Call(p, f)
      PROVE  UNCHANGED <<lru, linked, mu, capacity>>
  BY <1>6 DEF Call, Acquire, AcquireOpens, Release, Close, CloseIdle, poolVars
<1>7. ASSUME NEW p \in Proc,
             \/ Opened(p) \/ OpenFails(p)
             \/ TouchNoop(p) \/ WalkSkip(p) \/ Evict(p) \/ Relock(p) \/ ForgetNoop(p)
      PROVE  UNCHANGED <<lru, linked, mu, capacity>>
  BY <1>7 DEF Opened, OpenFails, TouchNoop, WalkSkip, Evict, Relock, ForgetNoop, poolVars
<1>8. ASSUME NEW f \in File, TimerFires(f) \/ \E g \in fired[f] : TimerCallback(f, g)
      PROVE  UNCHANGED <<lru, linked, mu, capacity>>
  BY <1>8 DEF TimerFires, TimerCallback, poolVars
<1>9. CASE UNCHANGED vars
  BY <1>5, <1>9 DEF vars
<1> QED
  BY <1>1, <1>2, <1>3, <1>4, <1>5, <1>6, <1>7, <1>8, <1>9, VictimInList
  DEF Next, CallStep, IndInv

\* Every step keeps each open descriptor in sight of the pool.
LEMMA GovernedStep == IndInv /\ [Next]_vars => OpenIsGoverned'
<1> SUFFICES ASSUME IndInv, [Next]_vars,
                    NEW f \in File, pooled', capacity' > 0, f \in open'
             PROVE  \/ f \in linked' \/ f \in latched'
                    \/ InStage("touch", f)' \/ InStage("evict", f)'
  BY DEF OpenIsGoverned
<1> DEFINE Goal == \/ f \in linked' \/ f \in latched'
                   \/ InStage("touch", f)' \/ InStage("evict", f)'
<1>a. TypeOK /\ StageInv /\ LockInv /\ OpenIsGoverned /\ FileInv
  BY DEF IndInv
<1>b. pooled' = pooled /\ capacity' = capacity
  BY DEF Next, Call, CallStep, Acquire, AcquireOpens, Opened, OpenFails, Release, Close, CloseIdle,
     TouchNoop, TouchHit, TouchInsert, WalkSkip, WalkFound, WalkFallback, TakeVictim,
     Evict, Relock, ForgetNoop, Forget, TimerFires, TimerCallback, vars
\* Steps that neither open, unlink nor unlatch, and leave the stages alone.
<1>1. ASSUME open' \subseteq open, linked \subseteq linked', latched \subseteq latched',
             UNCHANGED <<pc, arg>>
      PROVE  Goal
  BY <1>1, <1>a, <1>b DEF OpenIsGoverned, InStage
\* Steps of a goroutine that was at no stage that governs f.
<1>2. ASSUME NEW p \in Proc, open' \subseteq open, linked \subseteq linked',
             latched \subseteq latched',
             ~(pc[p] \in {"touch", "evict"} /\ arg[p] = f),
             \A q \in Proc \ {p} : pc'[q] = pc[q] /\ arg'[q] = arg[q]
      PROVE  Goal
  BY <1>2, <1>a, <1>b DEF OpenIsGoverned, InStage
<1>3. ASSUME NEW p \in Proc, NEW e \in File, Acquired(p, e), linked' = linked,
             latched' = latched, pc[p] \in {"idle", "open"}
      PROVE  Goal
  <2>1. \A q \in Proc \ {p} : pc'[q] = pc[q] /\ arg'[q] = arg[q]
    BY <1>3, <1>a DEF Acquired, GoTo, TypeOK
  <2>2. CASE e = f
    <3>1. pc'[p] = "touch" /\ arg'[p] = f
      BY <1>3, <2>2, <1>a, <1>b DEF Acquired, GoTo, TypeOK
    <3> QED BY <3>1 DEF InStage
  <2>3. CASE e # f
    <3>1. f \in open
      BY <1>3, <2>3 DEF Acquired
    <3> QED BY <1>3, <2>1, <3>1, <1>a, <1>b DEF OpenIsGoverned, InStage
  <2> QED BY <2>2, <2>3
<1>4. ASSUME NEW p \in Proc, NEW e \in File, AcquireOpens(p, e) PROVE Goal
  <2>1. \A q \in Proc \ {p} : pc'[q] = pc[q] /\ arg'[q] = arg[q]
    BY <1>4, <1>a DEF AcquireOpens, GoTo, TypeOK
  <2>2. open' = open /\ linked' = linked /\ latched' = latched /\ pc[p] = "idle"
    BY <1>4 DEF AcquireOpens, poolVars
  <2> QED BY <2>1, <2>2, <1>2
<1>22. ASSUME NEW p \in Proc, NEW e \in File, Acquire(p, e) PROVE Goal
  BY <1>3, <1>22 DEF Acquire, poolVars
<1>23. ASSUME NEW p \in Proc, Opened(p) PROVE Goal
  <2>1. arg[p] \in File
    BY <1>23, <1>a DEF Opened, LockInv
  <2> QED BY <2>1, <1>3, <1>23 DEF Opened, poolVars
<1>24. ASSUME NEW p \in Proc, OpenFails(p) PROVE Goal
  <2>1. \A q \in Proc \ {p} : pc'[q] = pc[q] /\ arg'[q] = arg[q]
    BY <1>24, <1>a DEF OpenFails, Return, GoTo, TypeOK
  <2>2. open' = open /\ linked' = linked /\ latched' = latched /\ pc[p] = "open"
    BY <1>24 DEF OpenFails, fileVars, poolVars
  <2> QED BY <2>1, <2>2, <1>2
<1>5. ASSUME NEW p \in Proc, NEW e \in File, Release(p, e) PROVE Goal
  <2>1. linked' = linked /\ UNCHANGED <<pc, arg>>
    BY <1>5 DEF Release, poolVars
  <2>2. f \in open /\ (f \in latched => f \in latched')
    BY <1>5 DEF Release
  <2> QED BY <2>1, <2>2, <1>a, <1>b DEF OpenIsGoverned, InStage
<1>6. ASSUME NEW p \in Proc, NEW e \in File, Close(p, e) PROVE Goal
  <2>1. \A q \in Proc \ {p} : pc'[q] = pc[q] /\ arg'[q] = arg[q]
    BY <1>6, <1>a DEF Close, GoToIf, Return, GoTo, TypeOK
  <2>2. open' \subseteq open /\ linked' = linked /\ latched' = latched /\ pc[p] = "idle"
    BY <1>6 DEF Close, poolVars
  <2> QED BY <2>1, <2>2, <1>2
<1>7. ASSUME NEW p \in Proc, NEW e \in File, CloseIdle(p, e) PROVE Goal
  BY <1>1, <1>7, <1>a, ReleaseNowEffect DEF CloseIdle, poolVars
<1>8. ASSUME NEW e \in File, TimerFires(e) \/ \E g \in fired[e] : TimerCallback(e, g)
      PROVE  Goal
  BY <1>1, <1>8 DEF TimerFires, TimerCallback, poolVars
<1>9. ASSUME NEW p \in Proc, TouchHit(p) PROVE Goal
  <2>1. /\ open' = open /\ linked' = linked /\ latched' = latched
        /\ arg[p] \in linked /\ pc[p] = "touch"
    BY <1>9 DEF TouchHit, fileVars
  <2>2. \A q \in Proc \ {p} : pc'[q] = pc[q] /\ arg'[q] = arg[q]
    BY <1>9, <1>a DEF TouchHit, Return, GoTo, TypeOK
  <2> QED BY <2>1, <2>2, <1>2
<1>10. ASSUME NEW p \in Proc, TouchInsert(p) PROVE Goal
  <2>1. /\ open' = open /\ linked' = linked \cup {arg[p]} /\ latched' = latched
        /\ pc[p] = "touch"
    BY <1>10 DEF TouchInsert, fileVars
  <2>2. \A q \in Proc \ {p} : pc'[q] = pc[q] /\ arg'[q] = arg[q]
    BY <1>10, <1>a DEF TouchInsert, GoToIf, Return, GoTo, TypeOK
  <2> QED BY <2>1, <2>2, <1>2
<1>11. ASSUME NEW p \in Proc, WalkSkip(p) PROVE Goal
  BY <1>1, <1>11 DEF WalkSkip, fileVars
<1>12. ASSUME NEW p \in Proc, NEW i \in 1..Len(lru), pc[p] = "walk", TakeVictim(p, i)
       PROVE  Goal
  <2>1. /\ open' = open /\ linked' = linked \ {lru[i]} /\ latched' = latched
    BY <1>12 DEF TakeVictim, fileVars
  <2>2. /\ \A q \in Proc \ {p} : pc'[q] = pc[q] /\ arg'[q] = arg[q]
        /\ pc'[p] = "evict" /\ arg'[p] = lru[i]
    BY <1>12, <1>a DEF TakeVictim, GoTo, TypeOK
  <2>3. CASE f = lru[i]
    BY <2>2, <2>3 DEF InStage
  <2>4. CASE f # lru[i]
    BY <2>1, <2>2, <2>4, <1>12, <1>a, <1>b DEF OpenIsGoverned, InStage
  <2> QED BY <2>3, <2>4
<1>13. ASSUME NEW p \in Proc, Evict(p) PROVE Goal
  <2>1. /\ arg[p] \in File /\ ReleaseNow(arg[p]) /\ linked' = linked
        /\ closed' = closed /\ pc[p] = "evict"
    BY <1>13, <1>a DEF Evict, StageInv, poolVars
  <2>2. \A q \in Proc \ {p} : pc'[q] = pc[q] /\ arg'[q] = arg[q]
    BY <1>13, <1>a DEF Evict, GoTo, TypeOK
  <2>3. CASE arg[p] = f
    <3>1. f \in open
      BY <2>1, <1>a, ReleaseNowEffect
    <3>2. f \notin closed
      BY <3>1, <1>a DEF FileInv
    <3> QED BY <2>1, <2>3, <3>2, <1>a, ReleaseNowEffect
  <2>4. CASE arg[p] # f
    BY <2>1, <2>2, <2>4, <1>2, <1>a, ReleaseNowEffect
  <2> QED BY <2>3, <2>4
<1>14. ASSUME NEW p \in Proc, TouchNoop(p) \/ Relock(p) \/ ForgetNoop(p) PROVE Goal
  <2>a. capacity \in Int /\ capacity > 0
    BY <1>a, <1>b, CapacityAssumption DEF TypeOK
  <2>b. ~TouchNoop(p)
    <3> SUFFICES ASSUME TouchNoop(p) PROVE FALSE
      OBVIOUS
    <3>1. capacity <= 0
      BY DEF TouchNoop
    <3> QED BY <2>a, <3>1
  <2>1. /\ open' = open /\ linked' = linked /\ latched' = latched
        /\ pc[p] = "relock" \/ pc[p] = "forget"
    BY <1>14, <2>b DEF Relock, ForgetNoop, fileVars, poolVars
  <2>2. \A q \in Proc \ {p} : pc'[q] = pc[q] /\ arg'[q] = arg[q]
    BY <1>14, <1>a DEF TouchNoop, Relock, ForgetNoop, Return, GoTo, TypeOK
  <2> QED BY <2>1, <2>2, <1>2
<1>15. ASSUME NEW p \in Proc, Forget(p) PROVE Goal
  <2>1. /\ open' = open /\ linked' = linked \ {arg[p]} /\ latched' = latched
        /\ pc[p] = "forget"
    BY <1>15 DEF Forget, fileVars
  <2>2. \A q \in Proc \ {p} : pc'[q] = pc[q] /\ arg'[q] = arg[q]
    BY <1>15, <1>a DEF Forget, Return, GoTo, TypeOK
  <2>3. arg[p] # f
    BY <2>1, <1>a DEF StageInv, FileInv
  <2> QED BY <2>1, <2>2, <2>3, <1>a, <1>b DEF OpenIsGoverned, InStage
<1> HIDE DEF Goal
<1>17. ASSUME NEW p \in Proc, WalkFound(p) \/ WalkFallback(p) PROVE Goal
  BY <1>12, <1>17, <1>a, VictimInList
<1>18. ASSUME NEW p \in Proc, CallStep(p) PROVE Goal
  BY <1>9, <1>10, <1>11, <1>13, <1>14, <1>15, <1>17, <1>18, <1>23, <1>24
  DEF CallStep
<1>19. ASSUME NEW p \in Proc, NEW e \in File, Call(p, e) PROVE Goal
  BY <1>22, <1>4, <1>5, <1>6, <1>7, <1>19 DEF Call
<1>20. ASSUME Next PROVE Goal
  <2>1. ASSUME \E p \in Proc, e \in File : Call(p, e) PROVE Goal
    BY <1>19, <2>1
  <2>2. ASSUME \E p \in Proc : CallStep(p) PROVE Goal
    BY <1>18, <2>2
  <2>3. ASSUME \E e \in File : TimerFires(e) \/ \E g \in fired[e] : TimerCallback(e, g)
        PROVE  Goal
    BY <1>8, <2>3
  <2> QED BY <1>20, <2>1, <2>2, <2>3 DEF Next
<1>21. ASSUME UNCHANGED vars PROVE Goal
  BY <1>1, <1>21 DEF vars
<1> QED BY <1>20, <1>21 DEF Goal

-----------------------------------------------------------------------------
(* The theorems.                                                            *)

\* The invariant is inductive.
THEOREM Inductive == Spec => []IndInv
<1>1. IndInv /\ [Next]_vars => IndInv'
  BY TypeStep, StageStep, LockStep, RefsStep, FileStep, LruStep, GovernedStep DEF IndInv
<1> QED BY InitIndInv, <1>1, PTL DEF Spec

\* Every variable of the descriptor layer keeps its type.
THEOREM TypeCorrect == Spec => []TypeOK
<1>1. IndInv => TypeOK
  BY DEF IndInv
<1> QED BY Inductive, <1>1, PTL

\* SharedFile.refs always equals the number of goroutines between Acquire
\* and Release.
THEOREM RefsCorrect == Spec => []RefsMatchHolders
<1>1. IndInv => RefsMatchHolders
  BY DEF IndInv
<1> QED BY Inductive, <1>1, PTL

\* No goroutine is in the pool with s.mu held: the lock order of the code's
\* comment, for any number of goroutines, files and members.
THEOREM LockOrder == Spec => []PoolCalledUnlocked
<1>1. IndInv => PoolCalledUnlocked
  BY DEF IndInv, LockInv
<1> QED BY Inductive, <1>1, PTL

\* No grace timer, eviction or CloseIdleDescriptors takes a descriptor away
\* from a goroutine that holds it.
THEOREM PinnedSafe == Spec => []PinnedStaysOpen
<1>1. IndInv => PinnedStaysOpen
  BY HeldIsReferenced DEF IndInv, FileInv, PinnedStaysOpen
<1> QED BY Inductive, <1>1, PTL

\* A latched close never outlives the readers it waits for.
THEOREM LatchConsumed == Spec => []LatchHasReaders
<1>1. IndInv => LatchHasReaders
  BY DEF IndInv
<1> QED BY Inductive, <1>1, PTL

\* Without a pool an idle descriptor always has a live grace timer.
THEOREM NoIdleLeak == Spec => []IdleHasTimer
<1>1. IndInv => IdleHasTimer
  BY DEF IndInv
<1> QED BY Inductive, <1>1, PTL

\* The LRU list and the members' handles never disagree.
THEOREM LruCorrect == Spec => []LruMatchesHandles
<1>1. ASSUME IndInv PROVE LruMatchesHandles
  <2>1. DOMAIN lru = 1..Len(lru)
    BY <1>1 DEF IndInv, TypeOK
  <2>2. \A i, j \in DOMAIN lru : lru[i] = lru[j] => i = j
    BY <1>1, <2>1 DEF IndInv, LruInv, Distinct
  <2> QED BY <1>1, <2>2 DEF IndInv, LruInv, LruMatchesHandles
<1> QED BY Inductive, <1>1, PTL

\* Every open descriptor of a pooled file is known to the pool or on its way
\* to be closed.
THEOREM GovernedCorrect == Spec => []OpenIsGoverned
<1>1. IndInv => OpenIsGoverned
  BY DEF IndInv
<1> QED BY Inductive, <1>1, PTL

\* The pool's descriptor budget: idle descriptors never outnumber Capacity
\* outside an eviction.
THEOREM BudgetKept == Spec => []IdleWithinCapacity
<1>1. ASSUME IndInv PROVE IdleWithinCapacity
  <2> SUFFICES ASSUME pooled, capacity > 0, mu = Nobody
               PROVE  Cardinality({f \in File : /\ f \in open /\ refs[f] = 0
                                                /\ ~InStage("evict", f)}) <= capacity
    BY DEF IdleWithinCapacity
  <2> DEFINE Idle == {f \in File : f \in open /\ refs[f] = 0 /\ ~InStage("evict", f)}
  <2>1. ASSUME NEW f \in Idle PROVE f \in ToSet(lru)
    <3>1. f \in linked \/ f \in latched \/ InStage("touch", f)
      BY <1>1 DEF IndInv, OpenIsGoverned
    <3>2. f \notin latched
      BY <1>1 DEF IndInv, FileInv, LatchHasReaders
    <3>3. ~InStage("touch", f)
      BY <1>1, HeldIsReferenced DEF IndInv, StageInv, InStage
    <3> QED BY <1>1, <3>1, <3>2, <3>3 DEF IndInv, LruInv
  <2>2. lru \in Seq(File) /\ Len(lru) \in Nat /\ capacity \in Int
    BY <1>1, CapacityAssumption DEF IndInv, TypeOK
  <2>3. Len(lru) <= capacity
    BY <1>1, <2>2 DEF IndInv, LruInv
  <2>4. IsFiniteSet(1..Len(lru)) /\ Cardinality(1..Len(lru)) = Len(lru)
    BY <2>2, FS_Interval
  <2>5. lru \in [1..Len(lru) -> ToSet(lru)] /\ DOMAIN lru = 1..Len(lru)
    BY <2>2 DEF ToSet
  <2>6. lru \in Surjection(1..Len(lru), ToSet(lru))
    BY <2>5 DEF Surjection, ToSet
  <2>7. IsFiniteSet(ToSet(lru)) /\ Cardinality(ToSet(lru)) <= Len(lru)
    BY <2>4, <2>6, FS_Surjection
  <2>8. Cardinality(Idle) <= Cardinality(ToSet(lru)) /\ Cardinality(Idle) \in Nat
        /\ Cardinality(ToSet(lru)) \in Nat
    BY <2>1, <2>7, FS_Subset, FS_CardinalityType
  <2> QED BY <2>2, <2>3, <2>7, <2>8
<1> QED BY Inductive, <1>1, PTL

=============================================================================
