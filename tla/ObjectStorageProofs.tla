------------------------ MODULE ObjectStorageProofs ------------------------
(***************************************************************************)
(* Proofs about module ObjectStorage, for any set of goroutines, objects,  *)
(* packs and alternates and any number of calls: locks are given back, the *)
(* slice of packs mirrors the index, a rescan loses no published pack, a   *)
(* lookup reports only what was there and finds what is stored, and a      *)
(* repack loses nothing the references reach.                              *)
(***************************************************************************)
EXTENDS ObjectStorage, FiniteSetTheorems, SequenceTheorems, TLAPS

\* A sequence that lists the packs of S, each once.
Lists(s, S) == s \in Seq(Pack) /\ Range(s) = S /\ IsInjective(s)

\* The packs are finitely many.
LEMMA PacksFinite == ASSUME NEW S \in SUBSET Pack PROVE IsFiniteSet(S)
  <1>1. IsFiniteSet(SUBSET Object)
    BY StorageAssumption, FS_SUBSET
  <1>2. S \in SUBSET (SUBSET Object)
    BY DEF Pack
  <1> QED BY <1>1, <1>2, FS_Subset

\* What populateIndex makes of a listing.
LEMMA ListingLists == ASSUME NEW S \in SUBSET Pack PROVE Lists(SetToSeq(S), S)
  <1> DEFINE n == Cardinality(S)
  <1>1. IsFiniteSet(S) /\ n \in Nat /\ ExistsBijection(1..n, S)
    BY PacksFinite, FS_CardinalityType
  <1>2. \E f \in [1..n -> S] : IsInjective(f)
    BY <1>1 DEF ExistsBijection, Bijection, Injection, IsInjective
  <1>3. SetToSeq(S) \in [1..n -> S] /\ IsInjective(SetToSeq(S))
    BY <1>2 DEF SetToSeq
  <1>4. SetToSeq(S) \in Injection(1..n, S)
    BY <1>3 DEF Injection
  <1>5. Cardinality(1..n) = n
    BY <1>1, FS_Interval
  <1>6. SetToSeq(S) \in Surjection(1..n, S)
    BY <1>1, <1>4, <1>5, FS_Injection
  <1>7. Range(SetToSeq(S)) = S
    BY <1>3, <1>6 DEF Surjection, Range
  <1>8. SetToSeq(S) \in Seq(Pack)
    BY <1>1, <1>3, SeqDef
  <1> QED BY <1>3, <1>7, <1>8 DEF Lists

\* An entry is added to the slice.
LEMMA AppendLists ==
    ASSUME NEW s, NEW S, Lists(s, S), NEW k \in Pack, k \notin S
    PROVE  Lists(Append(s, k), S \cup {k})
  <1> DEFINE t == Append(s, k)
  <1>1. s \in Seq(Pack) /\ Range(s) = S /\ IsInjective(s) /\ Len(s) \in Nat
        /\ DOMAIN s = 1..Len(s)
    BY LenProperties DEF Lists
  <1>2. /\ t \in Seq(Pack) /\ Len(t) = Len(s) + 1 /\ DOMAIN t = 1..(Len(s) + 1)
        /\ \A i \in 1..Len(s) : t[i] = s[i]
        /\ t[Len(s) + 1] = k
    BY <1>1, AppendProperties, LenProperties
  <1> HIDE DEF t
  <1>3. Range(t) = S \cup {k}
    BY <1>1, <1>2 DEF Range
  <1>4. IsInjective(t)
    <2> SUFFICES ASSUME NEW i \in DOMAIN t, NEW j \in DOMAIN t, t[i] = t[j] PROVE i = j
      BY DEF IsInjective
    <2>1. ASSUME NEW a \in 1..Len(s) PROVE t[a] # k
      BY <1>1, <1>2 DEF Range
    <2>2. CASE i \in 1..Len(s) /\ j \in 1..Len(s)
      BY <1>1, <1>2, <2>2 DEF IsInjective
    <2>3. CASE ~ (i \in 1..Len(s) /\ j \in 1..Len(s))
      BY <1>1, <1>2, <2>1, <2>3
    <2> QED BY <2>2, <2>3
  <1> QED BY <1>2, <1>3, <1>4 DEF Lists, t

\* A set of naturals has a least member.
LEMMA LeastNatural ==
    ASSUME NEW T \in SUBSET Nat, T # {}
    PROVE  Min(T) \in T
  <1> DEFINE Below == {0..n : n \in T}
  <1>1. \A n \in Nat : 0..n \in SUBSET Nat /\ IsFiniteSet(0..n)
    BY FS_Interval
  <1>2. Below \subseteq FiniteSubsetsOf(Nat) /\ Below # {}
    BY <1>1 DEF FiniteSubsetsOf
  <1>3. PICK b \in Below : \A d \in Below : ~ (<<d, b>> \in StrictSubsetOrdering(Nat))
    <2> HIDE DEF Below
    <2> QED BY <1>2, WFMin, FS_StrictSubsetOrderingWellFounded
  <1>4. PICK n \in T : b = 0..n
    OBVIOUS
  <1>5. ASSUME NEW m \in T PROVE n <= m
    <2> SUFFICES ASSUME m < n PROVE FALSE
      OBVIOUS
    <2>1. 0..m \subseteq 0..n /\ 0..m # 0..n /\ 0..m \in SUBSET Nat /\ 0..n \in SUBSET Nat
      OBVIOUS
    <2>2. <<0..m, 0..n>> \in StrictSubsetOrdering(Nat)
      BY <2>1 DEF StrictSubsetOrdering
    <2> QED BY <1>3, <1>4, <2>2
  <1> QED BY <1>5 DEF Min

\* An entry is taken out of the slice.
LEMMA RemoveLists ==
    ASSUME NEW s, NEW S, Lists(s, S), NEW k \in S
    PROVE  Lists(RemoveFirst(s, k), S \ {k})
  <1>1. s \in Seq(Pack) /\ Range(s) = S /\ IsInjective(s) /\ Len(s) \in Nat
        /\ DOMAIN s = 1..Len(s)
    BY LenProperties DEF Lists
  <1> DEFINE I == {i \in 1..Len(s) : s[i] = k}
             at == Min(I)
             a == SubSeq(s, 1, at - 1)
             b == SubSeq(s, at + 1, Len(s))
             t == a \o b
  <1>2. I # {} /\ I \in SUBSET Nat
    BY <1>1 DEF Range
  <1>3. at \in 1..Len(s) /\ s[at] = k
    <2> HIDE DEF at
    <2>1. at \in I
      BY <1>2, LeastNatural DEF at
    <2> QED BY <2>1
  <1>4. RemoveFirst(s, k) = t
    BY <1>2 DEF RemoveFirst, SelectInSeq, RemoveAt
  <1> HIDE DEF at, I
  <1>5. /\ a \in Seq(Pack) /\ Len(a) = at - 1
        /\ \A i \in 1..(at - 1) : a[i] = s[i]
    BY <1>1, <1>3, SubSeqProperties, ElementOfSeq
  <1>6. /\ b \in Seq(Pack) /\ Len(b) = Len(s) - at
        /\ \A i \in 1..(Len(s) - at) : b[i] = s[at + i]
    <2> DEFINE m == at + 1
    <2>1. m \in Int /\ Len(s) \in Int /\ \A i \in m..Len(s) : s[i] \in Pack
      BY <1>1, <1>3, ElementOfSeq
    <2>2. b = SubSeq(s, m, Len(s))
      OBVIOUS
    <2> HIDE DEF m, b
    <2> DEFINE n == Len(s)
    <2>3. /\ b \in Seq(Pack)
          /\ Len(b) = IF m <= n THEN n - m + 1 ELSE 0
          /\ \A i \in 1..(n - m + 1) : b[i] = s[m + i - 1]
      <3>1. n \in Int /\ (\A i \in m..n : s[i] \in Pack) /\ b = SubSeq(s, m, n)
        BY <2>1, <2>2
      <3> HIDE DEF n
      <3>2. /\ SubSeq(s, m, n) \in Seq(Pack)
            /\ Len(SubSeq(s, m, n)) = IF m <= n THEN n - m + 1 ELSE 0
            /\ \A i \in 1..(n - m + 1) : SubSeq(s, m, n)[i] = s[m + i - 1]
        BY <2>1, <3>1, SubSeqProperties
      <3> QED BY <3>1, <3>2, Zenon
    <2>4. ASSUME NEW i \in 1..(Len(s) - at) PROVE b[i] = s[at + i]
      <3>1. i \in 1..(Len(s) - m + 1) /\ m + i - 1 = at + i
        BY <1>1, <1>3 DEF m
      <3> QED BY <2>3, <3>1
    <2>5. Len(b) = Len(s) - at
      <3>1. Len(b) = IF m <= Len(s) THEN Len(s) - m + 1 ELSE 0
        BY <2>3
      <3>2. (IF m <= n THEN n - m + 1 ELSE 0) = n - at
        <4>1. n \in Nat /\ at \in 1..n
          BY <1>1, <1>3
        <4> HIDE DEF n
        <4> QED BY <4>1 DEF m
      <3> QED BY <3>1, <3>2
    <2> QED BY <2>3, <2>4, <2>5
  <1> HIDE DEF a, b
  <1>7. /\ t \in Seq(Pack) /\ Len(t) = Len(s) - 1 /\ DOMAIN t = 1..(Len(s) - 1)
        /\ \A i \in 1..(Len(s) - 1) : t[i] = IF i < at THEN s[i] ELSE s[i + 1]
    <2>1. t \in Seq(Pack) /\ Len(t) = Len(a) + Len(b)
          /\ \A i \in 1..(Len(a) + Len(b)) : t[i] = IF i <= Len(a) THEN a[i] ELSE b[i - Len(a)]
      BY <1>5, <1>6, ConcatProperties
    <2>2. DOMAIN t = 1..Len(t)
      BY <2>1, LenProperties
    <2> HIDE DEF t
    <2>3. ASSUME NEW i \in 1..(Len(s) - 1) PROVE t[i] = IF i < at THEN s[i] ELSE s[i + 1]
      <3>1. CASE i < at
        <4>1. i \in 1..(Len(a) + Len(b)) /\ i <= Len(a) /\ i \in 1..(at - 1)
          BY <1>1, <1>3, <1>5, <1>6, <3>1
        <4> QED BY <1>5, <2>1, <3>1, <4>1
      <3>2. CASE ~ (i < at)
        <4>1. i - (at - 1) \in 1..(Len(s) - at) /\ at + (i - (at - 1)) = i + 1
          BY <1>1, <1>3, <3>2
        <4>2. i \in 1..(Len(a) + Len(b)) /\ ~ (i <= Len(a)) /\ Len(a) = at - 1
          BY <1>1, <1>3, <1>5, <1>6, <3>2
        <4>3. t[i] = b[i - (at - 1)]
          BY <2>1, <4>2
        <4> QED BY <1>6, <3>2, <4>1, <4>3
      <3> QED BY <3>1, <3>2
    <2>4. Len(t) = Len(s) - 1
      BY <1>1, <1>3, <1>5, <1>6, <2>1
    <2> QED BY <2>1, <2>2, <2>3, <2>4
  <1> HIDE DEF t
  <1>8. Range(t) = S \ {k}
    <2>1. ASSUME NEW i \in DOMAIN t PROVE t[i] \in S \ {k}
      <3>1. i \in 1..(Len(s) - 1)
        BY <1>7
      <3>2. CASE i < at
        BY <1>1, <1>3, <1>7, <3>1, <3>2 DEF Range, IsInjective
      <3>3. CASE ~ (i < at)
        <4>1. i + 1 \in DOMAIN s /\ i + 1 # at /\ t[i] = s[i + 1]
          BY <1>1, <1>3, <1>7, <3>1, <3>3
        <4> QED BY <1>1, <1>3, <4>1 DEF Range, IsInjective
      <3> QED BY <3>2, <3>3
    <2>2. ASSUME NEW x \in S \ {k} PROVE \E i \in DOMAIN t : t[i] = x
      <3>1. PICK i \in 1..Len(s) : s[i] = x
        BY <1>1 DEF Range
      <3>2. CASE i < at
        BY <1>1, <1>3, <1>7, <3>1, <3>2
      <3>3. CASE i > at
        <4>1. i - 1 \in 1..(Len(s) - 1) /\ ~ (i - 1 < at) /\ (i - 1) + 1 = i
          BY <1>1, <1>3, <3>3
        <4> QED BY <1>7, <3>1, <4>1
      <3> QED BY <1>1, <1>3, <3>1, <3>2, <3>3
    <2> QED BY <2>1, <2>2 DEF Range
  <1>9. IsInjective(t)
    <2> SUFFICES ASSUME NEW i \in 1..(Len(s) - 1), NEW j \in 1..(Len(s) - 1), t[i] = t[j]
                 PROVE  i = j
      BY <1>7 DEF IsInjective
    <2>1. PICK u \in 1..Len(s) : t[i] = s[u] /\ u = IF i < at THEN i ELSE i + 1
      BY <1>1, <1>7
    <2>2. PICK v \in 1..Len(s) : t[j] = s[v] /\ v = IF j < at THEN j ELSE j + 1
      BY <1>1, <1>7
    <2>3. u = v
      BY <1>1, <2>1, <2>2 DEF IsInjective
    <2> QED BY <1>1, <1>3, <2>1, <2>2, <2>3
  <1> QED BY <1>4, <1>7, <1>8, <1>9 DEF Lists
-----------------------------------------------------------------------------
(* The invariants.                                                          *)

\* The sections of the singleflight leaders and of muIWriters.
Leading == {"recheck", "lock", "scan", "load", "publish"}
Guarded == {"scan", "load", "publish", "delete", "unlink", "drop", "installIdx"}

Stage == Leading \cup Guarded \cup
    {"idle", "index", "join", "snapshot", "probe", "route", "open", "read", "loose",
     "alternates", "saveObject", "setRef", "walk", "newPack", "savePack", "notify",
     "prune", "deleteNext", "list", "nextPack", "install", "resetAlts", "done"}

\* The calls that come to a stage.
Fits(stage, o) ==
    /\ stage = "idle" => o = None
    /\ stage \in {"index", "join"} \cup Leading => o \in Lookups \cup Writes \cup {"reindex", "iter"}
    /\ stage \in {"snapshot", "probe", "loose"} => o \in Lookups
    /\ stage \in {"route", "open", "read"} => o \in {"get", "size", "delta", "iter"}
    /\ stage = "alternates" => o \in {"get", "has", "size"}
    /\ stage = "saveObject" => o = "commit"
    /\ stage = "setRef" => o \in {"commit", "fetch"}
    /\ stage \in {"newPack", "savePack", "notify"} => o \in Writes
    /\ stage \in {"walk", "prune", "deleteNext", "delete", "unlink", "drop"} => o = "repack"
    /\ stage \in {"list", "nextPack", "install", "installIdx"} => o = "iter"
    /\ stage = "resetAlts" => o = "addalt"

LockTypes ==
    /\ pc \in [Proc -> Stage] /\ op \in [Proc -> Lookups \cup Writes \cup Others \cup {None}]
    /\ DOMAIN pack = Proc
    /\ wlock \in Proc \cup {None} /\ flight \in [{"populate", "reindex"} -> Proc \cup {None}]

\* A lock has a holder inside its section, and whoever is inside holds it.
LocksHeld ==
    /\ \A p \in Proc : pc[p] \in Guarded <=> wlock = p
    /\ \A p \in Proc : pc[p] \in Leading => flight[Key(p)] = p
    /\ \A p \in Proc, k \in {"populate", "reindex"} :
          flight[k] = p => pc[p] \in Leading /\ Key(p) = k
    /\ \A p \in Proc : pc[p] = "join" => flight[Key(p)] # None

LockInv ==
    /\ LockTypes /\ LocksHeld
    /\ \A p \in Proc : Fits(pc[p], op[p]) /\ (op[p] = "fetch" => pack[p] # {})

\* The stages of a call that come after requireIndex, and those that have a pack.
AfterRequire(o, stage) ==
    \/ stage = "snapshot"
    \/ /\ o \in Writes \cup {"iter"}
       /\ stage \notin {"walk", "index", "join", "done"} \cup Leading
PackStages == {"route", "open", "read", "install", "installIdx", "notify"}

IndexTypes ==
    /\ obj \in [Proc -> Object \cup {None}] /\ pack \in [Proc -> SUBSET Object]
    /\ snap \in [Proc -> Seq(Pack)] /\ todo \in [Proc -> SUBSET Pack]
    /\ loose \subseteq Object

\* The slice mirrors the map, and packs whose publication is complete are on disk,
\* in the listing that a rescan would use and in the index.
IndexShared ==
    /\ exclusive \in BOOLEAN /\ files \subseteq Pack
    /\ packList = None \/ packList \subseteq Pack
    /\ IF index = None THEN packs = <<>> ELSE index \subseteq Pack /\ Lists(packs, index)
    /\ published \subseteq files \cap Catalog
    /\ index # None => published \subseteq index

\* The listing a rescan has taken has all published packs: none is published while
\* it holds muIWriters.
IndexLocal(p) ==
    /\ Lists(snap[p], Range(snap[p]))
    /\ pc[p] \in {"load", "publish"} => published \subseteq Range(snap[p])
    /\ AfterRequire(op[p], pc[p]) => index # None
    /\ pc[p] \in PackStages => pack[p] \in Pack
    /\ op[p] \in Lookups \cup {"commit"} => obj[p] \in Object

IndexInv == IndexTypes /\ IndexShared /\ \A p \in Proc : IndexLocal(p)

\* What a lookup may find: what is stored, in an alternate or indexed.
Around == Stored \cup AltObjects \cup UNION (IF index = None THEN {} ELSE index)
Reads  == {"route", "open", "read"}

\* The alternates a lookup asks are in the file.
FoundTypes ==
    /\ altFile \in Seq(SUBSET Object)
    /\ alts = None \/ (alts \in Seq(SUBSET Object) /\ Len(alts) <= Len(altFile)
                       /\ \A i \in DOMAIN alts : alts[i] \subseteq AltObjects)
    /\ avail \in [Proc -> BOOLEAN] /\ DOMAIN res = Proc

\* What a lookup may find is marked as having been there.
FoundLocal(p) ==
    /\ op[p] \in Lookups =>
          /\ obj[p] \in Around => avail[p]
          /\ pc[p] = "probe" /\ InSome(obj[p], Range(snap[p])) => avail[p]
          /\ pc[p] \in Reads => avail[p]
    /\ res[p] = "found" => avail[p] \/ (op[p] \in {"has", "size"} /\ Len(altFile) > 1)
    /\ pc[p] # "done" => res[p] = None

FoundInv == FoundTypes /\ \A p \in Proc : FoundLocal(p)

\* The stages in which a repack has its pack, and those in which it deletes one.
Victims  == {"delete", "unlink", "drop"}
Deleting == {"prune", "deleteNext"} \cup Victims

\* What a writer is about to point a reference at is stored, and from the walk of a
\* repack on everything needed is loose or in its pack.
KeepLocal(p) ==
    /\ op[p] = "commit" /\ pc[p] = "setRef" => obj[p] \in loose \cup needed
    /\ op[p] \in Writes /\ pc[p] \in {"notify", "setRef"} => pack[p] \in files
    /\ op[p] = "repack" /\ pc[p] \notin {"walk", "done"} =>
          pack[p] \subseteq needed /\ needed \subseteq loose \cup pack[p]
    /\ op[p] = "repack" /\ pc[p] \in Deleting => pack[p] \in files \cup {{}}

\* Without overlap a repack is the only writer of packs.
KeepShared ==
    /\ needed \subseteq Stored
    /\ \A p, q \in Proc : op[p] = "repack" /\ op[q] \in Writes => p = q

KeepInv ==
    /\ \A p \in Proc : pc[p] \in Victims => Victim(p) # pack[p]
    /\ ~overlap => KeepShared /\ \A p \in Proc : KeepLocal(p)

-----------------------------------------------------------------------------
(* Locks.                                                                   *)

\* A goroutine moves on within or outside the sections it is in.
Allowed(p, s) ==
    /\ s \in Stage \ {"join"} /\ Fits(s, op[p])
    /\ s \in Guarded <=> pc[p] \in Guarded
    /\ s \in Leading <=> pc[p] \in Leading

PackFits == DOMAIN pack' = Proc /\ \A q \in Proc : op'[q] = "fetch" => pack'[q] # {}

LEMMA PlainMove ==
    ASSUME LockInv, NEW p \in Proc, NEW s, GoTo(p, s), Allowed(p, s), PackFits,
           UNCHANGED <<op, wlock, flight>>
    PROVE  LockInv'
  <1>1. LockTypes'
    BY DEF LockInv, LockTypes, GoTo, Allowed, PackFits
  <1>2. \A q \in Proc : pc'[q] = IF q = p THEN s ELSE pc[q]
    BY DEF LockInv, LockTypes, GoTo
  <1>3. \A q \in Proc : Key(q)' = Key(q)
    BY DEF Key
  <1>4. LocksHeld'
    BY <1>2, <1>3 DEF LockInv, LocksHeld, Allowed
  <1>5. \A q \in Proc : Fits(pc[q], op[q])'
    BY <1>2 DEF LockInv, Allowed, Fits
  <1> QED BY <1>1, <1>4, <1>5 DEF LockInv, PackFits

\* The start of a call.
LEMMA CallMove ==
    ASSUME LockInv, NEW p \in Proc, NEW o, NEW s, Call(p, o, s), PackFits,
           s \in Stage \ (Leading \cup Guarded \cup {"join"}), Fits(s, o),
           UNCHANGED <<wlock, flight>>
    PROVE  LockInv'
  <1>1. pc[p] = "idle" /\ o \in Lookups \cup Writes \cup Others
    BY StorageAssumption DEF Call
  <1>2. LockTypes'
    BY <1>1 DEF LockInv, LockTypes, Call, GoTo, PackFits
  <1>3. \A q \in Proc : /\ pc'[q] = IF q = p THEN s ELSE pc[q]
                       /\ op'[q] = IF q = p THEN o ELSE op[q]
    BY DEF LockInv, LockTypes, Call, GoTo
  <1>4. \A q \in Proc \ {p} : Key(q)' = Key(q)
    BY <1>3 DEF Key
  <1>5. LocksHeld'
    BY <1>1, <1>3, <1>4 DEF LockInv, LocksHeld, Leading, Guarded
  <1>6. \A q \in Proc : Fits(pc[q], op[q])'
    BY <1>3 DEF LockInv, Fits
  <1> QED BY <1>2, <1>5, <1>6 DEF LockInv, PackFits

\* The stages requireIndex and Reindex return to.
LEMMA IndexStages ==
    ASSUME LockInv, NEW q \in Proc, pc[q] \in {"index", "join"} \cup Leading
    PROVE  /\ AfterIndex(q) \in {"snapshot", "newPack", "list", "done"}
           /\ AfterIndexError(q) \in {"loose", "done"}
           /\ Fits(AfterIndex(q), op[q]) /\ Fits(AfterIndexError(q), op[q])
  <1>1. op[q] \in Lookups \cup Writes \cup {"reindex", "iter"}
    BY DEF LockInv, Fits
  <1>2. AfterIndex(q) = CASE op[q] \in Lookups   -> "snapshot"
                          [] op[q] \in Writes    -> "newPack"
                          [] op[q] = "iter"      -> "list"
                          [] op[q] = "reindex"   -> "done"
    BY DEF AfterIndex
  <1>3. CASE op[q] \in Lookups
    BY <1>2, <1>3 DEF AfterIndexError, Fits, Leading, Lookups, Writes
  <1>4. CASE op[q] \in Writes
    BY <1>2, <1>4 DEF AfterIndexError, Fits, Leading, Lookups, Writes
  <1>5. CASE op[q] = "iter"
    BY <1>2, <1>5 DEF AfterIndexError, Fits, Leading, Lookups, Writes
  <1>6. CASE op[q] = "reindex"
    BY <1>2, <1>6 DEF AfterIndexError, Fits, Leading, Lookups, Writes
  <1> QED BY <1>1, <1>3, <1>4, <1>5, <1>6

\* The leader and everybody who waits for it leave.
LEMMA FlightEnds ==
    ASSUME LockInv, NEW p \in Proc, NEW ok, NEW stale, EndFlight(p, ok, stale),
           pc[p] \in Leading, UNCHANGED <<op, pack>>,
           wlock' = IF pc[p] \in Guarded THEN None ELSE wlock
    PROVE  LockInv'
  <1> DEFINE told == {q \in Proc : q = p \/ (pc[q] = "join" /\ Key(q) = Key(p))}
             after(q) == IF ok THEN AfterIndex(q) ELSE AfterIndexError(q)
  <1>1. pc' = [q \in Proc |-> IF q \in told THEN after(q) ELSE pc[q]]
        /\ flight' = [flight EXCEPT ![Key(p)] = None]
    BY DEF EndFlight
  <1>2. \A q \in told : after(q) \in {"snapshot", "newPack", "list", "done", "loose"}
                        /\ Fits(after(q), op[q])
    BY IndexStages
  <1> HIDE DEF after
  <1>3. LockTypes'
    <2>1. pc' \in [Proc -> Stage]
      BY <1>1, <1>2 DEF LockInv, LockTypes, Stage
    <2> QED BY <1>1, <2>1 DEF LockInv, LockTypes
  <1>4. \A q \in Proc : Fits(pc[q], op[q])'
    BY <1>1, <1>2 DEF LockInv, Fits
  <1>5. \A q \in Proc : Key(q)' = Key(q)
    BY DEF Key
  <1>6. \A q \in Proc : Key(q) \in {"populate", "reindex"}
    BY DEF Key
  <1>7. flight[Key(p)] = p /\ (pc[p] \in Guarded <=> wlock = p) /\ None \notin Proc
    BY StorageAssumption DEF LockInv, LocksHeld
  <1>8. \A q \in Proc : pc'[q] \in Guarded <=> pc[q] \in Guarded /\ q # p
    BY <1>1, <1>2 DEF Guarded
  <1>9. \A q \in Proc : pc'[q] \in Leading <=> pc[q] \in Leading /\ q # p
    BY <1>1, <1>2 DEF Leading
  <1>10. \A q \in Proc : pc'[q] = "join" => pc[q] = "join" /\ Key(q) # Key(p)
    BY <1>1, <1>2
  <1>11. \A k \in {"populate", "reindex"} : flight'[k] = IF k = Key(p) THEN None ELSE flight[k]
    BY <1>1, <1>6 DEF LockInv, LockTypes
  <1>12. \A q \in Proc : pc'[q] \in Guarded <=> wlock' = q
    BY <1>7, <1>8 DEF LockInv, LocksHeld
  <1>13. \A q \in Proc : pc'[q] \in Leading => flight'[Key(q)] = q
    BY <1>6, <1>7, <1>9, <1>11 DEF LockInv, LocksHeld
  <1>14. \A q \in Proc, k \in {"populate", "reindex"} :
           flight'[k] = q => pc'[q] \in Leading /\ Key(q) = k
    BY <1>6, <1>7, <1>9, <1>11 DEF LockInv, LocksHeld
  <1>15. \A q \in Proc : pc'[q] = "join" => flight'[Key(q)] # None
    BY <1>6, <1>10, <1>11 DEF LockInv, LocksHeld
  <1>16. LocksHeld'
    BY <1>5, <1>12, <1>13, <1>14, <1>15 DEF LocksHeld
  <1> QED BY <1>3, <1>4, <1>16 DEF LockInv

\* The moves that neither take nor give back a lock.
LEMMA Onward ==
    ASSUME LockInv, NEW p \in Proc
    PROVE  /\ pc[p] = "index" => Allowed(p, AfterIndex(p))
           /\ pc[p] = "recheck" => Allowed(p, "lock")
           /\ pc[p] = "scan" => Allowed(p, "load")
           /\ pc[p] = "load" => Allowed(p, "publish")
           /\ pc[p] = "snapshot" => Allowed(p, "probe")
           /\ pc[p] = "probe" => Allowed(p, "loose") /\ (op[p] # "has" => Allowed(p, "route"))
           /\ pc[p] = "route" => Allowed(p, "open")
           /\ pc[p] = "open" => Allowed(p, "read")
           /\ pc[p] = "read" /\ op[p] = "iter" => Allowed(p, "install")
           /\ pc[p] = "loose" => IF op[p] = "delta" THEN Allowed(p, "index")
                                ELSE Allowed(p, "alternates")
           /\ pc[p] = "saveObject" => Allowed(p, "setRef")
           /\ pc[p] = "walk" => Allowed(p, "index")
           /\ pc[p] = "newPack" => Allowed(p, "savePack")
           /\ pc[p] = "savePack" => Allowed(p, "notify")
                                   /\ (op[p] # "fetch" => Allowed(p, "prune"))
           /\ pc[p] = "notify" => Allowed(p, IF op[p] = "fetch" THEN "setRef" ELSE "prune")
           /\ pc[p] = "prune" => Allowed(p, "deleteNext")
           /\ pc[p] = "delete" => Allowed(p, "unlink")
           /\ pc[p] = "unlink" => Allowed(p, "drop")
           /\ pc[p] = "list" => Allowed(p, "nextPack")
           /\ pc[p] = "nextPack" => Allowed(p, "route")
           /\ pc[p] = "install" => Allowed(p, "nextPack")
           /\ pc[p] \notin Guarded \cup Leading => Allowed(p, "done")
  <1>1. Fits(pc[p], op[p])
    BY DEF LockInv
  <1>2. pc[p] = "index" => Allowed(p, AfterIndex(p))
    BY IndexStages DEF Allowed, Stage, Guarded, Leading
  <1> QED
    BY <1>1, <1>2 DEF Allowed, Fits, Stage, Guarded, Leading, Lookups, Writes

\* muIWriters is taken.
LEMMA LockTaken ==
    ASSUME LockInv, NEW p \in Proc, NEW s, GoTo(p, s), Fits(s, op[p]), PackFits,
           UNCHANGED <<op, flight>>, wlock = None, wlock' = p,
           s \in Guarded, s \in Leading <=> pc[p] \in Leading
    PROVE  LockInv'
  <1>1. LockTypes'
    BY DEF LockInv, LockTypes, GoTo, PackFits, Stage
  <1>2. \A q \in Proc : pc'[q] = IF q = p THEN s ELSE pc[q]
    BY DEF LockInv, LockTypes, GoTo
  <1>3. \A q \in Proc : Key(q)' = Key(q)
    BY DEF Key
  <1>4. s # "join" /\ None \notin Proc
    BY StorageAssumption DEF Guarded
  <1>5. LocksHeld'
    BY <1>2, <1>3, <1>4 DEF LockInv, LocksHeld
  <1>6. \A q \in Proc : Fits(pc[q], op[q])'
    BY <1>2 DEF LockInv, Fits
  <1> QED BY <1>1, <1>5, <1>6 DEF LockInv, PackFits

\* muIWriters is given back.
LEMMA LockGivenBack ==
    ASSUME LockInv, NEW p \in Proc, NEW s, GoTo(p, s), Fits(s, op[p]), PackFits,
           UNCHANGED <<op, flight>>, pc[p] \in Guarded \ Leading, wlock' = None,
           s \in Stage \ (Guarded \cup Leading \cup {"join"})
    PROVE  LockInv'
  <1>1. LockTypes'
    BY DEF LockInv, LockTypes, GoTo, PackFits
  <1>2. \A q \in Proc : pc'[q] = IF q = p THEN s ELSE pc[q]
    BY DEF LockInv, LockTypes, GoTo
  <1>3. \A q \in Proc : Key(q)' = Key(q)
    BY DEF Key
  <1>4. None \notin Proc /\ wlock = p
    BY StorageAssumption DEF LockInv, LocksHeld
  <1>5. LocksHeld'
    BY <1>2, <1>3, <1>4 DEF LockInv, LocksHeld
  <1>6. \A q \in Proc : Fits(pc[q], op[q])'
    BY <1>2 DEF LockInv, Fits
  <1> QED BY <1>1, <1>5, <1>6 DEF LockInv, PackFits

LEMMA SamePack ==
    ASSUME LockInv, UNCHANGED <<op, pack>>
    PROVE  PackFits
  BY DEF LockInv, LockTypes, PackFits

LEMMA OtherPack ==
    ASSUME LockInv, NEW p \in Proc, NEW k, op'[p] # "fetch" \/ k # {},
           pack' = [pack EXCEPT ![p] = k], \A q \in Proc \ {p} : op'[q] = op[q]
    PROVE  PackFits
  BY DEF LockInv, LockTypes, PackFits

\* A call starts.
LEMMA LocksAtStart ==
    ASSUME LockInv, NEW p \in Proc, Start(p)
    PROVE  LockInv'
  <1> USE DEF locals, locks
  <1>1. ASSUME NEW o, NEW s, Call(p, o, s), UNCHANGED pack, o # "fetch"
        PROVE  PackFits
    BY <1>1 DEF Call, LockInv, LockTypes, PackFits
  <1>2. CASE \E o \in Lookups, x \in Object : Lookup(p, o, x)
    <2>1. PICK o \in Lookups, x \in Object : Lookup(p, o, x)
      BY <1>2
    <2> DEFINE s == IF o = "delta" THEN "loose" ELSE "index"
    <2>2. Call(p, o, s) /\ UNCHANGED <<pack, wlock, flight>> /\ o # "fetch"
      BY <2>1 DEF Lookup, Lookups
    <2>3. s \in Stage \ (Leading \cup Guarded \cup {"join"}) /\ Fits(s, o)
      BY DEF Stage, Leading, Guarded, Fits, Lookups
    <2> HIDE DEF s
    <2> QED BY <1>1, <2>2, <2>3, CallMove
  <1>3. CASE \E x \in Object : Commit(p, x)
    <2>1. Call(p, "commit", "saveObject") /\ UNCHANGED <<pack, wlock, flight>>
      BY <1>3 DEF Commit
    <2>2. "saveObject" \in Stage \ (Leading \cup Guarded \cup {"join"}) /\ Fits("saveObject", "commit")
      BY DEF Stage, Leading, Guarded, Fits, Lookups, Writes
    <2> QED BY <1>1, <2>1, <2>2, CallMove
  <1>4. CASE Reindex(p)
    <2>1. Call(p, "reindex", "index") /\ UNCHANGED <<pack, wlock, flight>>
      BY <1>4 DEF Reindex
    <2>2. "index" \in Stage \ (Leading \cup Guarded \cup {"join"}) /\ Fits("index", "reindex")
      BY DEF Stage, Leading, Guarded, Fits, Lookups, Writes
    <2> QED BY <1>1, <2>1, <2>2, CallMove
  <1>5. CASE Iterate(p)
    <2>1. Call(p, "iter", "index") /\ UNCHANGED <<pack, wlock, flight>>
      BY <1>5 DEF Iterate
    <2>2. "index" \in Stage \ (Leading \cup Guarded \cup {"join"}) /\ Fits("index", "iter")
      BY DEF Stage, Leading, Guarded, Fits, Lookups, Writes
    <2> QED BY <1>1, <2>1, <2>2, CallMove
  <1>6. CASE AddAlternate(p)
    <2>1. Call(p, "addalt", "resetAlts") /\ UNCHANGED <<pack, wlock, flight>>
      BY <1>6 DEF AddAlternate
    <2>2. "resetAlts" \in Stage \ (Leading \cup Guarded \cup {"join"}) /\ Fits("resetAlts", "addalt")
      BY DEF Stage, Leading, Guarded, Fits, Lookups, Writes
    <2> QED BY <1>1, <2>1, <2>2, CallMove
  <1>7. CASE Repack(p)
    <2>1. Call(p, "repack", "walk") /\ UNCHANGED <<pack, wlock, flight>>
      BY <1>7 DEF Repack
    <2>2. "walk" \in Stage \ (Leading \cup Guarded \cup {"join"}) /\ Fits("walk", "repack")
      BY DEF Stage, Leading, Guarded, Fits, Lookups, Writes
    <2> QED BY <1>1, <2>1, <2>2, CallMove
  <1>8. CASE \E k \in Packs : Fetch(p, k)
    <2>1. PICK k \in Packs : Fetch(p, k)
      BY <1>8
    <2>2. Call(p, "fetch", "index") /\ UNCHANGED <<wlock, flight>>
          /\ pack' = [pack EXCEPT ![p] = k]
      BY <2>1 DEF Fetch
    <2>3. k # {}
      <3>1. k \in Pack
        BY StorageAssumption
      <3> QED BY <3>1 DEF Pack
    <2>4. PackFits
      BY <2>2, <2>3 DEF Call, LockInv, LockTypes, PackFits
    <2>5. "index" \in Stage \ (Leading \cup Guarded \cup {"join"}) /\ Fits("index", "fetch")
      BY DEF Stage, Leading, Guarded, Fits, Lookups, Writes
    <2> QED BY <2>2, <2>4, <2>5, CallMove
  <1> QED BY <1>2, <1>3, <1>4, <1>5, <1>6, <1>7, <1>8 DEF Start

\* A goroutine takes a step of its call.
LEMMA LocksAtStep ==
    ASSUME LockInv, NEW p \in Proc, Step(p)
    PROVE  LockInv'
  <1> USE DEF locals, locks
  <1>1. ASSUME NEW s, GoTo(p, s), Allowed(p, s), UNCHANGED <<op, wlock, flight, pack>>
        PROVE  LockInv'
    BY <1>1, PlainMove, SamePack
  <1>2. ASSUME NEW r, Return(p, r), pc[p] \notin Guarded \cup Leading,
               UNCHANGED <<op, wlock, flight, pack>>
        PROVE  LockInv'
    BY <1>1, <1>2, Onward DEF Return
  <1>3. CASE IndexReady(p)
    BY <1>3, <1>1, Onward DEF IndexReady
  <1>4. CASE SaveObject(p)
    BY <1>4, <1>1, Onward DEF SaveObject
  <1>5. CASE NewObjectPack(p)
    BY <1>5, <1>1, Onward DEF NewObjectPack
  <1>6. CASE PruneLoose(p)
    BY <1>6, <1>1, Onward DEF PruneLoose
  <1>7. CASE DeletePack(p)
    BY <1>7, <1>1, Onward DEF DeletePack
  <1>8. CASE Unlink(p)
    BY <1>8, <1>1, Onward DEF Unlink
  <1>9. CASE TooNew(p)
    BY <1>9, <1>1, Onward DEF TooNew
  <1>10. CASE ScanPacks(p)
    BY <1>10, <1>1, Onward DEF ScanPacks
  <1>11. CASE LoadIndexes(p)
    BY <1>11, <1>1, Onward DEF LoadIndexes
  <1>12. CASE Snapshot(p)
    BY <1>12, <1>1, Onward DEF Snapshot
  <1>13. CASE ListPacks(p)
    BY <1>13, <1>1, Onward DEF ListPacks
  <1>14. CASE InstallKnown(p)
    BY <1>14, <1>1, Onward DEF InstallKnown
  <1>15. CASE Notify(p)
    BY <1>15, <1>1, Onward DEF Notify
  <1>16. CASE ResetAlternates(p)
    BY <1>16, <1>2 DEF ResetAlternates, Guarded, Leading
  <1>17. CASE CacheHit(p)
    BY <1>17, <1>2 DEF CacheHit, Guarded, Leading
  <1>18. CASE LooseHit(p)
    BY <1>18, <1>2 DEF LooseHit, Guarded, Leading
  <1>19. CASE SetReference(p)
    BY <1>19, <1>2 DEF SetReference, Guarded, Leading
  <1>20. CASE SaveFails(p)
    BY <1>20, <1>2 DEF SaveFails, Guarded, Leading
  <1>21. CASE DeleteDone(p)
    BY <1>21, <1>2 DEF DeleteDone, Guarded, Leading
  <1>22. CASE ProbeMiss(p)
    BY <1>22, <1>1, <1>2, Onward DEF ProbeMiss, Guarded, Leading
  <1>23. CASE GetHandle(p)
    BY <1>23, <1>1, <1>2, Onward DEF GetHandle, Guarded, Leading
  <1>24. CASE OpenPack(p)
    BY <1>24, <1>1, <1>2, Onward DEF OpenPack, Guarded, Leading
  <1>25. CASE ReadPack(p)
    BY <1>25, <1>1, <1>2, Onward DEF ReadPack, Guarded, Leading
  <1>26. CASE LooseMiss(p)
    <2>1. UNCHANGED <<op, wlock, flight, pack>> /\ pc[p] = "loose"
      BY <1>26 DEF LooseMiss
    <2>2. CASE op[p] = "delta"
      BY <1>26, <1>1, <2>1, <2>2, Onward DEF LooseMiss
    <2>3. CASE op[p] # "delta"
      <3>1. (\E r : Return(p, r)) \/ GoTo(p, "alternates")
        BY <1>26, <2>3 DEF LooseMiss
      <3> QED BY <1>1, <1>2, <2>1, <2>3, <3>1, Onward DEF Guarded, Leading
    <2> QED BY <2>2, <2>3
  <1>27. CASE FindInAlternates(p)
    <2>1. UNCHANGED <<op, wlock, flight, pack>> /\ pc[p] = "alternates"
          /\ \E r : Return(p, r)
      BY <1>27 DEF FindInAlternates
    <2> QED BY <1>2, <2>1 DEF Guarded, Leading
  <1>28. CASE SavePack(p)
    <2>1. UNCHANGED <<op, wlock, flight, pack>> /\ pc[p] = "savePack"
          /\ GoTo(p, IF pack[p] # {} THEN "notify" ELSE "prune")
      BY <1>28 DEF SavePack
    <2>2. op[p] = "fetch" => pack[p] # {}
      BY DEF LockInv
    <2> QED BY <1>1, <2>1, <2>2, Onward
  <1>29. CASE WalkAllRefs(p)
    <2>1. UNCHANGED <<op, wlock, flight>> /\ pc[p] = "walk" /\ GoTo(p, "index")
          /\ pack' = [pack EXCEPT ![p] = needed \cap Stored]
      BY <1>29 DEF WalkAllRefs
    <2>2. op[p] # "fetch"
      BY <2>1 DEF LockInv, Fits
    <2> QED BY <2>1, <2>2, OtherPack, PlainMove, Onward
  <1>30. CASE ProbeHit(p)
    <2>1. /\ UNCHANGED <<op, wlock, flight>> /\ pc[p] = "probe"
          /\ \E k : pack' = [pack EXCEPT ![p] = k]
          /\ IF op[p] = "has" THEN GoTo(p, "done") ELSE GoTo(p, "route")
      BY <1>30 DEF ProbeHit, Return
    <2>2. op[p] # "fetch"
      BY <2>1 DEF LockInv, Fits, Lookups
    <2>3. PackFits
      BY <2>1, <2>2, OtherPack
    <2>4. Allowed(p, "done") /\ (op[p] # "has" => Allowed(p, "route"))
      BY <2>1, Onward DEF Guarded, Leading
    <2> QED BY <2>1, <2>3, <2>4, PlainMove
  <1>31. CASE NextPack(p)
    <2>1. UNCHANGED <<op, wlock, flight>> /\ pc[p] = "nextPack"
      BY <1>31 DEF NextPack
    <2>2. op[p] # "fetch"
      BY <2>1 DEF LockInv, Fits
    <2>3. CASE \E k \in todo[p] : pack' = [pack EXCEPT ![p] = k] /\ GoTo(p, "route")
      BY <2>1, <2>2, <2>3, OtherPack, PlainMove, Onward
    <2>4. CASE Return(p, "ok") /\ UNCHANGED pack
      BY <1>2, <2>1, <2>4 DEF Guarded, Leading
    <2> QED BY <1>31, <2>3, <2>4 DEF NextPack
  <1>32. CASE Recheck(p)
    <2>1. UNCHANGED <<op, wlock, pack>> /\ pc[p] = "recheck"
      BY <1>32 DEF Recheck
    <2>2. CASE GoTo(p, "lock") /\ UNCHANGED flight
      BY <1>1, <2>1, <2>2, Onward
    <2>3. CASE EndFlight(p, TRUE, {})
      BY <2>1, <2>3, FlightEnds DEF Leading, Guarded
    <2> QED BY <1>32, <2>2, <2>3 DEF Recheck
  <1>33. CASE LoadFails(p)
    <2>1. UNCHANGED <<op, pack>> /\ pc[p] = "load" /\ wlock' = None /\ EndFlight(p, FALSE, {})
      BY <1>33 DEF LoadFails
    <2> QED BY <2>1, FlightEnds DEF Leading, Guarded
  <1>34. CASE Publish(p)
    <2>1. UNCHANGED <<op, pack>> /\ pc[p] = "publish" /\ wlock' = None
          /\ EndFlight(p, TRUE, Range(snap[p]) \ (files \cap Catalog))
      BY <1>34 DEF Publish
    <2> QED BY <2>1, FlightEnds DEF Leading, Guarded
  <1>35. CASE LockWriters(p)
    <2>1. UNCHANGED <<op, pack, flight>> /\ pc[p] = "lock" /\ wlock = None /\ wlock' = p
          /\ GoTo(p, "scan")
      BY <1>35 DEF LockWriters
    <2>2. Fits("scan", op[p])
      BY <2>1 DEF LockInv, Fits, Leading
    <2> QED BY <2>1, <2>2, SamePack, LockTaken DEF Leading, Guarded
  <1>36. CASE LockDelete(p)
    <2>1. UNCHANGED <<op, pack, flight>> /\ pc[p] = "deleteNext" /\ wlock = None /\ wlock' = p
          /\ GoTo(p, "delete")
      BY <1>36 DEF LockDelete
    <2>2. Fits("delete", op[p])
      BY <2>1 DEF LockInv, Fits, Leading
    <2> QED BY <2>1, <2>2, SamePack, LockTaken DEF Leading, Guarded
  <1>37. CASE InstallLock(p)
    <2>1. UNCHANGED <<op, pack, flight>> /\ pc[p] = "install" /\ wlock = None /\ wlock' = p
          /\ GoTo(p, "installIdx")
      BY <1>37 DEF InstallLock
    <2>2. Fits("installIdx", op[p])
      BY <2>1 DEF LockInv, Fits, Leading
    <2> QED BY <2>1, <2>2, SamePack, LockTaken DEF Leading, Guarded
  <1>38. CASE UnlinkFails(p)
    <2>1. UNCHANGED <<op, pack, flight>> /\ pc[p] = "unlink" /\ wlock' = None /\ GoTo(p, "done")
      BY <1>38 DEF UnlinkFails, Return
    <2>2. Fits("done", op[p])
      BY DEF Fits, Leading
    <2> QED BY <2>1, <2>2, SamePack, LockGivenBack DEF Leading, Guarded, Stage
  <1>39. CASE DropEntry(p)
    <2>1. UNCHANGED <<op, pack, flight>> /\ pc[p] = "drop" /\ wlock' = None
          /\ GoTo(p, "deleteNext")
      BY <1>39 DEF DropEntry
    <2>2. Fits("deleteNext", op[p])
      BY <2>1 DEF LockInv, Fits, Leading
    <2> QED BY <2>1, <2>2, SamePack, LockGivenBack DEF Leading, Guarded, Stage
  <1>40. CASE InstallIdx(p)
    <2>1. UNCHANGED <<op, pack, flight>> /\ pc[p] = "installIdx" /\ wlock' = None
      BY <1>40 DEF InstallIdx
    <2>2. GoTo(p, "nextPack") \/ GoTo(p, "done")
      BY <1>40 DEF InstallIdx, Return
    <2>3. Fits("nextPack", op[p]) /\ Fits("done", op[p])
      BY <2>1 DEF LockInv, Fits, Leading
    <2> QED BY <2>1, <2>2, <2>3, SamePack, LockGivenBack DEF Leading, Guarded, Stage
  <1>41. CASE Join(p)
    <2>1. UNCHANGED <<op, wlock, pack, flight>> /\ pc[p] = "index" /\ flight[Key(p)] # None
          /\ GoTo(p, "join")
      BY <1>41 DEF Join
    <2>2. \A q \in Proc : pc'[q] = IF q = p THEN "join" ELSE pc[q]
      BY <2>1 DEF LockInv, LockTypes, GoTo
    <2>3. LockTypes'
      BY <2>1 DEF LockInv, LockTypes, GoTo, Stage
    <2>4. LocksHeld'
      BY <2>1, <2>2 DEF LockInv, LocksHeld, Key, Leading, Guarded
    <2>5. \A q \in Proc : Fits(pc[q], op[q])'
      BY <2>1, <2>2 DEF LockInv, Fits, Leading
    <2> QED BY <2>1, <2>3, <2>4, <2>5 DEF LockInv
  <1>42. CASE Lead(p)
    <2>1. UNCHANGED <<op, wlock, pack>> /\ pc[p] = "index" /\ flight[Key(p)] = None
          /\ flight' = [flight EXCEPT ![Key(p)] = p] /\ GoTo(p, "recheck")
      BY <1>42 DEF Lead
    <2>2. \A q \in Proc : pc'[q] = IF q = p THEN "recheck" ELSE pc[q]
      BY <2>1 DEF LockInv, LockTypes, GoTo
    <2>3. LockTypes'
      BY <2>1 DEF LockInv, LockTypes, GoTo, Stage, Leading
    <2>4. LocksHeld'
      <3>1. /\ \A q \in Proc : Key(q)' = Key(q) /\ Key(q) \in {"populate", "reindex"}
            /\ None \notin Proc
        BY <2>1, StorageAssumption DEF Key
      <3>2. \A k \in {"populate", "reindex"} : flight'[k] = IF k = Key(p) THEN p ELSE flight[k]
        BY <2>1 DEF LockInv, LockTypes
      <3>3. \A q \in Proc : /\ pc'[q] \in Guarded <=> pc[q] \in Guarded
                            /\ pc'[q] \in Leading <=> pc[q] \in Leading \/ q = p
        BY <2>1, <2>2 DEF Guarded, Leading
      <3>4. \A q \in Proc : pc'[q] = "join" => pc[q] = "join"
        BY <2>2
      <3>5. \A q \in Proc : pc'[q] \in Guarded <=> wlock' = q
        BY <2>1, <3>3 DEF LockInv, LocksHeld
      <3>6. \A q \in Proc : pc'[q] \in Leading => flight'[Key(q)] = q
        BY <2>1, <3>1, <3>2, <3>3 DEF LockInv, LocksHeld
      <3>7. \A q \in Proc, k \in {"populate", "reindex"} :
              flight'[k] = q => pc'[q] \in Leading /\ Key(q) = k
        BY <2>1, <3>1, <3>2, <3>3 DEF LockInv, LocksHeld
      <3>8. \A q \in Proc : pc'[q] = "join" => flight'[Key(q)] # None
        BY <2>1, <3>1, <3>2, <3>4 DEF LockInv, LocksHeld
      <3> QED BY <3>1, <3>5, <3>6, <3>7, <3>8 DEF LocksHeld
    <2>5. \A q \in Proc : Fits(pc[q], op[q])'
      BY <2>1, <2>2 DEF LockInv, Fits, Leading
    <2> QED BY <2>1, <2>3, <2>4, <2>5 DEF LockInv
  <1>43. CASE Finish(p)
    <2>1. UNCHANGED <<wlock, flight>> /\ pc[p] = "done" /\ GoTo(p, "idle")
          /\ op' = [op EXCEPT ![p] = None] /\ pack' = [pack EXCEPT ![p] = {}]
      BY <1>43 DEF Finish
    <2>2. \A q \in Proc : /\ pc'[q] = IF q = p THEN "idle" ELSE pc[q]
                         /\ op'[q] = IF q = p THEN None ELSE op[q]
      BY <2>1 DEF LockInv, LockTypes, GoTo
    <2>3. LockTypes'
      BY <2>1 DEF LockInv, LockTypes, GoTo, Stage
    <2>4. LocksHeld'
      <3>1. \A q \in Proc \ {p} : Key(q)' = Key(q)
        BY <2>2 DEF Key
      <3> QED BY <2>1, <2>2, <3>1 DEF LockInv, LocksHeld, Leading, Guarded
    <2>5. \A q \in Proc : Fits(pc[q], op[q])'
      BY <2>2 DEF LockInv, Fits, Leading
    <2>6. None # "fetch"
      BY StorageAssumption DEF Writes
    <2> QED BY <2>1, <2>2, <2>3, <2>4, <2>5, <2>6 DEF LockInv, LockTypes
  <1>44. CASE ListFails(p)
    BY <1>44, <1>2 DEF ListFails, Guarded, Leading
  <1> QED BY <1>3, <1>4, <1>5, <1>6, <1>7, <1>8, <1>9, <1>10, <1>11, <1>12, <1>13, <1>14, <1>15, <1>16, <1>17, <1>18, <1>19, <1>20, <1>21, <1>22, <1>23, <1>24, <1>25, <1>26, <1>27, <1>28, <1>29, <1>30, <1>31, <1>32, <1>33, <1>34, <1>35, <1>36, <1>37, <1>38, <1>39, <1>40, <1>41, <1>42, <1>43, <1>44 DEF Step

\* Locks and singleflight keys belong to goroutines inside their sections.
LEMMA LocksAtInit == Init => LockInv
  <1> SUFFICES ASSUME Init PROVE LockInv
    OBVIOUS
  <1>1. LockTypes
    BY DEF Init, LockTypes, Stage
  <1>2. LocksHeld
    BY StorageAssumption DEF Init, LocksHeld, Leading, Guarded, Key
  <1>3. \A p \in Proc : Fits(pc[p], op[p])
    BY DEF Init, Fits, Leading
  <1>4. None # "fetch"
    BY StorageAssumption DEF Writes
  <1> QED BY <1>1, <1>2, <1>3, <1>4 DEF Init, LockInv

LEMMA LocksAtNext == LockInv /\ [Next]_vars => LockInv'
  <1> SUFFICES ASSUME LockInv, [Next]_vars PROVE LockInv'
    OBVIOUS
  <1>1. ASSUME UNCHANGED <<pc, op, pack, wlock, flight>> PROVE LockInv'
    BY <1>1 DEF LockInv, LockTypes, LocksHeld, Fits, Key
  <1>2. CASE \E k \in Packs : ExternalAdd(k) \/ ExternalRemove(k)
    BY <1>1, <1>2 DEF ExternalAdd, ExternalRemove, locks, locals
  <1>3. CASE UNCHANGED vars
    BY <1>1, <1>3 DEF vars, locks, locals
  <1> QED BY <1>2, <1>3, LocksAtStart, LocksAtStep DEF Next, Quiet

\* LocksAreReleased for any goroutines and calls: muIWriters and the singleflight
\* keys belong to goroutines inside the section they guard.
THEOREM LocksAreGivenBack == Spec => []LocksAreReleased
  <1>1. LockInv => LocksAreReleased
    <2> SUFFICES ASSUME LockInv PROVE LocksAreReleased
      OBVIOUS
    <2>1. DOMAIN flight = {"populate", "reindex"} /\ wlock \in Proc \cup {None}
          /\ \A k \in DOMAIN flight : flight[k] \in Proc \cup {None}
      BY DEF LockInv, LockTypes
    <2>2. wlock # None => pc[wlock] \in Guarded
      BY <2>1 DEF LockInv, LocksHeld
    <2>3. \A k \in DOMAIN flight : flight[k] # None =>
             Key(flight[k]) = k /\ pc[flight[k]] \in Leading
      BY <2>1 DEF LockInv, LocksHeld
    <2>4. \A p \in Proc : pc[p] = "join" => flight[Key(p)] # None
      BY DEF LockInv, LocksHeld
    <2> QED BY <2>2, <2>3, <2>4 DEF LocksAreReleased, Guarded, Leading
  <1> QED BY <1>1, LocksAtInit, LocksAtNext, PTL DEF Spec

-----------------------------------------------------------------------------
(* The index.                                                               *)

Elsewhere(p) == \A q \in Proc \ {p} :
    /\ pc'[q] = pc[q] /\ op'[q] = op[q] /\ snap'[q] = snap[q]
    /\ pack'[q] = pack[q] /\ obj'[q] = obj[q]

\* What a step does to the goroutines that do not take it.
LEMMA LocalElsewhere ==
    ASSUME LockInv, IndexInv, NEW p, Elsewhere(p), IndexTypes', IndexShared',
           p \in Proc => IndexLocal(p)',
           index # None => index' # None, published' \subseteq published \/ wlock = None
    PROVE  IndexInv'
  <1> SUFFICES ASSUME NEW q \in Proc, q # p PROVE IndexLocal(q)'
    BY DEF IndexInv
  <1>1. IndexLocal(q) /\ (pc[q] \in Guarded => wlock = q) /\ q # None
    BY StorageAssumption DEF IndexInv, LockInv, LocksHeld
  <1>2. pc[q] \in {"load", "publish"} => published' \subseteq published
    BY <1>1 DEF Guarded
  <1> QED BY <1>1, <1>2 DEF IndexLocal, Elsewhere

\* p goes to stage s with the snapshot and the pack it has.
Continues(p, s) ==
    /\ s \in {"load", "publish"} => pc[p] \in {"load", "publish"}
    /\ AfterRequire(op[p], s) => index # None
    /\ s \in PackStages => pack[p] \in Pack

LEMMA PlainLocal ==
    ASSUME LockInv, IndexInv, NEW p \in Proc, NEW s, GoTo(p, s), Continues(p, s),
           UNCHANGED <<op, obj, pack, snap, todo>>, loose' \subseteq Object, IndexShared',
           index # None => index' # None,
           published' \subseteq published \/ (wlock = None /\ s \notin {"load", "publish"})
    PROVE  IndexInv'
  <1>1. pc'[p] = s /\ Elsewhere(p)
    BY DEF LockInv, LockTypes, GoTo, Elsewhere
  <1>2. IndexTypes'
    BY DEF IndexInv, IndexTypes
  <1>3. IndexLocal(p)'
    BY <1>1 DEF IndexInv, IndexLocal, Continues
  <1> QED BY <1>1, <1>2, <1>3, LocalElsewhere

\* Where a call goes on.
LEMMA ContinuesOnward ==
    ASSUME LockInv, IndexInv, NEW p \in Proc
    PROVE  /\ pc[p] = "index" /\ index # None => Continues(p, AfterIndex(p))
           /\ pc[p] = "index" => Continues(p, "join") /\ Continues(p, "recheck")
           /\ pc[p] = "recheck" => Continues(p, "lock")
           /\ pc[p] = "lock" => Continues(p, "scan")
           /\ pc[p] = "load" => Continues(p, "publish")
           /\ pc[p] = "probe" => Continues(p, "loose")
           /\ pc[p] = "route" => Continues(p, "open")
           /\ pc[p] = "open" => Continues(p, "read")
           /\ pc[p] = "read" => Continues(p, "install")
           /\ pc[p] = "loose" => Continues(p, "index") /\ Continues(p, "alternates")
           /\ pc[p] = "saveObject" => Continues(p, "setRef")
           /\ pc[p] = "newPack" => Continues(p, "savePack")
           /\ pc[p] = "savePack" => Continues(p, "prune")
           /\ pc[p] = "savePack" /\ pack[p] # {} => Continues(p, "notify")
           /\ pc[p] = "notify" => Continues(p, "setRef") /\ Continues(p, "prune")
           /\ pc[p] = "prune" => Continues(p, "deleteNext")
           /\ pc[p] = "delete" => Continues(p, "unlink")
           /\ pc[p] = "unlink" => Continues(p, "drop")
           /\ pc[p] = "drop" => Continues(p, "deleteNext")
           /\ pc[p] \in {"install", "installIdx"} => Continues(p, "nextPack")
           /\ pc[p] = "install" => Continues(p, "installIdx")
           /\ Continues(p, "done")
  <1>1. Fits(pc[p], op[p]) /\ IndexLocal(p)
    BY DEF LockInv, IndexInv
  <1>2. pc[p] = "index" /\ index # None => Continues(p, AfterIndex(p))
    BY IndexStages DEF Continues, PackStages
  <1>3. pack[p] # {} => pack[p] \in Pack
    BY DEF IndexInv, IndexTypes, Pack
  <1> QED
    BY <1>1, <1>2, <1>3
    DEF Continues, Fits, IndexLocal, AfterRequire, PackStages, Leading, Lookups, Writes

\* The listing of packs is made, or the cached one is used.
LEMMA SharedListed ==
    ASSUME IndexShared, GenPackList, UNCHANGED <<exclusive, files, index, packs, published>>
    PROVE  IndexShared' /\ Catalog \in SUBSET Pack
  <1>1. Catalog \subseteq Pack /\ files \subseteq Pack /\ exclusive \in BOOLEAN
    BY DEF IndexShared, Catalog
  <1>2. Catalog # None
    BY <1>1, StorageAssumption
  <1>3. packList' = None \/ packList' \subseteq Pack
    BY <1>1 DEF GenPackList, IndexShared
  <1>4. Catalog' = Catalog
    BY <1>1, <1>2 DEF GenPackList, Catalog
  <1> QED BY <1>1, <1>3, <1>4 DEF IndexShared

\* The cached listing is dropped.
LEMMA SharedDropped ==
    ASSUME IndexShared, packList' = None,
           UNCHANGED <<exclusive, files, index, packs, published>>
    PROVE  IndexShared'
  BY DEF IndexShared, Catalog

\* A pack comes.
LEMMA SharedAdded ==
    ASSUME IndexShared, NEW S \in SUBSET Pack, files' = files \cup S,
           UNCHANGED <<exclusive, packList, index, packs, published>>
    PROVE  IndexShared'
  BY DEF IndexShared, Catalog

\* Packs go.
LEMMA SharedRemoved ==
    ASSUME IndexShared, NEW S, files' = files \ S, published' = published \ S,
           UNCHANGED <<exclusive, packList, index, packs>>
    PROVE  IndexShared'
  BY DEF IndexShared, Catalog

\* A pack gets an entry.
LEMMA SharedEntry ==
    ASSUME IndexShared, index # None, NEW k \in Pack, AddEntry(k),
           published' \subseteq published \cup ({k} \cap files \cap Catalog),
           UNCHANGED <<exclusive, files, packList>>
    PROVE  IndexShared' /\ index' # None
  <1>1. index \subseteq Pack /\ Lists(packs, index)
    BY DEF IndexShared
  <1>2. index' = index \cup {k} /\ packs' = IF k \in index THEN packs ELSE Append(packs, k)
    BY DEF AddEntry
  <1>3. Lists(packs', index')
    <2>1. CASE k \in index
      <3>1. index' = index /\ packs' = packs
        BY <1>2, <2>1
      <3> QED BY <1>1, <3>1
    <2>2. CASE k \notin index
      BY <1>1, <1>2, <2>2, AppendLists
    <2> QED BY <2>1, <2>2
  <1>4. index' \subseteq Pack
    BY <1>1, <1>2
  <1>5. index' # None
    BY <1>4, StorageAssumption
  <1>6. Catalog' = Catalog
    BY DEF Catalog
  <1>7. published' \subseteq files' \cap Catalog' /\ published' \subseteq index'
    BY <1>2, <1>6 DEF IndexShared
  <1> QED BY <1>3, <1>4, <1>5, <1>7 DEF IndexShared

\* The leader and those who wait leave with the index, or without it.
LEMMA LocalEnds ==
    ASSUME LockInv, IndexInv, NEW p \in Proc, NEW ok, NEW stale, EndFlight(p, ok, stale),
           pc[p] \in Leading, UNCHANGED <<op, obj, pack, snap, todo, loose, published>>,
           IndexShared', index # None => index' # None, ok => index' # None
    PROVE  IndexInv'
  <1> DEFINE told == {q \in Proc : q = p \/ (pc[q] = "join" /\ Key(q) = Key(p))}
             after(q) == IF ok THEN AfterIndex(q) ELSE AfterIndexError(q)
  <1>1. pc' = [q \in Proc |-> IF q \in told THEN after(q) ELSE pc[q]]
    BY DEF EndFlight
  <1>2. \A q \in told : /\ after(q) \in {"snapshot", "newPack", "list", "done", "loose"}
                        /\ ~ok => after(q) \in {"loose", "done"} /\ Fits(after(q), op[q])
    BY IndexStages
  <1> HIDE DEF after
  <1>3. IndexTypes'
    BY DEF IndexInv, IndexTypes
  <1>4. ASSUME NEW q \in Proc PROVE IndexLocal(q)'
    <2>1. IndexLocal(q)
      BY DEF IndexInv
    <2>2. CASE q \notin told
      BY <1>1, <2>1, <2>2 DEF IndexLocal
    <2>3. CASE q \in told
      <3>1. pc'[q] = after(q)
        BY <1>1, <2>3
      <3>2. pc'[q] \notin PackStages \cup {"load", "publish"}
        BY <1>2, <2>3, <3>1 DEF PackStages
      <3>3. AfterRequire(op[q], pc'[q]) => index' # None
        BY <1>2, <2>3, <3>1 DEF AfterRequire, Fits, Leading, Writes, Lookups
      <3> QED BY <2>1, <3>2, <3>3 DEF IndexLocal
    <2> QED BY <2>2, <2>3
  <1> QED BY <1>3, <1>4 DEF IndexInv

LEMMA NoPacks == Lists(<<>>, {}) /\ Range(<<>>) = {}
  BY DEF Lists, Range, IsInjective

LEMMA OnePack == ASSUME NEW k \in Pack PROVE Lists(<<k>>, {k}) /\ Last(<<k>>) = k
  BY DEF Lists, Range, IsInjective, Last

\* A call starts.
LEMMA CallLocal ==
    ASSUME LockInv, IndexInv, NEW p \in Proc, NEW o, NEW s, Call(p, o, s),
           s \in {"loose", "index", "saveObject", "walk", "resetAlts"},
           ~ AfterRequire(o, s),
           UNCHANGED <<snap, index, published, loose>>, IndexTypes', IndexShared',
           \A q \in Proc \ {p} : pack'[q] = pack[q] /\ obj'[q] = obj[q],
           o \in Lookups \cup {"commit"} => obj'[p] \in Object
    PROVE  IndexInv'
  <1>1. pc'[p] = s /\ op'[p] = o /\ Elsewhere(p)
    BY DEF LockInv, LockTypes, Call, GoTo, Elsewhere
  <1>2. IndexLocal(p)'
    BY <1>1 DEF IndexInv, IndexLocal, PackStages
  <1> QED BY <1>1, <1>2, LocalElsewhere

LEMMA IndexAtStart ==
    ASSUME LockInv, IndexInv, NEW p \in Proc, Start(p)
    PROVE  IndexInv'
  <1> USE DEF locals, locks, disk, memory, caches, history
  <1>1. IndexTypes /\ IndexShared
    BY DEF IndexInv
  <1>2. ASSUME UNCHANGED <<exclusive, files, packList, index, packs, published>>
        PROVE  IndexShared'
    BY <1>1, <1>2 DEF IndexShared, Catalog
  <1>3. \A o : ~ AfterRequire(o, "index") /\ ~ AfterRequire(o, "walk")
    BY DEF AfterRequire
  <1>4. CASE \E o \in Lookups, x \in Object : Lookup(p, o, x)
    <2>1. PICK o \in Lookups, x \in Object : Lookup(p, o, x)
      BY <1>4
    <2>2. Call(p, o, IF o = "delta" THEN "loose" ELSE "index") /\ obj' = [obj EXCEPT ![p] = x]
          /\ UNCHANGED <<snap, todo, pack, loose, exclusive, files, packList, index, packs, published>>
      BY <2>1 DEF Lookup
    <2>3. ~ AfterRequire(o, "loose")
      BY DEF AfterRequire, Lookups, Writes
    <2>4. IndexTypes' /\ obj'[p] = x /\ \A q \in Proc \ {p} : obj'[q] = obj[q]
      BY <1>1, <2>2 DEF IndexTypes
    <2> QED BY <1>2, <1>3, <2>2, <2>3, <2>4, CallLocal
  <1>5. CASE \E x \in Object : Commit(p, x)
    <2>1. PICK x \in Object : Commit(p, x)
      BY <1>5
    <2>2. Call(p, "commit", "saveObject") /\ obj' = [obj EXCEPT ![p] = x]
          /\ UNCHANGED <<snap, todo, pack, loose, exclusive, files, packList, index, packs, published>>
      BY <2>1 DEF Commit
    <2>3. ~ AfterRequire("commit", "saveObject")
      BY DEF AfterRequire, Writes
    <2>4. IndexTypes' /\ obj'[p] = x /\ \A q \in Proc \ {p} : obj'[q] = obj[q]
      BY <1>1, <2>2 DEF IndexTypes
    <2> QED BY <1>2, <2>2, <2>3, <2>4, CallLocal
  <1>6. CASE \E k \in Packs : Fetch(p, k)
    <2>1. PICK k \in Packs : Fetch(p, k)
      BY <1>6
    <2>2. Call(p, "fetch", "index") /\ pack' = [pack EXCEPT ![p] = k]
          /\ UNCHANGED <<snap, todo, obj, loose, exclusive, files, packList, index, packs, published>>
      BY <2>1 DEF Fetch
    <2>3. k \in SUBSET Object
      <3>1. k \in Pack
        BY StorageAssumption
      <3> QED BY <3>1 DEF Pack
    <2>4. IndexTypes' /\ \A q \in Proc \ {p} : pack'[q] = pack[q]
      BY <1>1, <2>2, <2>3 DEF IndexTypes
    <2>5. "fetch" \notin Lookups \cup {"commit"}
      BY DEF Lookups
    <2> QED BY <1>2, <1>3, <2>2, <2>4, <2>5, CallLocal
  <1>7. CASE Reindex(p)
    <2>1. Call(p, "reindex", "index")
          /\ UNCHANGED <<snap, todo, obj, pack, loose, exclusive, files, packList, index, packs, published>>
      BY <1>7 DEF Reindex
    <2>2. IndexTypes'
      BY <1>1, <2>1 DEF IndexTypes
    <2>3. "reindex" \notin Lookups \cup {"commit"} /\ ~ AfterRequire("reindex", "index")
      BY DEF Lookups, Writes, AfterRequire
    <2> QED BY <1>2, <2>1, <2>2, <2>3, CallLocal
  <1>8. CASE Iterate(p)
    <2>1. Call(p, "iter", "index")
          /\ UNCHANGED <<snap, todo, obj, pack, loose, exclusive, files, packList, index, packs, published>>
      BY <1>8 DEF Iterate
    <2>2. IndexTypes'
      BY <1>1, <2>1 DEF IndexTypes
    <2>3. "iter" \notin Lookups \cup {"commit"} /\ ~ AfterRequire("iter", "index")
      BY DEF Lookups, Writes, AfterRequire
    <2> QED BY <1>2, <2>1, <2>2, <2>3, CallLocal
  <1>9. CASE AddAlternate(p)
    <2>1. Call(p, "addalt", "resetAlts")
          /\ UNCHANGED <<snap, todo, obj, pack, loose, exclusive, files, packList, index, packs, published>>
      BY <1>9 DEF AddAlternate
    <2>2. IndexTypes'
      BY <1>1, <2>1 DEF IndexTypes
    <2>3. "addalt" \notin Lookups \cup {"commit"} /\ ~ AfterRequire("addalt", "resetAlts")
      BY DEF Lookups, Writes, AfterRequire
    <2> QED BY <1>2, <2>1, <2>2, <2>3, CallLocal
  <1>10. CASE Repack(p)
    <2>1. Call(p, "repack", "walk") /\ todo' = [todo EXCEPT ![p] = Catalog] /\ GenPackList
          /\ UNCHANGED <<snap, obj, pack, loose, exclusive, files, index, packs, published>>
      BY <1>10 DEF Repack
    <2>2. IndexShared' /\ Catalog \in SUBSET Pack
      BY <1>1, <2>1, SharedListed
    <2>3. IndexTypes'
      BY <1>1, <2>1, <2>2 DEF IndexTypes
    <2>4. "repack" \notin Lookups \cup {"commit"}
      BY DEF Lookups
    <2> QED BY <1>3, <2>1, <2>2, <2>3, <2>4, CallLocal
  <1> QED BY <1>4, <1>5, <1>6, <1>7, <1>8, <1>9, <1>10 DEF Start

\* A goroutine takes a step of its call.
LEMMA IndexAtStep ==
    ASSUME LockInv, IndexInv, NEW p \in Proc, Step(p)
    PROVE  IndexInv'
  <1> USE DEF locals, locks, disk, memory, caches, history
  <1>1. IndexTypes /\ IndexShared /\ IndexLocal(p) /\ loose \subseteq Object
    BY DEF IndexInv, IndexTypes
  <1>2. ASSUME UNCHANGED <<exclusive, files, packList, index, packs, published>>
        PROVE  IndexShared'
    BY <1>1, <1>2 DEF IndexShared, Catalog
  <1>3. ASSUME NEW s, GoTo(p, s), Continues(p, s), UNCHANGED <<op, obj, pack, snap, todo>>,
               loose' \subseteq Object,
               UNCHANGED <<exclusive, files, packList, index, packs, published>>
        PROVE  IndexInv'
    BY <1>2, <1>3, PlainLocal
  <1>4. ASSUME NEW r, Return(p, r), UNCHANGED <<op, obj, pack, snap, todo>>, UNCHANGED loose,
               UNCHANGED <<exclusive, files, packList, index, packs, published>>
        PROVE  IndexInv'
    BY <1>1, <1>3, <1>4, ContinuesOnward DEF Return
  <1>5. CASE IndexReady(p)
    BY <1>5, <1>1, <1>3, ContinuesOnward DEF IndexReady
  <1>6. CASE Join(p)
    BY <1>6, <1>1, <1>3, ContinuesOnward DEF Join
  <1>7. CASE Lead(p)
    BY <1>7, <1>1, <1>3, ContinuesOnward DEF Lead
  <1>8. CASE LockWriters(p)
    BY <1>8, <1>1, <1>3, ContinuesOnward DEF LockWriters
  <1>9. CASE LoadIndexes(p)
    BY <1>9, <1>1, <1>3, ContinuesOnward DEF LoadIndexes
  <1>10. CASE TooNew(p)
    BY <1>10, <1>1, <1>3, ContinuesOnward DEF TooNew
  <1>11. CASE InstallKnown(p)
    BY <1>11, <1>1, <1>3, ContinuesOnward DEF InstallKnown
  <1>12. CASE InstallLock(p)
    BY <1>12, <1>1, <1>3, ContinuesOnward DEF InstallLock
  <1>13. CASE ResetAlternates(p)
    BY <1>13, <1>4 DEF ResetAlternates
  <1>14. CASE CacheHit(p)
    BY <1>14, <1>4 DEF CacheHit
  <1>15. CASE LooseHit(p)
    BY <1>15, <1>4 DEF LooseHit
  <1>16. CASE SetReference(p)
    BY <1>16, <1>4 DEF SetReference
  <1>17. CASE SaveFails(p)
    BY <1>17, <1>4 DEF SaveFails
  <1>18. CASE DeleteDone(p)
    BY <1>18, <1>4 DEF DeleteDone
  <1>19. CASE ProbeMiss(p)
    BY <1>19, <1>1, <1>3, <1>4, ContinuesOnward DEF ProbeMiss
  <1>20. CASE OpenPack(p)
    BY <1>20, <1>1, <1>3, <1>4, ContinuesOnward DEF OpenPack
  <1>21. CASE ReadPack(p)
    BY <1>21, <1>1, <1>3, <1>4, ContinuesOnward DEF ReadPack
  <1>22. CASE FindInAlternates(p)
    <2>1. /\ UNCHANGED <<op, obj, pack, snap, todo, loose>> /\ \E r : Return(p, r)
          /\ UNCHANGED <<exclusive, files, packList, index, packs, published>>
      BY <1>22 DEF FindInAlternates
    <2> QED BY <1>4, <2>1
  <1>23. CASE LooseMiss(p)
    <2>1. /\ UNCHANGED <<op, obj, pack, snap, todo, loose>> /\ pc[p] = "loose"
          /\ UNCHANGED <<exclusive, files, packList, index, packs, published>>
      BY <1>23 DEF LooseMiss
    <2>2. (\E r : Return(p, r)) \/ GoTo(p, "alternates") \/ GoTo(p, "index")
      <3>1. CASE op[p] = "delta"
        BY <1>23, <3>1 DEF LooseMiss
      <3>2. CASE op[p] # "delta"
        BY <1>23, <3>2 DEF LooseMiss
      <3> QED BY <3>1, <3>2
    <2> QED BY <1>1, <1>3, <1>4, <2>1, <2>2, ContinuesOnward
  <1>24. CASE GetHandle(p)
    <2>1. /\ UNCHANGED <<op, obj, pack, snap, todo, loose, exclusive, files, index, packs, published>>
          /\ pc[p] = "route" /\ (GoTo(p, "open") \/ GoTo(p, "done"))
          /\ UNCHANGED packList \/ GenPackList
      BY <1>24 DEF GetHandle, Return
    <2>2. IndexShared'
      BY <1>1, <1>2, <2>1, SharedListed
    <2> QED BY <1>1, <2>1, <2>2, ContinuesOnward, PlainLocal
  <1>25. CASE SaveObject(p)
    <2>1. obj[p] \in Object
      BY <1>25, <1>1 DEF SaveObject, LockInv, Fits, IndexLocal
    <2>2. GoTo(p, "setRef") /\ Continues(p, "setRef") /\ loose' = loose \cup {obj[p]}
          /\ UNCHANGED <<op, obj, pack, snap, todo, exclusive, files, packList, index, packs, published>>
      BY <1>25, ContinuesOnward DEF SaveObject
    <2> QED BY <1>1, <1>3, <2>1, <2>2
  <1>26. CASE PruneLoose(p)
    BY <1>26, <1>1, <1>3, ContinuesOnward DEF PruneLoose
  <1>27. CASE WalkAllRefs(p)
    <2>1. /\ UNCHANGED <<op, obj, snap, todo, loose, exclusive, files, packList, index, packs, published>>
          /\ pc[p] = "walk" /\ GoTo(p, "index")
          /\ pack' = [pack EXCEPT ![p] = needed \cap Stored]
      BY <1>27 DEF WalkAllRefs
    <2>2. needed \cap Stored \in SUBSET Object
      BY <1>1 DEF Stored, IndexShared, Pack
    <2>3. IndexTypes' /\ IndexShared'
      BY <1>1, <1>2, <2>1, <2>2 DEF IndexTypes
    <2>4. pc'[p] = "index" /\ Elsewhere(p)
      BY <1>1, <2>1 DEF LockInv, LockTypes, GoTo, Elsewhere, IndexTypes
    <2>5. IndexLocal(p)'
      BY <1>1, <2>1, <2>4 DEF IndexLocal, AfterRequire, PackStages
    <2> QED BY <2>1, <2>3, <2>4, <2>5, LocalElsewhere
  <1>28. CASE NewObjectPack(p)
    <2>1. /\ UNCHANGED <<op, obj, pack, snap, todo, loose, exclusive, files, index, packs, published>>
          /\ pc[p] = "newPack" /\ GoTo(p, "savePack") /\ packList' = None
      BY <1>28 DEF NewObjectPack, CleanPackList
    <2>2. IndexShared'
      BY <1>1, <2>1, SharedDropped
    <2> QED BY <1>1, <2>1, <2>2, ContinuesOnward, PlainLocal
  <1>29. CASE DeletePack(p)
    <2>1. /\ UNCHANGED <<op, obj, pack, snap, todo, loose, exclusive, files, index, packs, published>>
          /\ pc[p] = "delete" /\ GoTo(p, "unlink") /\ packList' = None
      BY <1>29 DEF DeletePack, CleanPackList
    <2>2. IndexShared'
      BY <1>1, <2>1, SharedDropped
    <2> QED BY <1>1, <2>1, <2>2, ContinuesOnward, PlainLocal
  <1>30. CASE SavePack(p)
    <2>1. /\ UNCHANGED <<op, obj, pack, snap, todo, loose, exclusive, packList, index, packs, published>>
          /\ pc[p] = "savePack" /\ files' = files \cup ({pack[p]} \ {{}})
          /\ GoTo(p, IF pack[p] # {} THEN "notify" ELSE "prune")
      BY <1>30 DEF SavePack
    <2>2. {pack[p]} \ {{}} \in SUBSET Pack
      BY <1>1 DEF IndexTypes, Pack
    <2>3. IndexShared'
      BY <1>1, <2>1, <2>2, SharedAdded
    <2> QED BY <1>1, <2>1, <2>3, ContinuesOnward, PlainLocal
  <1>31. CASE Notify(p)
    <2>1. /\ UNCHANGED <<op, obj, pack, snap, todo, loose, exclusive, files, packList>>
          /\ pc[p] = "notify" /\ wlock = None /\ AddEntry(pack[p])
          /\ published' = published \cup ({pack[p]} \cap files \cap Catalog)
          /\ GoTo(p, "setRef") \/ GoTo(p, "prune")
      BY <1>31 DEF Notify
    <2>2. index # None /\ pack[p] \in Pack
      BY <1>1, <2>1 DEF IndexLocal, AfterRequire, PackStages, LockInv, Fits, Leading
    <2>3. IndexShared' /\ index' # None
      BY <1>1, <2>1, <2>2, SharedEntry
    <2> QED BY <1>1, <2>1, <2>3, ContinuesOnward, PlainLocal
  <1>32. CASE InstallIdx(p)
    <2>1. /\ UNCHANGED <<op, obj, pack, snap, todo, loose, exclusive, files, packList, published>>
          /\ pc[p] = "installIdx"
      BY <1>32 DEF InstallIdx
    <2>2. index # None /\ pack[p] \in Pack
      BY <1>1, <2>1 DEF IndexLocal, AfterRequire, PackStages, LockInv, Fits, Leading
    <2>3. CASE AddEntry(pack[p]) /\ GoTo(p, "nextPack")
      <3>1. IndexShared' /\ index' # None
        BY <1>1, <2>1, <2>2, <2>3, SharedEntry
      <3> QED BY <1>1, <2>1, <2>3, <3>1, ContinuesOnward, PlainLocal
    <2>4. CASE Return(p, "error") /\ UNCHANGED <<index, packs>>
      BY <1>4, <2>1, <2>4
    <2> QED BY <1>32, <2>3, <2>4 DEF InstallIdx
  <1>33. CASE Unlink(p)
    <2>1. /\ UNCHANGED <<op, obj, pack, snap, todo, loose, exclusive, packList, index, packs>>
          /\ pc[p] = "unlink" /\ GoTo(p, "drop")
          /\ files' = files \ {Victim(p)} /\ published' = published \ {Victim(p)}
      BY <1>33 DEF Unlink
    <2>2. IndexShared'
      BY <1>1, <2>1, SharedRemoved
    <2> QED BY <1>1, <2>1, <2>2, ContinuesOnward, PlainLocal
  <1>34. CASE UnlinkFails(p)
    <2>1. /\ UNCHANGED <<op, obj, pack, snap, todo, loose, exclusive, packList, index, packs>>
          /\ GoTo(p, "done")
          /\ \E gone : files' = files \ gone /\ published' = published \ gone
      BY <1>34 DEF UnlinkFails, Return
    <2>2. IndexShared' /\ published' \subseteq published
      BY <1>1, <2>1, SharedRemoved
    <2> QED BY <1>1, <2>1, <2>2, ContinuesOnward, PlainLocal
  <1>35. CASE DropEntry(p)
    <2>1. /\ UNCHANGED <<op, obj, pack, snap, todo, loose, exclusive, files, published>>
          /\ pc[p] = "drop" /\ GoTo(p, "deleteNext") /\ GenPackList
      BY <1>35 DEF DropEntry
    <2>2. CASE UNCHANGED <<index, packs>>
      <3>1. IndexShared'
        BY <1>1, <2>1, <2>2, SharedListed
      <3> QED BY <1>1, <2>1, <2>2, <3>1, ContinuesOnward, PlainLocal
    <2>3. CASE /\ Victim(p) \notin Catalog /\ Victim(p) \in index
               /\ index' = index \ {Victim(p)} /\ packs' = RemoveFirst(packs, Victim(p))
      <3>1. index # None
        BY <1>1, <2>1 DEF IndexLocal, AfterRequire, LockInv, Fits, Leading, Writes
      <3>2. index \subseteq Pack /\ Lists(packs, index)
        BY <1>1, <3>1 DEF IndexShared
      <3>3. Lists(packs', index')
        BY <2>3, <3>2, RemoveLists
      <3>4. index' \subseteq Pack /\ index' # None
        <4>1. index' \in SUBSET Pack
          BY <2>3, <3>2
        <4> QED BY <4>1, StorageAssumption
      <3>5. Catalog' = Catalog /\ (packList' = None \/ packList' \subseteq Pack)
        <4>1. Catalog \in SUBSET Pack
          BY <1>1 DEF IndexShared, Catalog
        <4>2. Catalog # None
          BY <4>1, StorageAssumption
        <4> QED BY <1>1, <2>1, <4>1, <4>2 DEF GenPackList, Catalog, IndexShared
      <3>6. published' \subseteq files' \cap Catalog' /\ published' \subseteq index'
        BY <1>1, <2>1, <2>3, <3>1, <3>5 DEF IndexShared
      <3>7. IndexShared'
        BY <1>1, <2>1, <3>3, <3>4, <3>5, <3>6 DEF IndexShared
      <3> QED BY <1>1, <2>1, <3>4, <3>7, ContinuesOnward, PlainLocal
    <2> QED BY <1>35, <2>2, <2>3 DEF DropEntry
  <1>36. CASE Recheck(p)
    <2>1. /\ UNCHANGED <<op, obj, pack, snap, todo, loose, exclusive, files, packList, index, packs, published>>
          /\ pc[p] = "recheck"
      BY <1>36 DEF Recheck
    <2>2. CASE GoTo(p, "lock")
      BY <1>1, <1>3, <2>1, <2>2, ContinuesOnward
    <2>3. CASE EndFlight(p, TRUE, {}) /\ index # None
      <3>1. pc[p] \in Leading
        BY <2>1 DEF Leading
      <3> QED BY <1>2, <2>1, <2>3, <3>1, LocalEnds
    <2> QED BY <1>36, <2>2, <2>3 DEF Recheck
  <1>37. CASE LoadFails(p)
    <2>1. /\ UNCHANGED <<op, obj, pack, snap, todo, loose, exclusive, files, packList, index, packs, published>>
          /\ pc[p] \in Leading /\ EndFlight(p, FALSE, {})
      BY <1>37 DEF LoadFails, Leading
    <2> QED BY <1>2, <2>1, LocalEnds
  <1>38. CASE Publish(p)
    <2> DEFINE stale == Range(snap[p]) \ (files \cap Catalog)
    <2>1. /\ UNCHANGED <<op, obj, pack, snap, todo, loose, exclusive, files, packList, published>>
          /\ pc[p] \in Leading /\ pc[p] = "publish" /\ EndFlight(p, TRUE, stale)
      BY <1>38 DEF Publish, Leading
    <2> HIDE DEF stale
    <2>2. CASE index # None /\ UNCHANGED <<index, packs>>
      BY <1>2, <2>1, <2>2, LocalEnds
    <2>3. CASE index' = Range(snap[p]) /\ packs' = snap[p]
      <3>1. Lists(packs', index') /\ published' \subseteq index'
        BY <1>1, <2>1, <2>3 DEF IndexLocal
      <3>2. index' \in SUBSET Pack
        <4>1. snap[p] \in Seq(Pack)
          BY <1>1 DEF IndexTypes
        <4> QED BY <2>3, <4>1, ElementOfSeq, LenProperties DEF Range
      <3>3. index' # None
        BY <3>2, StorageAssumption
      <3>4. Catalog' = Catalog
        BY <2>1 DEF Catalog
      <3>5. IndexShared'
        BY <1>1, <2>1, <3>1, <3>2, <3>3, <3>4 DEF IndexShared
      <3> QED BY <2>1, <3>3, <3>5, LocalEnds
    <2> QED BY <1>38, <2>2, <2>3 DEF Publish
  <1>39. CASE ScanPacks(p)
    <2>1. /\ UNCHANGED <<op, obj, pack, todo, loose, exclusive, files, index, packs, published>>
          /\ pc[p] = "scan" /\ GoTo(p, "load") /\ GenPackList
          /\ snap' = [snap EXCEPT ![p] = SetToSeq(Catalog)]
      BY <1>39 DEF ScanPacks
    <2>2. IndexShared' /\ Catalog \in SUBSET Pack
      BY <1>1, <2>1, SharedListed
    <2> DEFINE t == SetToSeq(Catalog)
    <2>3. Lists(t, Catalog) /\ Range(t) = Catalog /\ t \in Seq(Pack)
      BY <2>2, ListingLists DEF Lists
    <2>4. snap' = [snap EXCEPT ![p] = t]
      BY <2>1
    <2> HIDE DEF t
    <2>5. IndexTypes' /\ snap'[p] = t
      BY <1>1, <2>1, <2>3, <2>4 DEF IndexTypes
    <2>6. pc'[p] = "load" /\ Elsewhere(p)
      BY <1>1, <2>1, <2>4 DEF LockInv, LockTypes, GoTo, Elsewhere, IndexTypes
    <2>7. published \subseteq Catalog
      BY <1>1 DEF IndexShared
    <2>8. IndexLocal(p)'
      BY <1>1, <2>1, <2>3, <2>5, <2>6, <2>7 DEF IndexLocal, AfterRequire, PackStages, Leading
    <2> QED BY <2>1, <2>2, <2>5, <2>6, <2>8, LocalElsewhere
  <1>40. CASE Snapshot(p)
    <2>1. /\ UNCHANGED <<op, obj, pack, todo, loose, exclusive, files, packList, index, packs, published>>
          /\ pc[p] = "snapshot" /\ GoTo(p, "probe") /\ snap' = [snap EXCEPT ![p] = packs]
      BY <1>40 DEF Snapshot
    <2>2. index # None
      BY <1>1, <2>1 DEF IndexLocal, AfterRequire
    <2>3. Lists(packs, index) /\ Range(packs) = index /\ packs \in Seq(Pack)
      BY <1>1, <2>2 DEF IndexShared, Lists
    <2>4. IndexTypes' /\ snap'[p] = packs /\ IndexShared'
      BY <1>1, <1>2, <2>1, <2>3 DEF IndexTypes
    <2>5. pc'[p] = "probe" /\ Elsewhere(p)
      BY <1>1, <2>1 DEF LockInv, LockTypes, GoTo, Elsewhere, IndexTypes
    <2>6. IndexLocal(p)'
      BY <1>1, <2>1, <2>2, <2>3, <2>4, <2>5 DEF IndexLocal, PackStages
    <2> QED BY <2>1, <2>4, <2>5, <2>6, LocalElsewhere
  <1>41. CASE ProbeHit(p)
    <2>1. PICK answers \in SUBSET (Range(snap[p]) \ files) :
             LET hits == Hits(p, answers)
                 hit  == IF hint \in hits THEN hint ELSE Min(hits)
             IN  /\ hits # {} /\ pack' = [pack EXCEPT ![p] = snap[p][hit]]
                 /\ IF op[p] = "has" THEN Return(p, "found") ELSE GoTo(p, "route")
      BY <1>41 DEF ProbeHit
    <2> DEFINE hits == Hits(p, answers)
               hit  == IF hint \in hits THEN hint ELSE Min(hits)
               k == snap[p][hit]
    <2>2. /\ hits # {} /\ pack' = [pack EXCEPT ![p] = k] /\ pc[p] = "probe"
          /\ GoTo(p, "done") \/ GoTo(p, "route")
          /\ UNCHANGED <<op, obj, snap, todo, loose, exclusive, files, packList, index, packs, published>>
      BY <2>1, <1>41 DEF ProbeHit, Return
    <2>3. snap[p] \in Seq(Pack) /\ DOMAIN snap[p] = 1..Len(snap[p]) /\ Len(snap[p]) \in Nat
      <3>1. snap[p] \in Seq(Pack)
        BY <1>1 DEF IndexTypes
      <3> QED BY <3>1, LenProperties
    <2>4. hits \in SUBSET Nat /\ hits \subseteq DOMAIN snap[p]
      BY <2>3 DEF Hits
    <2>5. hit \in hits
      BY <2>2, <2>4, LeastNatural
    <2>6. k \in Pack
      <3> HIDE DEF hit, hits
      <3>1. hit \in 1..Len(snap[p])
        BY <2>3, <2>4, <2>5
      <3> QED BY <2>3, <3>1, ElementOfSeq
    <2> HIDE DEF k
    <2>7. IndexTypes' /\ pack'[p] = k /\ IndexShared'
      BY <1>1, <1>2, <2>2, <2>6 DEF IndexTypes, Pack
    <2>8. pc'[p] \in {"done", "route"} /\ Elsewhere(p)
      BY <1>1, <2>2 DEF LockInv, LockTypes, GoTo, Elsewhere, IndexTypes
    <2>9. op[p] \notin Writes \cup {"iter"}
      BY <2>2 DEF LockInv, Fits, Lookups, Writes
    <2>10. IndexLocal(p)'
      BY <1>1, <2>2, <2>6, <2>7, <2>8, <2>9 DEF IndexLocal, AfterRequire
    <2> QED BY <2>2, <2>7, <2>8, <2>10, LocalElsewhere
  <1>42. CASE LockDelete(p)
    <2>1. PICK k \in todo[p] : snap' = [snap EXCEPT ![p] = <<k>>]
                                /\ todo' = [todo EXCEPT ![p] = @ \ {k}]
      BY <1>42 DEF LockDelete
    <2>2. /\ UNCHANGED <<op, obj, pack, loose, exclusive, files, packList, index, packs, published>>
          /\ pc[p] = "deleteNext" /\ GoTo(p, "delete")
      BY <1>42 DEF LockDelete
    <2>3. k \in Pack
      BY <1>1 DEF IndexTypes
    <2>4. Lists(<<k>>, {k}) /\ Range(<<k>>) = {k} /\ <<k>> \in Seq(Pack)
      BY <2>3, OnePack DEF Lists
    <2>5. IndexTypes' /\ snap'[p] = <<k>> /\ IndexShared'
      BY <1>1, <1>2, <2>1, <2>2, <2>4 DEF IndexTypes
    <2>6. pc'[p] = "delete" /\ Elsewhere(p)
      BY <1>1, <2>1, <2>2 DEF LockInv, LockTypes, GoTo, Elsewhere, IndexTypes
    <2>7. index # None
      BY <1>1, <2>2 DEF IndexLocal, AfterRequire, LockInv, Fits, Leading, Writes
    <2>8. IndexLocal(p)'
      BY <1>1, <2>2, <2>4, <2>5, <2>6, <2>7 DEF IndexLocal, PackStages
    <2> QED BY <2>2, <2>5, <2>6, <2>8, LocalElsewhere
  <1>43. CASE ListPacks(p)
    <2>1. /\ UNCHANGED <<op, obj, pack, snap, loose, exclusive, files, index, packs, published>>
          /\ pc[p] = "list" /\ GoTo(p, "nextPack") /\ GenPackList
          /\ todo' = [todo EXCEPT ![p] = Catalog]
      BY <1>43 DEF ListPacks
    <2>2. IndexShared' /\ Catalog \in SUBSET Pack
      BY <1>1, <2>1, SharedListed
    <2>3. IndexTypes'
      BY <1>1, <2>1, <2>2 DEF IndexTypes
    <2>4. pc'[p] = "nextPack" /\ Elsewhere(p)
      BY <1>1, <2>1 DEF LockInv, LockTypes, GoTo, Elsewhere
    <2>5. index # None
      BY <1>1, <2>1 DEF IndexLocal, AfterRequire, LockInv, Fits, Leading
    <2>6. IndexLocal(p)'
      BY <1>1, <2>1, <2>4, <2>5 DEF IndexLocal, PackStages
    <2> QED BY <2>1, <2>2, <2>3, <2>4, <2>6, LocalElsewhere
  <1>44. CASE NextPack(p)
    <2>1. /\ UNCHANGED <<op, obj, snap, loose, exclusive, files, packList, index, packs, published>>
          /\ pc[p] = "nextPack"
      BY <1>44 DEF NextPack
    <2>2. CASE Return(p, "ok") /\ UNCHANGED <<pack, todo>>
      BY <1>4, <2>1, <2>2
    <2>3. CASE \E k \in todo[p] : /\ pack' = [pack EXCEPT ![p] = k]
                                  /\ todo' = [todo EXCEPT ![p] = @ \ {k}] /\ GoTo(p, "route")
      <3>1. PICK k \in todo[p] : /\ pack' = [pack EXCEPT ![p] = k]
                                 /\ todo' = [todo EXCEPT ![p] = @ \ {k}] /\ GoTo(p, "route")
        BY <2>3
      <3>2. k \in Pack /\ k \in SUBSET Object
        BY <1>1 DEF IndexTypes, Pack
      <3>3. IndexTypes' /\ pack'[p] = k /\ IndexShared'
        BY <1>1, <1>2, <2>1, <3>1, <3>2 DEF IndexTypes
      <3>4. pc'[p] = "route" /\ Elsewhere(p)
        BY <1>1, <2>1, <3>1 DEF LockInv, LockTypes, GoTo, Elsewhere, IndexTypes
      <3>5. index # None
        BY <1>1, <2>1 DEF IndexLocal, AfterRequire, LockInv, Fits, Leading
      <3>6. IndexLocal(p)'
        BY <1>1, <2>1, <3>2, <3>3, <3>4, <3>5 DEF IndexLocal
      <3> QED BY <2>1, <3>3, <3>4, <3>6, LocalElsewhere
    <2> QED BY <1>44, <2>2, <2>3 DEF NextPack
  <1>45. CASE Finish(p)
    <2>1. /\ UNCHANGED <<loose, exclusive, files, packList, index, packs, published>>
          /\ GoTo(p, "idle") /\ op' = [op EXCEPT ![p] = None] /\ obj' = [obj EXCEPT ![p] = None]
          /\ pack' = [pack EXCEPT ![p] = {}] /\ snap' = [snap EXCEPT ![p] = <<>>]
          /\ todo' = [todo EXCEPT ![p] = {}]
      BY <1>45 DEF Finish
    <2>2. IndexTypes' /\ snap'[p] = <<>> /\ IndexShared'
      BY <1>1, <1>2, <2>1 DEF IndexTypes
    <2>3. pc'[p] = "idle" /\ op'[p] = None /\ Elsewhere(p)
      BY <1>1, <2>1 DEF LockInv, LockTypes, GoTo, Elsewhere, IndexTypes
    <2>4. None \notin Writes \cup {"iter"} \cup Lookups \cup {"commit"}
      BY StorageAssumption DEF Others
    <2>5. IndexLocal(p)'
      BY <2>2, <2>3, <2>4, NoPacks DEF IndexLocal, AfterRequire, PackStages
    <2> QED BY <2>1, <2>2, <2>3, <2>5, LocalElsewhere
  <1>46. CASE ListFails(p)
    BY <1>46, <1>4 DEF ListFails
  <1> QED BY <1>5, <1>6, <1>7, <1>8, <1>9, <1>10, <1>11, <1>12, <1>13, <1>14, <1>15, <1>16, <1>17, <1>18, <1>19, <1>20, <1>21, <1>22, <1>23, <1>24, <1>25, <1>26, <1>27, <1>28, <1>29, <1>30, <1>31, <1>32, <1>33, <1>34, <1>35, <1>36, <1>37, <1>38, <1>39, <1>40, <1>41, <1>42, <1>43, <1>44, <1>45, <1>46 DEF Step

LEMMA IndexAtInit == Init => IndexInv
  <1> SUFFICES ASSUME Init PROVE IndexInv
    OBVIOUS
  <1>1. files \subseteq Pack /\ exclusive \in BOOLEAN /\ loose \subseteq Object
    BY StorageAssumption DEF Init
  <1>2. IndexTypes
    BY <1>1 DEF Init, IndexTypes
  <1>3. IndexShared
    BY <1>1 DEF Init, IndexShared, Catalog
  <1>4. None \notin Writes \cup {"iter"} \cup Lookups \cup {"commit"}
    BY StorageAssumption DEF Others
  <1>5. \A p \in Proc : IndexLocal(p)
    BY <1>4, NoPacks DEF Init, IndexLocal, AfterRequire, PackStages
  <1> QED BY <1>2, <1>3, <1>5 DEF IndexInv

LEMMA IndexAtNext == LockInv /\ IndexInv /\ [Next]_vars => IndexInv'
  <1> SUFFICES ASSUME LockInv, IndexInv, [Next]_vars PROVE IndexInv'
    OBVIOUS
  <1> USE DEF locals, locks, disk, memory, caches, history
  <1>1. ASSUME UNCHANGED <<pc, op, obj, pack, snap, todo, loose>>, IndexShared',
               index' = index, published' \subseteq published
        PROVE  IndexInv'
    <2>1. IndexTypes'
      BY <1>1 DEF IndexInv, IndexTypes
    <2>2. \A p \in Proc : IndexLocal(p)'
      BY <1>1 DEF IndexInv, IndexLocal
    <2> QED BY <1>1, <2>1, <2>2 DEF IndexInv
  <1>2. CASE \E k \in Packs : ExternalAdd(k)
    <2>1. PICK k \in Packs : ExternalAdd(k)
      BY <1>2
    <2>2. {k} \in SUBSET Pack
      BY StorageAssumption
    <2>3. IndexShared'
      BY <2>1, <2>2, SharedAdded DEF ExternalAdd, IndexInv
    <2> QED BY <1>1, <2>1, <2>3 DEF ExternalAdd
  <1>3. CASE \E k \in Packs : ExternalRemove(k)
    <2>1. PICK k \in Packs : ExternalRemove(k)
      BY <1>3
    <2>2. IndexShared'
      BY <2>1, SharedRemoved DEF ExternalRemove, IndexInv
    <2> QED BY <1>1, <2>1, <2>2 DEF ExternalRemove
  <1>4. CASE UNCHANGED vars
    <2>1. IndexShared'
      BY <1>4 DEF vars, IndexInv, IndexShared, Catalog
    <2> QED BY <1>1, <1>4, <2>1 DEF vars
  <1> QED BY <1>2, <1>3, <1>4, IndexAtStart, IndexAtStep DEF Next, Quiet

\* The invariants together.
LEMMA StorageInvariant == Spec => [](LockInv /\ IndexInv)
  BY LocksAtInit, LocksAtNext, IndexAtInit, IndexAtNext, PTL DEF Spec

\* IndexKeepsPacks for any goroutines, packs and calls: neither a rescan nor a
\* deletion takes a published pack out of the loaded index.  Under ExclusiveAccess the
\* calls take turns.
THEOREM RescansKeepPacks == Spec => []IndexKeepsPacks
  <1>1. IndexInv => IndexKeepsPacks
    BY DEF IndexInv, IndexShared, IndexKeepsPacks
  <1> QED BY <1>1, StorageInvariant, PTL

\* IndexMirrorsPacks for any goroutines, packs and calls: the slice the lookups
\* walk holds each pack of the map once.
THEOREM SliceMirrorsMap == Spec => []IndexMirrorsPacks
  <1>1. IndexInv => IndexMirrorsPacks
    <2> SUFFICES ASSUME IndexInv, index # None
                 PROVE  Range(packs) = index /\ Len(packs) = Cardinality(index)
      BY DEF IndexInv, IndexShared, IndexMirrorsPacks
    <2>1. /\ index \subseteq Pack /\ packs \in Seq(Pack) /\ Range(packs) = index
          /\ IsInjective(packs)
      BY DEF IndexInv, IndexShared, Lists
    <2>2. Len(packs) \in Nat /\ DOMAIN packs = 1..Len(packs)
          /\ packs = [i \in 1..Len(packs) |-> packs[i]]
      BY <2>1, LenProperties
    <2>3. packs \in Bijection(1..Len(packs), index)
      BY <2>1, <2>2 DEF Bijection, Injection, Surjection, IsInjective, Range
    <2>4. IsFiniteSet(index)
      BY <2>1, PacksFinite
    <2>5. Cardinality(index) = Len(packs)
      BY <2>2, <2>3, <2>4, FS_CountingElements DEF ExistsBijection
    <2> QED BY <2>1, <2>5
  <1> QED BY <1>1, StorageInvariant, PTL

-----------------------------------------------------------------------------
(* What a lookup finds.                                                     *)

\* The objects of S appear.
Marks(S) == \A q \in Proc : avail'[q] = (avail[q] \/ obj[q] \in S)

LEMMA MarksAppear ==
    ASSUME NEW S, Appear(S) PROVE Marks(S) /\ avail' \in [Proc -> BOOLEAN]
  BY DEF Appear, Marks

LEMMA MarksNone ==
    ASSUME FoundTypes, UNCHANGED avail PROVE Marks({}) /\ avail' \in [Proc -> BOOLEAN]
  BY DEF Marks, FoundTypes

LEMMA SameAround ==
    ASSUME UNCHANGED <<loose, files, altFile, index>> PROVE Around' = Around
  BY DEF Around, Stored, AltObjects

\* What a step does to the goroutines that do not take it.
Witnesses(p, S) == \A q \in Proc \ {p} :
    /\ pc'[q] = pc[q] /\ op'[q] = op[q] /\ snap'[q] = snap[q] /\ obj'[q] = obj[q]
    /\ res'[q] = res[q] /\ avail'[q] = (avail[q] \/ obj[q] \in S)

LEMMA FoundElsewhere ==
    ASSUME FoundInv, NEW p, NEW S, Around' \subseteq Around \cup S, Witnesses(p, S),
           Len(altFile) <= Len(altFile'), FoundTypes', p \in Proc => FoundLocal(p)'
    PROVE  FoundInv'
  <1> SUFFICES ASSUME NEW q \in Proc, q # p PROVE FoundLocal(q)'
    BY DEF FoundInv
  <1>1. FoundLocal(q)
    BY DEF FoundInv
  <1> USE DEF Witnesses
  <1>2. Len(altFile) > 1 => Len(altFile') > 1
    <2>1. Len(altFile) \in Nat /\ Len(altFile') \in Nat
      BY LenProperties DEF FoundInv, FoundTypes
    <2> QED BY <2>1
  <1>3. op[q] \in Lookups => /\ obj[q] \in Around' => avail'[q]
                             /\ pc[q] = "probe" /\ InSome(obj[q], Range(snap[q])) => avail'[q]
                             /\ pc[q] \in Reads => avail'[q]
    BY <1>1 DEF FoundLocal
  <1>4. InSome(obj[q], Range(snap[q]))' = InSome(obj[q], Range(snap[q]))
    BY DEF InSome
  <1> QED BY <1>1, <1>2, <1>3, <1>4 DEF FoundLocal

\* p goes on without an answer, or returns one that is right.
MayFind(p) == avail[p] \/ (op[p] \in {"has", "size"} /\ Len(altFile) > 1)
Answers(p, s) ==
    \/ UNCHANGED res /\ pc[p] # "done"
    \/ s = "done" /\ \E r : res' = [res EXCEPT ![p] = r] /\ (r = "found" => MayFind(p))

LEMMA FoundPlain ==
    ASSUME LockInv, FoundInv, NEW p \in Proc, NEW s, GoTo(p, s), NEW S,
           Around' \subseteq Around \cup S, Marks(S), avail' \in [Proc -> BOOLEAN],
           UNCHANGED <<op, obj, snap, altFile, alts>>,
           s \notin {"probe"}, s \in Reads => pc[p] \in Reads \/ op[p] \notin Lookups,
           Answers(p, s)
    PROVE  FoundInv'
  <1>1. pc'[p] = s /\ \A q \in Proc \ {p} : pc'[q] = pc[q]
    BY DEF LockInv, LockTypes, GoTo
  <1>2. DOMAIN res' = Proc /\ \A q \in Proc \ {p} : res'[q] = res[q]
    <2>1. DOMAIN res = Proc
      BY DEF FoundInv, FoundTypes
    <2> QED BY <2>1 DEF Answers
  <1>3. Len(altFile) \in Nat
    BY LenProperties DEF FoundInv, FoundTypes
  <1>4. FoundTypes'
    BY <1>2 DEF FoundInv, FoundTypes, AltObjects
  <1>5. FoundLocal(p)'
    <2>1. FoundLocal(p) /\ avail'[p] = (avail[p] \/ obj[p] \in S) /\ DOMAIN res = Proc
      BY DEF FoundInv, FoundTypes, Marks
    <2>2. op[p] \in Lookups => /\ obj[p] \in Around' => avail'[p]
                               /\ s \in Reads => avail'[p]
      BY <2>1 DEF FoundLocal
    <2>3. CASE UNCHANGED res /\ pc[p] # "done"
      BY <1>1, <2>1, <2>2, <2>3 DEF FoundLocal
    <2>4. CASE s = "done" /\ \E r : res' = [res EXCEPT ![p] = r] /\ (r = "found" => MayFind(p))
      <3>1. res'[p] = "found" => MayFind(p)
        BY <2>1, <2>4
      <3>2. avail[p] => avail'[p]
        BY <2>1
      <3>3. res'[p] = "found" =>
               avail'[p] \/ (op'[p] \in {"has", "size"} /\ Len(altFile') > 1)
        BY <3>1, <3>2 DEF MayFind
      <3>4. pc'[p] = "done" /\ pc'[p] \notin Reads
        BY <1>1, <2>4 DEF Reads
      <3>5. op'[p] \in Lookups => (obj'[p] \in Around' => avail'[p])
        BY <2>2
      <3> QED BY <3>3, <3>4, <3>5, Zenon DEF FoundLocal
    <2> QED BY <2>3, <2>4 DEF Answers
  <1>6. Witnesses(p, S) /\ Len(altFile) <= Len(altFile')
    BY <1>1, <1>2, <1>3 DEF Witnesses, Marks
  <1> QED BY <1>4, <1>5, <1>6, FoundElsewhere

\* The leader and those who wait leave.
LEMMA FoundEnds ==
    ASSUME LockInv, FoundInv, NEW p \in Proc, NEW ok, NEW stale, EndFlight(p, ok, stale),
           pc[p] \in Leading, NEW S, Around' \subseteq Around \cup S, Marks(S),
           avail' \in [Proc -> BOOLEAN], UNCHANGED <<op, obj, snap, altFile, alts>>
    PROVE  FoundInv'
  <1> DEFINE told == {q \in Proc : q = p \/ (pc[q] = "join" /\ Key(q) = Key(p))}
             after(q) == IF ok THEN AfterIndex(q) ELSE AfterIndexError(q)
  <1>1. /\ pc' = [q \in Proc |-> IF q \in told THEN after(q) ELSE pc[q]]
        /\ res' = [q \in Proc |-> IF q \in told /\ after(q) = "done"
                                  THEN IF ok THEN "ok" ELSE "error" ELSE res[q]]
    BY DEF EndFlight
  <1>2. \A q \in told : /\ after(q) \in {"snapshot", "newPack", "list", "done", "loose"}
                        /\ pc[q] # "done"
    BY IndexStages DEF Leading
  <1> HIDE DEF after
  <1>3. FoundTypes'
    BY <1>1 DEF FoundInv, FoundTypes, AltObjects
  <1>4. ASSUME NEW q \in Proc PROVE FoundLocal(q)'
    <2>1. FoundLocal(q) /\ avail'[q] = (avail[q] \/ obj[q] \in S)
      BY DEF FoundInv, Marks
    <2>2. pc'[q] \in Reads \cup {"probe"} => pc'[q] = pc[q]
      BY <1>1, <1>2 DEF Reads
    <2>3. res'[q] # res[q] => pc'[q] = "done" /\ res'[q] \in {"ok", "error"}
      BY <1>1
    <2>4. pc'[q] # "done" => pc[q] # "done"
      BY <1>1, <1>2
    <2>5. op[q] \in Lookups => /\ obj[q] \in Around' => avail'[q]
                               /\ pc'[q] = "probe" /\ InSome(obj[q], Range(snap[q])) => avail'[q]
                               /\ pc'[q] \in Reads => avail'[q]
      BY <2>1, <2>2 DEF FoundLocal
    <2>6. res'[q] = "found" => avail'[q] \/ (op[q] \in {"has", "size"} /\ Len(altFile) > 1)
      BY <2>1, <2>3 DEF FoundLocal
    <2>7. pc'[q] # "done" => res'[q] = None
      BY <2>1, <2>3, <2>4 DEF FoundLocal
    <2> QED BY <2>5, <2>6, <2>7 DEF FoundLocal, InSome
  <1> QED BY <1>3, <1>4 DEF FoundInv

\* A call starts.
LEMMA FoundCall ==
    ASSUME LockInv, FoundInv, NEW p \in Proc, NEW o, NEW s, Call(p, o, s),
           NEW S, Around' \subseteq Around \cup S, UNCHANGED <<snap, res>>,
           s \notin Reads \cup {"probe", "done"}, FoundTypes', Len(altFile) <= Len(altFile'),
           \A q \in Proc \ {p} : obj'[q] = obj[q] /\ avail'[q] = (avail[q] \/ obj[q] \in S),
           o \in Lookups => (obj'[p] \in Around' => avail'[p])
    PROVE  FoundInv'
  <1>1. pc'[p] = s /\ op'[p] = o /\ pc[p] = "idle"
        /\ \A q \in Proc \ {p} : pc'[q] = pc[q] /\ op'[q] = op[q]
    BY DEF LockInv, LockTypes, Call, GoTo
  <1>2. res'[p] = None /\ None # "found"
    BY <1>1, StorageAssumption DEF FoundInv, FoundLocal
  <1>3. FoundLocal(p)'
    BY <1>1, <1>2 DEF FoundLocal
  <1>4. Witnesses(p, S)
    BY <1>1 DEF Witnesses
  <1> QED BY <1>3, <1>4, FoundElsewhere

LEMMA AlternateAdded ==
    ASSUME FoundTypes, altFile' = Append(altFile, AltExtra), UNCHANGED <<alts, res>>,
           avail' \in [Proc -> BOOLEAN]
    PROVE  FoundTypes' /\ AltObjects' \subseteq AltObjects \cup AltExtra
           /\ Len(altFile) <= Len(altFile')
  <1>1. altFile \in Seq(SUBSET Object) /\ AltExtra \in SUBSET Object /\ Len(altFile) \in Nat
        /\ DOMAIN altFile = 1..Len(altFile)
    BY StorageAssumption, LenProperties DEF FoundTypes
  <1>2. /\ altFile' \in Seq(SUBSET Object) /\ Len(altFile') = Len(altFile) + 1
        /\ DOMAIN altFile' = 1..(Len(altFile) + 1)
        /\ \A i \in 1..Len(altFile) : altFile'[i] = altFile[i]
        /\ altFile'[Len(altFile) + 1] = AltExtra
    BY <1>1, AppendProperties, LenProperties
  <1>3. AltObjects' \subseteq AltObjects \cup AltExtra /\ AltObjects \subseteq AltObjects'
    <2>1. ASSUME NEW i \in DOMAIN altFile' PROVE altFile'[i] \subseteq AltObjects \cup AltExtra
      <3>1. i \in 1..Len(altFile) \/ i = Len(altFile) + 1
        BY <1>1, <1>2
      <3> QED BY <1>1, <1>2, <3>1 DEF AltObjects
    <2>2. ASSUME NEW i \in DOMAIN altFile
          PROVE  i \in DOMAIN altFile' /\ altFile[i] = altFile'[i]
      BY <1>1, <1>2
    <2> QED BY <2>1, <2>2 DEF AltObjects
  <1>4. alts # None => Len(alts) \in Nat /\ Len(alts) <= Len(altFile')
    BY <1>1, <1>2, LenProperties DEF FoundTypes
  <1> QED BY <1>1, <1>2, <1>3, <1>4 DEF FoundTypes

LEMMA FoundAtStart ==
    ASSUME LockInv, IndexInv, FoundInv, NEW p \in Proc, Start(p)
    PROVE  FoundInv'
  <1> USE DEF locals, locks, disk, memory, caches, history
  <1>1. FoundTypes /\ Len(altFile) \in Nat
    BY LenProperties DEF FoundInv, FoundTypes
  <1>2. ASSUME UNCHANGED <<altFile, alts, res>>, avail' \in [Proc -> BOOLEAN]
        PROVE  FoundTypes' /\ Len(altFile) <= Len(altFile')
    BY <1>1, <1>2 DEF FoundTypes, AltObjects
  <1>3. ASSUME NEW o, NEW s, Call(p, o, s), o \notin Lookups, s \notin Reads \cup {"probe", "done"},
               UNCHANGED <<snap, res, avail, loose, files, altFile, alts, index>>,
               \A q \in Proc \ {p} : obj'[q] = obj[q]
        PROVE  FoundInv'
    <2>1. Around' \subseteq Around \cup {}
      BY <1>3, SameAround
    <2>2. Marks({}) /\ avail' \in [Proc -> BOOLEAN]
      BY <1>1, <1>3, MarksNone
    <2>3. \A q \in Proc \ {p} : obj'[q] = obj[q] /\ avail'[q] = (avail[q] \/ obj[q] \in {})
      BY <1>3, <2>2 DEF Marks
    <2> HIDE DEF locals, locks, disk, memory, caches, history
    <2> QED BY <1>2, <1>3, <2>1, <2>2, <2>3, FoundCall
  <1>4. \A x : [obj EXCEPT ![p] = x] \in [Proc -> Object \cup {None, x}]
               /\ \A q \in Proc \ {p} : [obj EXCEPT ![p] = x][q] = obj[q]
    BY DEF IndexInv, IndexTypes
  <1>5. CASE \E o \in Lookups, x \in Object : Lookup(p, o, x)
    <2>1. PICK o \in Lookups, x \in Object : Lookup(p, o, x)
      BY <1>5
    <2> DEFINE s == IF o = "delta" THEN "loose" ELSE "index"
               a == x \in Stored \cup AltObjects \/ (index # None /\ InSome(x, index))
    <2>2. /\ Call(p, o, s) /\ obj' = [obj EXCEPT ![p] = x] /\ avail' = [avail EXCEPT ![p] = a]
          /\ UNCHANGED <<snap, res, loose, files, altFile, alts, index>>
      BY <2>1 DEF Lookup
    <2>3. s \notin Reads \cup {"probe", "done"}
      BY DEF Reads
    <2>4. x \in Around => a
      BY DEF Around, InSome
    <2>5. a \in BOOLEAN
      OBVIOUS
    <2> HIDE DEF s, a
    <2>6. /\ avail' \in [Proc -> BOOLEAN] /\ avail'[p] = a
          /\ \A q \in Proc \ {p} : avail'[q] = avail[q] /\ avail[q] \in BOOLEAN
      BY <1>1, <2>2, <2>5 DEF FoundTypes
    <2>7. obj'[p] = x /\ \A q \in Proc \ {p} : obj'[q] = obj[q]
      BY <2>2 DEF IndexInv, IndexTypes
    <2>8. Around' = Around
      BY <2>2, SameAround
    <2>9. /\ \A q \in Proc \ {p} : obj'[q] = obj[q] /\ avail'[q] = (avail[q] \/ obj[q] \in {})
          /\ (obj'[p] \in Around' => avail'[p]) /\ Around' \subseteq Around \cup {}
      BY <2>4, <2>6, <2>7, <2>8
    <2>10. FoundTypes' /\ Len(altFile) <= Len(altFile')
      BY <1>2, <2>2, <2>6
    <2> HIDE DEF locals, locks, disk, memory, caches, history
    <2>11. UNCHANGED <<snap, res>> /\ Call(p, o, s)
      BY <2>2
    <2> QED BY <2>3, <2>9, <2>10, <2>11, FoundCall
  <1>6. CASE \E x \in Object : Commit(p, x)
    <2>1. /\ Call(p, "commit", "saveObject") /\ \A q \in Proc \ {p} : obj'[q] = obj[q]
          /\ UNCHANGED <<snap, res, avail, loose, files, altFile, alts, index>>
      BY <1>6, <1>4 DEF Commit
    <2>2. "commit" \notin Lookups /\ "saveObject" \notin Reads \cup {"probe", "done"}
      BY DEF Lookups, Reads
    <2> QED BY <1>3, <2>1, <2>2
  <1>7. CASE \E k \in Packs : Fetch(p, k)
    <2>1. /\ Call(p, "fetch", "index") /\ \A q \in Proc \ {p} : obj'[q] = obj[q]
          /\ UNCHANGED <<snap, res, avail, loose, files, altFile, alts, index>>
      BY <1>7, <1>4 DEF Fetch
    <2>2. "fetch" \notin Lookups /\ "index" \notin Reads \cup {"probe", "done"}
      BY DEF Lookups, Reads
    <2> QED BY <1>3, <2>1, <2>2
  <1>8. CASE Repack(p)
    <2>1. /\ Call(p, "repack", "walk") /\ \A q \in Proc \ {p} : obj'[q] = obj[q]
          /\ UNCHANGED <<snap, res, avail, loose, files, altFile, alts, index>>
      BY <1>8, <1>4 DEF Repack
    <2>2. "repack" \notin Lookups /\ "walk" \notin Reads \cup {"probe", "done"}
      BY DEF Lookups, Reads
    <2> QED BY <1>3, <2>1, <2>2
  <1>9. CASE Reindex(p)
    <2>1. /\ Call(p, "reindex", "index") /\ \A q \in Proc \ {p} : obj'[q] = obj[q]
          /\ UNCHANGED <<snap, res, avail, loose, files, altFile, alts, index>>
      BY <1>9, <1>4 DEF Reindex
    <2>2. "reindex" \notin Lookups /\ "index" \notin Reads \cup {"probe", "done"}
      BY DEF Lookups, Reads
    <2> QED BY <1>3, <2>1, <2>2
  <1>10. CASE Iterate(p)
    <2>1. /\ Call(p, "iter", "index") /\ \A q \in Proc \ {p} : obj'[q] = obj[q]
          /\ UNCHANGED <<snap, res, avail, loose, files, altFile, alts, index>>
      BY <1>10, <1>4 DEF Iterate
    <2>2. "iter" \notin Lookups /\ "index" \notin Reads \cup {"probe", "done"}
      BY DEF Lookups, Reads
    <2> QED BY <1>3, <2>1, <2>2
  <1>11. CASE AddAlternate(p)
    <2>1. /\ Call(p, "addalt", "resetAlts") /\ altFile' = Append(altFile, AltExtra)
          /\ Appear(AltExtra) /\ UNCHANGED <<snap, obj, res, loose, files, alts, index>>
      BY <1>11 DEF AddAlternate
    <2>2. Marks(AltExtra) /\ avail' \in [Proc -> BOOLEAN]
      BY <2>1, MarksAppear
    <2>3. FoundTypes' /\ AltObjects' \subseteq AltObjects \cup AltExtra
          /\ Len(altFile) <= Len(altFile')
      BY <1>1, <2>1, <2>2, AlternateAdded
    <2>4. Around' \subseteq Around \cup AltExtra
      BY <2>1, <2>3 DEF Around, Stored
    <2>5. "addalt" \notin Lookups /\ "resetAlts" \notin Reads \cup {"probe", "done"}
      BY DEF Lookups, Reads
    <2>6. \A q \in Proc \ {p} : obj'[q] = obj[q] /\ avail'[q] = (avail[q] \/ obj[q] \in AltExtra)
      BY <2>1, <2>2 DEF Marks
    <2> HIDE DEF locals, locks, disk, memory, caches, history
    <2> QED BY <2>1, <2>3, <2>4, <2>5, <2>6, FoundCall
  <1> QED BY <1>5, <1>6, <1>7, <1>8, <1>9, <1>10, <1>11 DEF Start

\* A goroutine takes another snapshot.
LEMMA SnapChanged ==
    ASSUME FoundTypes, IndexTypes, NEW p, NEW s, Marks({}), avail' \in [Proc -> BOOLEAN],
           \A q \in Proc : pc'[q] = IF q = p THEN s ELSE pc[q],
           \E t : snap' = [snap EXCEPT ![p] = t],
           UNCHANGED <<op, obj, altFile, alts, avail, res>>
    PROVE  Witnesses(p, {}) /\ FoundTypes' /\ Len(altFile) <= Len(altFile')
  <1>1. Len(altFile) \in Nat
    BY LenProperties DEF FoundTypes
  <1>2. \A q \in Proc \ {p} : snap'[q] = snap[q]
    BY DEF IndexTypes
  <1>3. Witnesses(p, {})
    BY <1>2 DEF Witnesses, Marks
  <1> QED BY <1>1, <1>3 DEF FoundTypes, AltObjects

LEMMA FoundAtStep ==
    ASSUME LockInv, IndexInv, FoundInv, NEW p \in Proc, Step(p)
    PROVE  FoundInv'
  <1> USE DEF locals, locks, disk, memory, caches, history
  <1>1. FoundTypes /\ FoundLocal(p) /\ Fits(pc[p], op[p]) /\ IndexTypes /\ IndexShared
        /\ IndexLocal(p)
    BY DEF FoundInv, LockInv, IndexInv
  <1>2. ASSUME UNCHANGED <<avail, loose, files, altFile, index>>
        PROVE  /\ Around' \subseteq Around \cup {} /\ Marks({})
               /\ avail' \in [Proc -> BOOLEAN]
    BY <1>1, <1>2, SameAround, MarksNone
  <1>3. ASSUME NEW s, GoTo(p, s), s # "probe", s \in Reads => pc[p] \in Reads \/ op[p] \notin Lookups,
               UNCHANGED <<op, obj, snap, altFile, alts>>, UNCHANGED res, pc[p] # "done",
               UNCHANGED <<avail, loose, files, index>>
        PROVE  FoundInv'
    <2>1. Answers(p, s) /\ s \notin {"probe"}
      BY <1>3 DEF Answers
    <2>2. Around' \subseteq Around \cup {} /\ Marks({}) /\ avail' \in [Proc -> BOOLEAN]
      BY <1>2, <1>3
    <2> HIDE DEF locals, locks, disk, memory, caches, history
    <2> QED BY <1>3, <2>1, <2>2, FoundPlain
  <1>4. ASSUME NEW r, Return(p, r), r = "found" => MayFind(p),
               UNCHANGED <<op, obj, snap, altFile, alts>>,
               UNCHANGED <<avail, loose, files, index>>
        PROVE  FoundInv'
    <2>1. Answers(p, "done") /\ "done" \notin {"probe"} \cup Reads /\ GoTo(p, "done")
      BY <1>4 DEF Answers, Return, Reads
    <2>2. Around' \subseteq Around \cup {} /\ Marks({}) /\ avail' \in [Proc -> BOOLEAN]
      BY <1>2, <1>4
    <2> HIDE DEF locals, locks, disk, memory, caches, history
    <2> QED BY <1>4, <2>1, <2>2, FoundPlain
  <1>5. CASE Join(p)
    BY <1>5, <1>3 DEF Join, Reads, CleanPackList
  <1>6. CASE Lead(p)
    BY <1>6, <1>3 DEF Lead, Reads, CleanPackList
  <1>7. CASE LockWriters(p)
    BY <1>7, <1>3 DEF LockWriters, Reads, CleanPackList
  <1>8. CASE LoadIndexes(p)
    BY <1>8, <1>3 DEF LoadIndexes, Reads, CleanPackList
  <1>9. CASE TooNew(p)
    BY <1>9, <1>3 DEF TooNew, Reads, CleanPackList
  <1>10. CASE InstallKnown(p)
    BY <1>10, <1>3 DEF InstallKnown, Reads, CleanPackList
  <1>11. CASE InstallLock(p)
    BY <1>11, <1>3 DEF InstallLock, Reads, CleanPackList
  <1>12. CASE NewObjectPack(p)
    BY <1>12, <1>3 DEF NewObjectPack, Reads, CleanPackList
  <1>13. CASE WalkAllRefs(p)
    BY <1>13, <1>3 DEF WalkAllRefs, Reads, CleanPackList
  <1>14. CASE DeletePack(p)
    BY <1>14, <1>3 DEF DeletePack, Reads, CleanPackList
  <1>15. CASE ListPacks(p)
    BY <1>15, <1>3 DEF ListPacks, Reads, CleanPackList
  <1>16. CASE IndexReady(p)
    <2>1. AfterIndex(p) \notin Reads \cup {"probe"}
      BY <1>16, IndexStages DEF IndexReady, Reads
    <2> QED BY <1>16, <1>3, <2>1 DEF IndexReady
  <1>17. CASE SetReference(p)
    BY <1>17, <1>4 DEF SetReference
  <1>18. CASE SaveFails(p)
    BY <1>18, <1>4 DEF SaveFails
  <1>19. CASE DeleteDone(p)
    BY <1>19, <1>4 DEF DeleteDone
  <1>20. CASE ResetAlternates(p)
    <2>1. /\ Return(p, "ok") /\ alts' = None
          /\ UNCHANGED <<op, obj, snap, avail, loose, files, altFile, index>>
      BY <1>20 DEF ResetAlternates
    <2>2. Around' \subseteq Around \cup {} /\ Marks({}) /\ avail' \in [Proc -> BOOLEAN]
      BY <1>2, <2>1
    <2>3. \A q \in Proc : pc'[q] = IF q = p THEN "done" ELSE pc[q]
      BY <2>1 DEF Return, GoTo, LockInv, LockTypes
    <2>4. DOMAIN res' = Proc /\ \A q \in Proc : res'[q] = IF q = p THEN "ok" ELSE res[q]
      BY <1>1, <2>1 DEF Return, FoundTypes
    <2>5. FoundTypes' /\ Len(altFile) <= Len(altFile')
      <3>1. Len(altFile) \in Nat
        BY <1>1, LenProperties DEF FoundTypes
      <3> QED BY <1>1, <2>1, <2>2, <2>4, <3>1 DEF FoundTypes
    <2>6. Witnesses(p, {})
      BY <2>1, <2>2, <2>3, <2>4 DEF Witnesses, Marks
    <2>7. FoundLocal(p)'
      <3>1. pc'[p] = "done" /\ res'[p] = "ok" /\ op'[p] = op[p] /\ obj'[p] = obj[p]
        BY <2>1, <2>3, <2>4
      <3>2. op[p] \in Lookups => (obj[p] \in Around' => avail'[p])
        BY <1>1, <2>1, <2>2 DEF FoundLocal
      <3> QED BY <3>1, <3>2 DEF FoundLocal, Reads
    <2> HIDE DEF locals, locks, disk, memory, caches, history
    <2> QED BY <2>2, <2>5, <2>6, <2>7, FoundElsewhere
  <1>21. CASE ProbeMiss(p)
    BY <1>21, <1>3, <1>4 DEF ProbeMiss, Reads
  <1>22. CASE CacheHit(p)
    <2>1. MayFind(p)
      BY <1>22, <1>1 DEF CacheHit, FoundLocal, MayFind, Reads, Lookups
    <2> QED BY <1>22, <1>4, <2>1 DEF CacheHit
  <1>23. CASE OpenPack(p)
    BY <1>23, <1>3, <1>4 DEF OpenPack, Reads
  <1>24. CASE GetHandle(p)
    BY <1>24, <1>3, <1>4 DEF GetHandle, Reads
  <1>25. CASE ReadPack(p)
    <2>1. pc[p] = "read" /\ (op[p] # "iter" => MayFind(p))
      BY <1>25, <1>1 DEF ReadPack, Fits, FoundLocal, MayFind, Reads, Lookups
    <2> QED BY <1>25, <1>3, <1>4, <2>1 DEF ReadPack, Reads
  <1>26. CASE LooseHit(p)
    <2>1. obj[p] \in Around /\ op[p] \in Lookups
      BY <1>26, <1>1 DEF LooseHit, Fits, Around, Stored
    <2>2. MayFind(p)
      BY <1>1, <2>1 DEF FoundLocal, MayFind
    <2> QED BY <1>26, <1>4, <2>2 DEF LooseHit
  <1>27. CASE LooseMiss(p)
    <2>1. /\ UNCHANGED <<op, obj, snap, altFile, alts, avail, loose, files, index>>
          /\ pc[p] = "loose"
      BY <1>27 DEF LooseMiss
    <2>2. \/ Return(p, "missing") \/ Return(p, "error")
          \/ (GoTo(p, "alternates") \/ GoTo(p, "index")) /\ UNCHANGED res
      <3>1. CASE op[p] = "delta"
        BY <1>27, <3>1 DEF LooseMiss
      <3>2. CASE op[p] # "delta"
        BY <1>27, <3>2 DEF LooseMiss
      <3> QED BY <3>1, <3>2
    <2> QED BY <1>3, <1>4, <2>1, <2>2 DEF Reads
  <1>28. CASE SaveObject(p)
    <2> DEFINE S == {obj[p]}
    <2>1. /\ GoTo(p, "setRef") /\ loose' = loose \cup S /\ Appear(S) /\ pc[p] # "done"
          /\ UNCHANGED <<op, obj, snap, altFile, alts, res, files, index>>
      BY <1>28 DEF SaveObject
    <2>2. Around' \subseteq Around \cup S
      BY <2>1 DEF Around, Stored, AltObjects
    <2>3. Answers(p, "setRef") /\ "setRef" \notin Reads \cup {"probe"}
      BY <2>1 DEF Answers, Reads
    <2> HIDE DEF S, locals, locks, disk, memory, caches, history
    <2> QED BY <2>1, <2>2, <2>3, MarksAppear, FoundPlain
  <1>29. CASE SavePack(p)
    <2> DEFINE S == pack[p]
               s == IF pack[p] # {} THEN "notify" ELSE "prune"
    <2>1. /\ GoTo(p, s) /\ files' = files \cup ({S} \ {{}}) /\ Appear(S) /\ pc[p] # "done"
          /\ UNCHANGED <<op, obj, snap, altFile, alts, res, loose, index>>
      BY <1>29 DEF SavePack
    <2>2. Around' \subseteq Around \cup S
      BY <2>1 DEF Around, Stored, AltObjects
    <2>3. Answers(p, s) /\ s \notin Reads \cup {"probe"}
      BY <2>1 DEF Answers, Reads
    <2> HIDE DEF S, s, locals, locks, disk, memory, caches, history
    <2> QED BY <2>1, <2>2, <2>3, MarksAppear, FoundPlain
  <1>30. CASE Notify(p)
    <2> DEFINE S == pack[p]
               s == IF op[p] = "fetch" THEN "setRef" ELSE "prune"
    <2>1. /\ GoTo(p, s) /\ index' = index \cup {S} /\ Appear(S) /\ pc[p] = "notify"
          /\ UNCHANGED <<op, obj, snap, altFile, alts, res, loose, files>>
      BY <1>30 DEF Notify, AddEntry
    <2>2. index # None
      BY <1>1, <2>1 DEF IndexLocal, AfterRequire, Fits, Leading
    <2>3. Around' \subseteq Around \cup S
      BY <2>1, <2>2 DEF Around, Stored, AltObjects
    <2>4. Answers(p, s) /\ s \notin Reads \cup {"probe"}
      BY <2>1 DEF Answers, Reads
    <2> HIDE DEF S, s, locals, locks, disk, memory, caches, history
    <2> QED BY <2>1, <2>3, <2>4, MarksAppear, FoundPlain
  <1>31. CASE InstallIdx(p)
    <2>1. pc[p] = "installIdx" /\ UNCHANGED <<op, obj, snap, altFile, alts, loose, files>>
      BY <1>31 DEF InstallIdx
    <2>2. CASE AddEntry(pack[p]) /\ GoTo(p, "nextPack") /\ UNCHANGED res
      <3> DEFINE S == pack[p]
      <3>1. index' = index \cup {S} /\ Appear(S)
        BY <2>2 DEF AddEntry
      <3>2. index # None
        BY <1>1, <2>1 DEF IndexLocal, AfterRequire, Fits, Leading
      <3>3. Around' \subseteq Around \cup S
        BY <2>1, <3>1, <3>2 DEF Around, Stored, AltObjects
      <3>4. Answers(p, "nextPack") /\ "nextPack" \notin Reads \cup {"probe"}
        BY <2>1, <2>2 DEF Answers, Reads
      <3> HIDE DEF S, locals, locks, disk, memory, caches, history
      <3> QED BY <2>1, <2>2, <3>1, <3>3, <3>4, MarksAppear, FoundPlain
    <2>3. CASE Return(p, "error") /\ UNCHANGED <<index, avail>>
      BY <1>4, <2>1, <2>3
    <2> QED BY <1>31, <2>2, <2>3 DEF InstallIdx
  <1>32. CASE PruneLoose(p)
    <2>1. /\ GoTo(p, "deleteNext") /\ loose' = loose \ pack[p] /\ pc[p] # "done"
          /\ UNCHANGED <<op, obj, snap, altFile, alts, res, files, index, avail>>
      BY <1>32 DEF PruneLoose
    <2>2. Around' \subseteq Around \cup {}
      BY <2>1 DEF Around, Stored, AltObjects
    <2>3. Answers(p, "deleteNext") /\ "deleteNext" \notin Reads \cup {"probe"}
      BY <2>1 DEF Answers, Reads
    <2> HIDE DEF locals, locks, disk, memory, caches, history
    <2> QED BY <1>1, <2>1, <2>2, <2>3, MarksNone, FoundPlain
  <1>33. CASE Unlink(p)
    <2>1. /\ GoTo(p, "drop") /\ files' \subseteq files /\ pc[p] # "done"
          /\ UNCHANGED <<op, obj, snap, altFile, alts, res, loose, index, avail>>
      BY <1>33 DEF Unlink
    <2>2. Around' \subseteq Around \cup {}
      BY <2>1 DEF Around, Stored, AltObjects
    <2>3. Answers(p, "drop") /\ "drop" \notin Reads \cup {"probe"}
      BY <2>1 DEF Answers, Reads
    <2> HIDE DEF locals, locks, disk, memory, caches, history
    <2> QED BY <1>1, <2>1, <2>2, <2>3, MarksNone, FoundPlain
  <1>34. CASE UnlinkFails(p)
    <2>1. /\ Return(p, "error") /\ files' \subseteq files
          /\ UNCHANGED <<op, obj, snap, altFile, alts, loose, index, avail>>
      BY <1>34 DEF UnlinkFails
    <2>2. Around' \subseteq Around \cup {}
      BY <2>1 DEF Around, Stored, AltObjects
    <2>3. "done" \notin Reads \cup {"probe"} /\ GoTo(p, "done") /\ "error" # "found"
          /\ res' = [res EXCEPT ![p] = "error"]
      BY <2>1 DEF Reads, Return
    <2>4. Answers(p, "done")
      BY <2>3, Zenon DEF Answers
    <2> HIDE DEF locals, locks, disk, memory, caches, history
    <2> QED BY <1>1, <2>1, <2>2, <2>3, <2>4, MarksNone, FoundPlain
  <1>35. CASE DropEntry(p)
    <2>1. /\ GoTo(p, "deleteNext") /\ pc[p] = "drop"
          /\ UNCHANGED <<op, obj, snap, altFile, alts, res, loose, files, avail>>
          /\ UNCHANGED index \/ index' = index \ {Victim(p)}
      BY <1>35 DEF DropEntry
    <2>2. index # None
      BY <1>1, <2>1 DEF IndexLocal, AfterRequire, Fits, Leading, Writes
    <2>3. Around' \subseteq Around \cup {}
      BY <2>1, <2>2 DEF Around, Stored, AltObjects
    <2>4. Answers(p, "deleteNext") /\ "deleteNext" \notin Reads \cup {"probe"}
      BY <2>1 DEF Answers, Reads
    <2> HIDE DEF locals, locks, disk, memory, caches, history
    <2> QED BY <1>1, <2>1, <2>3, <2>4, MarksNone, FoundPlain
  <1>36. CASE Recheck(p)
    <2>1. /\ UNCHANGED <<op, obj, snap, altFile, alts, avail, loose, files, index>>
          /\ pc[p] = "recheck"
      BY <1>36 DEF Recheck
    <2>2. CASE GoTo(p, "lock") /\ UNCHANGED res
      BY <1>3, <2>1, <2>2 DEF Reads
    <2>3. CASE EndFlight(p, TRUE, {})
      <3>1. pc[p] \in Leading
        BY <2>1 DEF Leading
      <3>2. Around' \subseteq Around \cup {} /\ Marks({}) /\ avail' \in [Proc -> BOOLEAN]
        BY <1>2, <2>1
      <3> HIDE DEF locals, locks, disk, memory, caches, history
      <3> QED BY <2>1, <2>3, <3>1, <3>2, FoundEnds
    <2> QED BY <1>36, <2>2, <2>3 DEF Recheck
  <1>37. CASE LoadFails(p)
    <2>1. /\ UNCHANGED <<op, obj, snap, altFile, alts, avail, loose, files, index>>
          /\ pc[p] \in Leading /\ EndFlight(p, FALSE, {})
      BY <1>37 DEF LoadFails, Leading
    <2>2. Around' \subseteq Around \cup {} /\ Marks({}) /\ avail' \in [Proc -> BOOLEAN]
      BY <1>2, <2>1
    <2> HIDE DEF locals, locks, disk, memory, caches, history
    <2> QED BY <2>1, <2>2, FoundEnds
  <1>38. CASE Publish(p)
    <2> DEFINE stale == Range(snap[p]) \ (files \cap Catalog)
               S == UNION Range(snap[p])
    <2>1. /\ UNCHANGED <<op, obj, snap, altFile, alts, loose, files>> /\ Appear(S)
          /\ pc[p] \in Leading /\ EndFlight(p, TRUE, stale)
          /\ UNCHANGED index \/ index' = Range(snap[p])
      BY <1>38 DEF Publish, Leading
    <2>2. Around' \subseteq Around \cup S
      <3>1. CASE UNCHANGED index
        BY <2>1, <3>1, SameAround
      <3>2. CASE index' = Range(snap[p])
        <4>1. UNION (IF index' = None THEN {} ELSE index') \subseteq S
          BY <3>2
        <4> QED BY <2>1, <4>1 DEF Around, Stored, AltObjects
      <3> QED BY <2>1, <3>1, <3>2
    <2>3. Marks(S) /\ avail' \in [Proc -> BOOLEAN]
      BY <2>1, MarksAppear
    <2> HIDE DEF S, stale, locals, locks, disk, memory, caches, history
    <2> QED BY <2>1, <2>2, <2>3, FoundEnds
  <1>39. CASE ScanPacks(p)
    <2>1. /\ GoTo(p, "load") /\ pc[p] = "scan" /\ UNCHANGED res
          /\ \E t : snap' = [snap EXCEPT ![p] = t]
          /\ UNCHANGED <<op, obj, altFile, alts, avail, loose, files, index>>
      BY <1>39 DEF ScanPacks
    <2>2. Around' \subseteq Around \cup {} /\ Marks({}) /\ avail' \in [Proc -> BOOLEAN]
      BY <1>2, <2>1
    <2>3. \A q \in Proc : pc'[q] = IF q = p THEN "load" ELSE pc[q]
      BY <2>1 DEF GoTo, LockInv, LockTypes
    <2>4. Witnesses(p, {}) /\ FoundTypes' /\ Len(altFile) <= Len(altFile')
      BY <1>1, <2>1, <2>2, <2>3, SnapChanged
    <2>5. FoundLocal(p)'
      <3>1. pc'[p] = "load" /\ pc[p] = "scan"
        BY <2>1, <2>3
      <3> QED BY <1>1, <2>1, <2>2, <3>1 DEF FoundLocal, Reads, Marks
    <2> HIDE DEF locals, locks, disk, memory, caches, history
    <2> QED BY <2>2, <2>4, <2>5, FoundElsewhere
  <1>40. CASE LockDelete(p)
    <2>1. /\ GoTo(p, "delete") /\ pc[p] = "deleteNext" /\ UNCHANGED res
          /\ \E t : snap' = [snap EXCEPT ![p] = t]
          /\ UNCHANGED <<op, obj, altFile, alts, avail, loose, files, index>>
      BY <1>40 DEF LockDelete
    <2>2. Around' \subseteq Around \cup {} /\ Marks({}) /\ avail' \in [Proc -> BOOLEAN]
      BY <1>2, <2>1
    <2>3. \A q \in Proc : pc'[q] = IF q = p THEN "delete" ELSE pc[q]
      BY <2>1 DEF GoTo, LockInv, LockTypes
    <2>4. Witnesses(p, {}) /\ FoundTypes' /\ Len(altFile) <= Len(altFile')
      BY <1>1, <2>1, <2>2, <2>3, SnapChanged
    <2>5. FoundLocal(p)'
      <3>1. pc'[p] = "delete" /\ pc[p] = "deleteNext"
        BY <2>1, <2>3
      <3> QED BY <1>1, <2>1, <2>2, <3>1 DEF FoundLocal, Reads, Marks
    <2> HIDE DEF locals, locks, disk, memory, caches, history
    <2> QED BY <2>2, <2>4, <2>5, FoundElsewhere
  <1>41. CASE Snapshot(p)
    <2>1. /\ GoTo(p, "probe") /\ pc[p] = "snapshot" /\ UNCHANGED res
          /\ snap' = [snap EXCEPT ![p] = packs]
          /\ UNCHANGED <<op, obj, altFile, alts, avail, loose, files, index>>
      BY <1>41 DEF Snapshot
    <2>2. Around' \subseteq Around \cup {} /\ Marks({}) /\ avail' \in [Proc -> BOOLEAN]
      BY <1>2, <2>1
    <2>3. \A q \in Proc : pc'[q] = IF q = p THEN "probe" ELSE pc[q]
      BY <2>1 DEF GoTo, LockInv, LockTypes
    <2>4. Witnesses(p, {}) /\ FoundTypes' /\ Len(altFile) <= Len(altFile')
      BY <1>1, <2>1, <2>2, <2>3, SnapChanged
    <2>5. index # None /\ Range(packs) = index
      BY <1>1, <2>1 DEF IndexLocal, AfterRequire, IndexShared, Lists
    <2>6. InSome(obj[p], Range(packs)) => obj[p] \in Around
      BY <2>5 DEF InSome, Around
    <2>7. FoundLocal(p)'
      <3>1. pc'[p] = "probe" /\ pc[p] = "snapshot" /\ snap'[p] = packs
        BY <1>1, <2>1, <2>3 DEF IndexTypes
      <3>2. op[p] \in Lookups => (obj[p] \in Around' => avail'[p])
        BY <1>1, <2>1, <2>2 DEF FoundLocal
      <3>3. op[p] \in Lookups /\ InSome(obj[p], Range(snap'[p])) => avail'[p]
        BY <1>1, <2>1, <2>6, <3>1 DEF FoundLocal
      <3>4. res'[p] = None /\ None # "found"
        BY <1>1, <2>1, StorageAssumption DEF FoundLocal
      <3>5. "probe" \notin Reads
        BY DEF Reads
      <3> QED BY <2>1, <3>1, <3>2, <3>3, <3>4, <3>5 DEF FoundLocal, InSome
    <2> HIDE DEF locals, locks, disk, memory, caches, history
    <2> QED BY <2>2, <2>4, <2>7, FoundElsewhere
  <1>42. CASE ProbeHit(p)
    <2>1. PICK answers \in SUBSET (Range(snap[p]) \ files) : Hits(p, answers) # {}
      BY <1>42 DEF ProbeHit
    <2>2. /\ pc[p] = "probe" /\ (Return(p, "found") \/ (GoTo(p, "route") /\ UNCHANGED res))
          /\ UNCHANGED <<op, obj, snap, altFile, alts, avail, loose, files, index>>
      BY <1>42 DEF ProbeHit
    <2>3. avail[p]
      <3>1. op[p] \in Lookups
        BY <1>1, <2>2 DEF Fits
      <3>2. InSome(obj[p], Range(snap[p]))
        BY <2>1 DEF Hits, InSome, Range
      <3> QED BY <1>1, <2>2, <3>1, <3>2 DEF FoundLocal
    <2>4. CASE Return(p, "found")
      BY <1>4, <2>2, <2>3, <2>4 DEF MayFind
    <2>5. CASE GoTo(p, "route") /\ UNCHANGED res
      <3>1. \A q \in Proc : pc'[q] = IF q = p THEN "route" ELSE pc[q]
        BY <2>5 DEF GoTo, LockInv, LockTypes
      <3>2. Around' \subseteq Around \cup {} /\ Marks({}) /\ avail' \in [Proc -> BOOLEAN]
        BY <1>2, <2>2
      <3>3. Witnesses(p, {})
        BY <2>2, <2>5, <3>1, <3>2 DEF Witnesses, Marks
      <3>4. FoundTypes' /\ Len(altFile) <= Len(altFile')
        <4>1. Len(altFile) \in Nat
          BY <1>1, LenProperties DEF FoundTypes
        <4> QED BY <1>1, <2>2, <2>5, <3>2, <4>1 DEF FoundTypes, AltObjects
      <3>5. FoundLocal(p)'
        <4>1. pc'[p] = "route" /\ avail'[p] /\ res'[p] = None /\ None # "found"
          BY <1>1, <2>2, <2>3, <2>5, <3>1, StorageAssumption DEF FoundLocal
        <4> QED BY <4>1 DEF FoundLocal
      <3> HIDE DEF locals, locks, disk, memory, caches, history
      <3> QED BY <3>2, <3>3, <3>4, <3>5, FoundElsewhere
    <2> QED BY <2>2, <2>4, <2>5
  <1>43. CASE NextPack(p)
    <2>1. /\ UNCHANGED <<op, obj, snap, altFile, alts, avail, loose, files, index>>
          /\ pc[p] = "nextPack"
          /\ \/ GoTo(p, "route") /\ UNCHANGED res
             \/ Return(p, "ok")
      BY <1>43 DEF NextPack
    <2>2. op[p] \notin Lookups
      BY <1>1, <2>1 DEF Fits, Lookups
    <2> QED BY <1>3, <1>4, <2>1, <2>2
  <1>44. CASE FindInAlternates(p)
    <2> DEFINE list == IF alts = None THEN altFile ELSE alts
    <2>1. /\ pc[p] = "alternates" /\ alts' = list
          /\ UNCHANGED <<op, obj, snap, altFile, avail, loose, files, index>>
      BY <1>44 DEF FindInAlternates
    <2>2. PICK bad \in SUBSET DOMAIN list :
             Return(p, IF InAlternates(p, list, bad) = "missing" /\ idxErr[p] THEN "error"
                       ELSE InAlternates(p, list, bad))
      BY <1>44 DEF FindInAlternates
    <2>3. /\ list \in Seq(SUBSET Object) /\ Len(list) \in Nat /\ Len(altFile) \in Nat
          /\ Len(list) <= Len(altFile) /\ \A i \in DOMAIN list : list[i] \subseteq AltObjects
      <3>1. altFile \in Seq(SUBSET Object) /\ Len(altFile) \in Nat
        BY <1>1, LenProperties DEF FoundTypes
      <3>2. CASE alts = None
        BY <3>1, <3>2 DEF AltObjects
      <3>3. CASE alts # None
        BY <1>1, <3>1, <3>3, LenProperties DEF FoundTypes
      <3> QED BY <3>2, <3>3
    <2> HIDE DEF list
    <2>4. InAlternates(p, list, bad) = "found" => MayFind(p)
      <3> DEFINE holders == {i \in DOMAIN list \ bad : obj[p] \in list[i]}
      <3>1. op[p] \in {"get", "has", "size"}
        BY <1>1, <2>1 DEF Fits
      <3>2. CASE holders # {}
        <4>1. obj[p] \in Around /\ op[p] \in Lookups
          BY <2>3, <3>1, <3>2 DEF Around, Lookups
        <4> QED BY <1>1, <4>1 DEF FoundLocal, MayFind
      <3>3. CASE holders = {} /\ bad # {}
        BY <3>3 DEF InAlternates
      <3>4. CASE holders = {} /\ bad = {} /\ Len(list) < 2
        BY <3>4 DEF InAlternates
      <3>5. CASE holders = {} /\ bad = {} /\ ~ (Len(list) < 2)
        <4>1. InAlternates(p, list, bad) = IF op[p] = "get" THEN "missing" ELSE "found"
          BY <3>5 DEF InAlternates
        <4>2. Len(altFile) > 1
          BY <2>3, <3>5
        <4> QED BY <3>1, <4>1, <4>2 DEF MayFind
      <3> QED BY <3>2, <3>3, <3>4, <3>5
    <2>5. PICK r : Return(p, r) /\ (r = "found" => MayFind(p))
      BY <2>2, <2>4
    <2>6. Around' \subseteq Around \cup {} /\ Marks({}) /\ avail' \in [Proc -> BOOLEAN]
      BY <1>2, <2>1
    <2>7. /\ \A q \in Proc : pc'[q] = IF q = p THEN "done" ELSE pc[q]
          /\ DOMAIN res' = Proc /\ \A q \in Proc : res'[q] = IF q = p THEN r ELSE res[q]
      BY <1>1, <2>5 DEF Return, GoTo, LockInv, LockTypes, FoundTypes
    <2>8. Witnesses(p, {})
      BY <2>1, <2>6, <2>7 DEF Witnesses, Marks
    <2>9. FoundTypes' /\ Len(altFile) <= Len(altFile')
      <3>1. AltObjects' = AltObjects
        BY <2>1 DEF AltObjects
      <3> QED BY <1>1, <2>1, <2>3, <2>6, <2>7, <3>1 DEF FoundTypes
    <2>10. FoundLocal(p)'
      <3>1. pc'[p] = "done" /\ res'[p] = r /\ "done" \notin Reads
        BY <2>7 DEF Reads
      <3>2. op[p] \in Lookups => (obj[p] \in Around' => avail'[p])
        BY <1>1, <2>1, <2>6 DEF FoundLocal
      <3>3. res'[p] = "found" => MayFind(p)'
        BY <2>1, <2>5, <3>1 DEF MayFind
      <3> QED BY <2>1, <3>1, <3>2, <3>3 DEF FoundLocal, MayFind
    <2> HIDE DEF locals, locks, disk, memory, caches, history
    <2> QED BY <2>6, <2>8, <2>9, <2>10, FoundElsewhere
  <1>45. CASE Finish(p)
    <2>1. /\ GoTo(p, "idle") /\ op' = [op EXCEPT ![p] = None] /\ obj' = [obj EXCEPT ![p] = None]
          /\ snap' = [snap EXCEPT ![p] = <<>>] /\ res' = [res EXCEPT ![p] = None]
          /\ avail' = [avail EXCEPT ![p] = FALSE]
          /\ UNCHANGED <<altFile, alts, loose, files, index>>
      BY <1>45 DEF Finish
    <2>2. Around' \subseteq Around \cup {}
      BY <2>1, SameAround
    <2>3. /\ \A q \in Proc : pc'[q] = IF q = p THEN "idle" ELSE pc[q]
          /\ \A q \in Proc : op'[q] = IF q = p THEN None ELSE op[q]
          /\ DOMAIN res' = Proc /\ \A q \in Proc : res'[q] = IF q = p THEN None ELSE res[q]
      BY <1>1, <2>1 DEF GoTo, LockInv, LockTypes, FoundTypes
    <2>4. /\ \A q \in Proc \ {p} : obj'[q] = obj[q] /\ snap'[q] = snap[q]
          /\ avail' \in [Proc -> BOOLEAN]
          /\ \A q \in Proc \ {p} : avail'[q] = avail[q] /\ avail[q] \in BOOLEAN
      BY <1>1, <2>1 DEF IndexTypes, FoundTypes
    <2>5. Witnesses(p, {})
      BY <2>3, <2>4 DEF Witnesses
    <2>6. FoundTypes' /\ Len(altFile) <= Len(altFile')
      <3>1. Len(altFile) \in Nat /\ AltObjects' = AltObjects
        BY <1>1, <2>1, LenProperties DEF FoundTypes, AltObjects
      <3> QED BY <1>1, <2>1, <2>3, <2>4, <3>1 DEF FoundTypes
    <2>7. FoundLocal(p)'
      <3>1. None \notin Lookups /\ None # "found"
        BY StorageAssumption
      <3> QED BY <2>3, <3>1 DEF FoundLocal
    <2> HIDE DEF locals, locks, disk, memory, caches, history
    <2> QED BY <2>2, <2>5, <2>6, <2>7, FoundElsewhere
  <1>46. CASE ListFails(p)
    BY <1>46, <1>4 DEF ListFails
  <1> QED BY <1>5, <1>6, <1>7, <1>8, <1>9, <1>10, <1>11, <1>12, <1>13, <1>14, <1>15, <1>16, <1>17, <1>18, <1>19, <1>20, <1>21, <1>22, <1>23, <1>24, <1>25, <1>26, <1>27, <1>28, <1>29, <1>30, <1>31, <1>32, <1>33, <1>34, <1>35, <1>36, <1>37, <1>38, <1>39, <1>40, <1>41, <1>42, <1>43, <1>44, <1>45, <1>46 DEF Step

LEMMA FoundAtInit == Init => FoundInv
  <1> SUFFICES ASSUME Init PROVE FoundInv
    OBVIOUS
  <1>1. FoundTypes
    BY StorageAssumption DEF Init, FoundTypes
  <1>2. None \notin Lookups /\ None # "found"
    BY StorageAssumption
  <1>3. \A p \in Proc : FoundLocal(p)
    BY <1>2 DEF Init, FoundLocal
  <1> QED BY <1>1, <1>3 DEF FoundInv

LEMMA FoundAtNext == LockInv /\ IndexInv /\ FoundInv /\ [Next]_vars => FoundInv'
  <1> SUFFICES ASSUME LockInv, IndexInv, FoundInv, [Next]_vars PROVE FoundInv'
    OBVIOUS
  <1> USE DEF locals, locks, disk, memory, caches, history
  <1>1. ASSUME NEW S, Around' \subseteq Around \cup S, Marks(S), avail' \in [Proc -> BOOLEAN],
               UNCHANGED <<pc, op, obj, snap, res, altFile, alts>>
        PROVE  FoundInv'
    <2>1. FoundTypes' /\ Len(altFile) <= Len(altFile')
      <3>1. Len(altFile) \in Nat /\ FoundTypes
        BY LenProperties DEF FoundInv, FoundTypes
      <3> QED BY <1>1, <3>1 DEF FoundTypes, AltObjects
    <2>2. Witnesses(None, S)
      BY <1>1 DEF Witnesses, Marks
    <2>3. None \notin Proc
      BY StorageAssumption
    <2> HIDE DEF locals, locks, disk, memory, caches, history
    <2> QED BY <1>1, <2>1, <2>2, <2>3, FoundElsewhere
  <1>2. FoundTypes
    BY DEF FoundInv
  <1>3. CASE \E k \in Packs : ExternalAdd(k)
    <2>1. PICK k \in Packs : ExternalAdd(k)
      BY <1>3
    <2>2. Around' \subseteq Around \cup k /\ Appear(k)
      BY <2>1 DEF ExternalAdd, Around, Stored, AltObjects
    <2> QED BY <1>1, <2>1, <2>2, MarksAppear DEF ExternalAdd
  <1>4. CASE \E k \in Packs : ExternalRemove(k)
    <2>1. PICK k \in Packs : ExternalRemove(k)
      BY <1>4
    <2>2. Around' \subseteq Around \cup {}
      BY <2>1 DEF ExternalRemove, Around, Stored, AltObjects
    <2> QED BY <1>1, <1>2, <2>1, <2>2, MarksNone DEF ExternalRemove
  <1>5. CASE UNCHANGED vars
    <2>1. Around' \subseteq Around \cup {}
      BY <1>5, SameAround DEF vars
    <2> QED BY <1>1, <1>2, <1>5, <2>1, MarksNone DEF vars
  <1> QED BY <1>3, <1>4, <1>5, FoundAtStart, FoundAtStep DEF Next, Quiet

\* AbsentIsNotFound for any goroutines, packs, alternates and calls: a lookup reports
\* only what was stored, indexed or in an alternate at some point of the call, except
\* HasEncodedObject and EncodedObjectSize with several alternates.
THEOREM AbsentIsReported == Spec => []AbsentIsNotFound
  <1>1. FoundInv => AbsentIsNotFound
    BY DEF FoundInv, FoundLocal, AbsentIsNotFound
  <1> QED BY <1>1, LocksAtInit, LocksAtNext, IndexAtInit, IndexAtNext, FoundAtInit,
             FoundAtNext, PTL DEF Spec

-----------------------------------------------------------------------------
(* What a repack keeps.                                                     *)

\* A goroutine moves without touching the disk.
Mild(q) ==
    /\ pc'[q] \in Victims => /\ pc[q] \in Victims
                             /\ snap'[q] = snap[q] /\ pack'[q] = pack[q]
    /\ op'[q] \in Writes \cup {"commit"} /\ pc'[q] # "saveObject" =>
          /\ op'[q] = op[q] /\ pack'[q] = pack[q] /\ obj'[q] = obj[q]
          /\ pc'[q] = "notify" => pc[q] = "notify"
          /\ pc'[q] = "setRef" => pc[q] \in {"setRef", "notify"}
          /\ pc'[q] \in Deleting => pc[q] \in Deleting \cup {"notify"}
          /\ pc'[q] \notin {"walk", "done"} => pc[q] \notin {"walk", "done"}

LEMMA KeepMild ==
    ASSUME LockInv, LockInv', KeepInv, \A q \in Proc : Mild(q),
           UNCHANGED <<files, loose, needed, overlap>>
    PROVE  KeepInv'
  <1>1. \A q \in Proc : (pc[q] \in Victims => Victim(q) # pack[q])'
    BY DEF KeepInv, Mild, Victim
  <1>2. ASSUME ~overlap PROVE KeepShared' /\ \A q \in Proc : KeepLocal(q)'
    <2>1. \A q \in Proc : Fits(pc[q], op[q]) /\ Fits(pc[q], op[q])'
      BY DEF LockInv
    <2>2. \A q \in Proc : op'[q] \in Writes => op'[q] = op[q]
      BY <2>1 DEF Mild, Fits, Writes
    <2>3. KeepShared'
      BY <1>2, <2>2 DEF KeepInv, KeepShared, Stored, Writes
    <2>4. ASSUME NEW q \in Proc PROVE KeepLocal(q)'
      <3>1. KeepLocal(q) /\ Fits(pc[q], op[q]) /\ Mild(q)
        BY <1>2, <2>1 DEF KeepInv
      <3>2. CASE op'[q] \notin Writes \cup {"commit"} \/ pc'[q] = "saveObject"
        <4>1. pc'[q] = "saveObject" => op'[q] = "commit"
          BY <2>1 DEF Fits
        <4> QED BY <3>2, <4>1 DEF KeepLocal, Writes
      <3>3. CASE op'[q] \in Writes \cup {"commit"} /\ pc'[q] # "saveObject"
        <4>1. pc[q] = "notify" => op[q] \in Writes
          BY <3>1 DEF Fits
        <4>2. /\ op'[q] = op[q] /\ pack'[q] = pack[q] /\ obj'[q] = obj[q]
              /\ pc'[q] = "notify" => pc[q] = "notify"
              /\ pc'[q] = "setRef" => pc[q] \in {"setRef", "notify"}
              /\ pc'[q] \in Deleting => pc[q] \in Deleting \cup {"notify"}
              /\ pc'[q] \notin {"walk", "done"} => pc[q] \notin {"walk", "done"}
          BY <3>1, <3>3 DEF Mild
        <4>3. "commit" \notin Writes /\ "repack" \in Writes
          BY DEF Writes
        <4> QED BY <3>1, <4>1, <4>2, <4>3 DEF KeepLocal
      <3> QED BY <3>2, <3>3
    <2> QED BY <2>3, <2>4
  <1> QED BY <1>1, <1>2 DEF KeepInv

LEMMA SameMild ==
    ASSUME NEW q, pc'[q] = pc[q], op'[q] = op[q], snap'[q] = snap[q],
           pack'[q] = pack[q], obj'[q] = obj[q]
    PROVE  Mild(q)
  BY DEF Mild

\* p goes to stage s.
KeepMove(p, s) ==
    /\ s \in Victims => pc[p] \in Victims
    /\ op[p] \in Writes \cup {"commit"} =>
          /\ s = "notify" => pc[p] = "notify"
          /\ s = "setRef" => pc[p] \in {"setRef", "notify"}
          /\ s \in Deleting => pc[p] \in Deleting \cup {"notify"}
          /\ s \notin {"walk", "done"} => pc[p] \notin {"walk", "done"}

LEMMA PlainKeep ==
    ASSUME LockInv, LockInv', KeepInv, NEW p \in Proc, NEW s, GoTo(p, s), KeepMove(p, s),
           UNCHANGED <<op, obj, pack, snap, files, loose, needed, overlap>>
    PROVE  KeepInv'
  <1>1. pc'[p] = s /\ \A q \in Proc \ {p} : pc'[q] = pc[q]
    BY DEF LockInv, LockTypes, GoTo
  <1>2. Mild(p)
    BY <1>1 DEF Mild, KeepMove
  <1>3. \A q \in Proc \ {p} : Mild(q)
    BY <1>1, SameMild
  <1> QED BY <1>2, <1>3, KeepMild

\* p does nothing a repack could depend on.
LEMMA FreeKeep ==
    ASSUME LockInv, LockInv', KeepInv, NEW p \in Proc, Elsewhere(p),
           op'[p] \notin Writes \cup {"commit"} \/ pc'[p] = "saveObject",
           UNCHANGED <<files, loose, needed, overlap>>
    PROVE  KeepInv'
  <1>1. Fits(pc[p], op[p])' /\ "repack" \in Writes
    BY DEF LockInv, Writes
  <1>2. pc'[p] \notin Victims
    BY <1>1 DEF Fits, Victims
  <1>3. Mild(p)
    BY <1>2 DEF Mild
  <1>4. \A q \in Proc \ {p} : Mild(q)
    BY SameMild DEF Elsewhere
  <1> QED BY <1>3, <1>4, KeepMild

\* The leader and those who wait leave.
LEMMA KeepEnds ==
    ASSUME LockInv, LockInv', KeepInv, NEW p \in Proc, NEW ok, NEW stale,
           EndFlight(p, ok, stale), pc[p] \in Leading,
           UNCHANGED <<op, obj, pack, snap, files, loose, needed, overlap>>
    PROVE  KeepInv'
  <1> DEFINE told == {q \in Proc : q = p \/ (pc[q] = "join" /\ Key(q) = Key(p))}
             after(q) == IF ok THEN AfterIndex(q) ELSE AfterIndexError(q)
  <1>1. pc' = [q \in Proc |-> IF q \in told THEN after(q) ELSE pc[q]]
    BY DEF EndFlight
  <1>2. \A q \in told : after(q) \in {"snapshot", "newPack", "list", "done", "loose"}
    BY IndexStages
  <1>3. \A q \in told : pc[q] \notin {"walk", "done"}
    BY DEF Leading
  <1> HIDE DEF after, told
  <1>4. \A q \in Proc : Mild(q)
    <2> SUFFICES ASSUME NEW q \in Proc PROVE Mild(q)
      OBVIOUS
    <2>1. CASE q \notin told
      BY <1>1, <2>1, SameMild
    <2>2. CASE q \in told
      BY <1>1, <1>2, <1>3, <2>2 DEF Mild, Victims, Deleting
    <2> QED BY <2>1, <2>2
  <1> QED BY <1>4, KeepMild

\* The other goroutines while p changes the disk.
LEMMA VictimsElsewhere ==
    ASSUME KeepInv, NEW p \in Proc, Elsewhere(p), (pc[p] \in Victims => Victim(p) # pack[p])'
    PROVE  \A q \in Proc : (pc[q] \in Victims => Victim(q) # pack[q])'
  BY DEF KeepInv, Elsewhere, Victim

\* More is stored, and as much needed.
LEMMA KeepGrows ==
    ASSUME KeepInv, NEW p, Elsewhere(p), ~overlap, files \subseteq files',
           loose \subseteq loose', needed' = needed
    PROVE  \A q \in Proc \ {p} : KeepLocal(q)'
  <1> SUFFICES ASSUME NEW q \in Proc \ {p} PROVE KeepLocal(q)'
    OBVIOUS
  <1>1. KeepLocal(q)
    BY DEF KeepInv
  <1> QED BY <1>1 DEF KeepLocal, Elsewhere

LEMMA KeepAtStart ==
    ASSUME LockInv, LockInv', IndexInv, KeepInv, NEW p \in Proc, Start(p)
    PROVE  KeepInv'
  <1> USE DEF locals, locks, disk, memory, caches, history
  <1>1. IndexTypes /\ LockTypes
    BY DEF IndexInv, LockInv
  <1>2. ASSUME NEW o, NEW st, Call(p, o, st), o \notin Writes \cup {"commit"} \/ st = "saveObject",
               \A q \in Proc \ {p} : obj'[q] = obj[q],
               UNCHANGED <<snap, pack, files, loose, needed, overlap>>
        PROVE  KeepInv'
    <2>1. Elsewhere(p) /\ op'[p] = o /\ pc'[p] = st
      BY <1>1, <1>2 DEF Call, GoTo, LockTypes, Elsewhere
    <2> HIDE DEF locals, locks, disk, memory, caches, history
    <2> QED BY <1>2, <2>1, FreeKeep
  <1>3. ASSUME NEW o \in {"fetch", "repack"}, NEW st \in {"index", "walk"}, Call(p, o, st),
               o = "repack" => st = "walk",
               \A q \in Proc \ {p} : pack'[q] = pack[q],
               UNCHANGED <<snap, obj, files, loose, needed>>,
               ~overlap' => ~overlap /\ \A q \in Proc : op[q] # "repack" /\ (o = "repack" => op[q] \notin Writes)
        PROVE  KeepInv'
    <2>1. Elsewhere(p) /\ op'[p] = o /\ pc'[p] = st
      BY <1>1, <1>3 DEF Call, GoTo, LockTypes, Elsewhere
    <2>2. \A q \in Proc : (pc[q] \in Victims => Victim(q) # pack[q])'
      BY <2>1, VictimsElsewhere DEF Victims
    <2>3. ASSUME ~overlap' PROVE KeepShared' /\ \A q \in Proc : KeepLocal(q)'
      <3>1. ~overlap /\ \A q \in Proc : op[q] # "repack" /\ (o = "repack" => op[q] \notin Writes)
        BY <1>3, <2>3
      <3>2. KeepShared'
        BY <1>3, <2>1, <3>1 DEF KeepInv, KeepShared, Stored, Elsewhere, Writes
      <3>3. KeepLocal(p)'
        BY <1>3, <2>1 DEF KeepLocal, Deleting, Victims
      <3>4. \A q \in Proc \ {p} : KeepLocal(q)'
        BY <1>3, <2>1, <3>1, KeepGrows
      <3> QED BY <3>2, <3>3, <3>4
    <2> QED BY <2>2, <2>3 DEF KeepInv
  <1>4. CASE \E o \in Lookups, x \in Object : Lookup(p, o, x)
    <2>1. PICK o \in Lookups, x \in Object : Lookup(p, o, x)
      BY <1>4
    <2> DEFINE st == IF o = "delta" THEN "loose" ELSE "index"
    <2>2. /\ Call(p, o, st) /\ obj' = [obj EXCEPT ![p] = x]
          /\ UNCHANGED <<snap, pack, files, loose, needed, overlap>>
      BY <2>1 DEF Lookup
    <2>3. o \notin Writes \cup {"commit"}
      BY DEF Lookups, Writes
    <2>4. \A q \in Proc \ {p} : obj'[q] = obj[q]
      BY <1>1, <2>2 DEF IndexTypes
    <2> HIDE DEF st
    <2> QED BY <1>2, <2>2, <2>3, <2>4
  <1>5. CASE \E x \in Object : Commit(p, x)
    <2>1. PICK x \in Object : Commit(p, x)
      BY <1>5
    <2>2. /\ Call(p, "commit", "saveObject") /\ obj' = [obj EXCEPT ![p] = x]
          /\ UNCHANGED <<snap, pack, files, loose, needed, overlap>>
      BY <2>1 DEF Commit
    <2>3. \A q \in Proc \ {p} : obj'[q] = obj[q]
      BY <1>1, <2>2 DEF IndexTypes
    <2> QED BY <1>2, <2>2, <2>3
  <1>6. CASE Reindex(p)
    BY <1>6, <1>2 DEF Reindex, Writes
  <1>7. CASE Iterate(p)
    BY <1>7, <1>2 DEF Iterate, Writes
  <1>8. CASE AddAlternate(p)
    BY <1>8, <1>2 DEF AddAlternate, Writes
  <1>9. CASE \E k \in Packs : Fetch(p, k)
    <2>1. PICK k \in Packs : Fetch(p, k)
      BY <1>9
    <2>2. /\ Call(p, "fetch", "index") /\ pack' = [pack EXCEPT ![p] = k]
          /\ UNCHANGED <<snap, obj, files, loose, needed>>
          /\ overlap' = (overlap \/ \E q \in Proc : op[q] = "repack")
      BY <2>1 DEF Fetch
    <2>3. \A q \in Proc \ {p} : pack'[q] = pack[q]
      BY <1>1, <2>2 DEF IndexTypes
    <2> QED BY <1>3, <2>2, <2>3
  <1>10. CASE Repack(p)
    <2>1. /\ Call(p, "repack", "walk")
          /\ UNCHANGED <<snap, obj, pack, files, loose, needed>>
          /\ overlap' = (overlap \/ \E q \in Proc : op[q] \in Writes)
      BY <1>10 DEF Repack
    <2>2. "repack" \in Writes
      BY DEF Writes
    <2> QED BY <1>3, <2>1, <2>2
  <1> QED BY <1>4, <1>5, <1>6, <1>7, <1>8, <1>9, <1>10 DEF Start

LEMMA KeepAtStep ==
    ASSUME LockInv, LockInv', IndexInv, KeepInv, NEW p \in Proc, Step(p)
    PROVE  KeepInv'
  <1> USE DEF locals, locks, disk, memory, caches, history
  <1>1. IndexTypes /\ LockTypes /\ Fits(pc[p], op[p])
    BY DEF IndexInv, LockInv
  <1>2. ASSUME NEW st, GoTo(p, st), KeepMove(p, st), UNCHANGED <<op, obj, pack, snap>>,
               UNCHANGED <<files, loose, needed, overlap>>
        PROVE  KeepInv'
    BY <1>2, PlainKeep
  <1>3. KeepMove(p, "done")
    BY DEF KeepMove, Victims, Deleting
  <1>4. ASSUME NEW r, Return(p, r), UNCHANGED <<op, obj, pack, snap>>,
               UNCHANGED <<files, loose, needed, overlap>>
        PROVE  KeepInv'
    BY <1>2, <1>3, <1>4 DEF Return
  <1>5. CASE Join(p)
    BY <1>5, <1>2 DEF Join, KeepMove, Victims, Deleting
  <1>6. CASE Lead(p)
    BY <1>6, <1>2 DEF Lead, KeepMove, Victims, Deleting
  <1>7. CASE LockWriters(p)
    BY <1>7, <1>2 DEF LockWriters, KeepMove, Victims, Deleting
  <1>8. CASE LoadIndexes(p)
    BY <1>8, <1>2 DEF LoadIndexes, KeepMove, Victims, Deleting
  <1>9. CASE NewObjectPack(p)
    BY <1>9, <1>2 DEF NewObjectPack, KeepMove, Victims, Deleting, CleanPackList
  <1>10. CASE Notify(p)
    BY <1>10, <1>2 DEF Notify, KeepMove, Victims, Deleting
  <1>11. CASE DeletePack(p)
    BY <1>11, <1>2 DEF DeletePack, KeepMove, Victims, Deleting, CleanPackList
  <1>12. CASE TooNew(p)
    BY <1>12, <1>2 DEF TooNew, KeepMove, Victims, Deleting
  <1>13. CASE DropEntry(p)
    BY <1>13, <1>2 DEF DropEntry, KeepMove, Victims, Deleting
  <1>14. CASE InstallKnown(p)
    BY <1>14, <1>2 DEF InstallKnown, KeepMove, Victims, Deleting
  <1>15. CASE InstallLock(p)
    BY <1>15, <1>2 DEF InstallLock, KeepMove, Victims, Deleting
  <1>16. CASE ListPacks(p)
    BY <1>16, <1>2 DEF ListPacks, KeepMove, Victims, Deleting
  <1>17. CASE IndexReady(p)
    <2>1. KeepMove(p, AfterIndex(p))
      BY <1>17, IndexStages DEF IndexReady, KeepMove, Victims, Deleting
    <2> QED BY <1>17, <1>2, <2>1 DEF IndexReady
  <1>18. CASE ResetAlternates(p)
    BY <1>18, <1>4 DEF ResetAlternates
  <1>19. CASE SaveFails(p)
    BY <1>19, <1>4 DEF SaveFails
  <1>20. CASE DeleteDone(p)
    BY <1>20, <1>4 DEF DeleteDone
  <1>21. CASE CacheHit(p)
    BY <1>21, <1>4 DEF CacheHit
  <1>22. CASE LooseHit(p)
    BY <1>22, <1>4 DEF LooseHit
  <1>23. CASE ProbeMiss(p)
    BY <1>23, <1>2, <1>4 DEF ProbeMiss, KeepMove, Victims, Deleting
  <1>24. CASE GetHandle(p)
    BY <1>24, <1>2, <1>4 DEF GetHandle, KeepMove, Victims, Deleting
  <1>25. CASE OpenPack(p)
    BY <1>25, <1>2, <1>4 DEF OpenPack, KeepMove, Victims, Deleting
  <1>26. CASE ReadPack(p)
    BY <1>26, <1>2, <1>4 DEF ReadPack, KeepMove, Victims, Deleting
  <1>27. CASE LooseMiss(p)
    <2>1. pc[p] = "loose" /\ UNCHANGED <<op, obj, pack, snap, files, loose, needed, overlap>>
      BY <1>27 DEF LooseMiss
    <2>2. (\E r : Return(p, r)) \/ GoTo(p, "alternates") \/ GoTo(p, "index")
      <3>1. CASE op[p] = "delta"
        BY <1>27, <3>1 DEF LooseMiss
      <3>2. CASE op[p] # "delta"
        BY <1>27, <3>2 DEF LooseMiss
      <3> QED BY <3>1, <3>2
    <2>3. KeepMove(p, "alternates") /\ KeepMove(p, "index")
      BY <2>1 DEF KeepMove, Victims, Deleting
    <2> QED BY <1>2, <1>4, <2>1, <2>2, <2>3
  <1>28. CASE FindInAlternates(p)
    <2>1. /\ UNCHANGED <<op, obj, pack, snap, files, loose, needed, overlap>>
          /\ \E r : Return(p, r)
      BY <1>28 DEF FindInAlternates
    <2> QED BY <1>4, <2>1
  <1>29. CASE InstallIdx(p)
    <2>1. UNCHANGED <<op, obj, pack, snap, files, loose, needed, overlap>> /\ pc[p] = "installIdx"
      BY <1>29 DEF InstallIdx
    <2>2. GoTo(p, "nextPack") \/ GoTo(p, "done")
      BY <1>29 DEF InstallIdx, Return
    <2>3. KeepMove(p, "nextPack")
      BY <2>1 DEF KeepMove, Victims, Deleting
    <2> QED BY <1>2, <1>3, <2>1, <2>2, <2>3
  <1>30. CASE Recheck(p)
    <2>1. UNCHANGED <<op, obj, pack, snap, files, loose, needed, overlap>> /\ pc[p] = "recheck"
      BY <1>30 DEF Recheck
    <2>2. CASE GoTo(p, "lock")
      BY <1>2, <2>1, <2>2 DEF KeepMove, Victims, Deleting
    <2>3. CASE EndFlight(p, TRUE, {})
      BY <2>1, <2>3, KeepEnds DEF Leading
    <2> QED BY <1>30, <2>2, <2>3 DEF Recheck
  <1>31. CASE LoadFails(p)
    <2>1. UNCHANGED <<op, obj, pack, snap, files, loose, needed, overlap>>
          /\ pc[p] \in Leading /\ EndFlight(p, FALSE, {})
      BY <1>31 DEF LoadFails, Leading
    <2> QED BY <2>1, KeepEnds
  <1>32. CASE Publish(p)
    <2>1. UNCHANGED <<op, obj, pack, snap, files, loose, needed, overlap>>
          /\ pc[p] \in Leading /\ \E stale : EndFlight(p, TRUE, stale)
      BY <1>32 DEF Publish, Leading
    <2> QED BY <2>1, KeepEnds
  <1>33. CASE ScanPacks(p)
    <2>1. /\ UNCHANGED <<op, obj, pack, files, loose, needed, overlap>> /\ pc[p] = "scan"
          /\ GoTo(p, "load") /\ \E t : snap' = [snap EXCEPT ![p] = t]
      BY <1>33 DEF ScanPacks
    <2>2. pc'[p] = "load" /\ Elsewhere(p)
      BY <1>1, <2>1 DEF GoTo, LockTypes, IndexTypes, Elsewhere
    <2>3. Mild(p)
      BY <2>1, <2>2 DEF Mild, Victims, Deleting
    <2>4. \A q \in Proc \ {p} : Mild(q)
      BY <2>2, SameMild DEF Elsewhere
    <2> QED BY <2>1, <2>3, <2>4, KeepMild
  <1>34. CASE Snapshot(p)
    <2>1. /\ UNCHANGED <<op, obj, pack, files, loose, needed, overlap>> /\ pc[p] = "snapshot"
          /\ GoTo(p, "probe") /\ snap' = [snap EXCEPT ![p] = packs]
      BY <1>34 DEF Snapshot
    <2>2. Elsewhere(p)
      BY <1>1, <2>1 DEF GoTo, LockTypes, IndexTypes, Elsewhere
    <2>3. op'[p] \notin Writes \cup {"commit"}
      BY <1>1, <2>1 DEF Fits, Lookups, Writes
    <2> QED BY <2>1, <2>2, <2>3, FreeKeep
  <1>35. CASE ProbeHit(p)
    <2>1. /\ UNCHANGED <<op, obj, snap, files, loose, needed, overlap>> /\ pc[p] = "probe"
          /\ \E stage : GoTo(p, stage)
          /\ \E k : pack' = [pack EXCEPT ![p] = k]
      BY <1>35 DEF ProbeHit, Return
    <2>2. Elsewhere(p)
      BY <1>1, <2>1 DEF GoTo, LockTypes, IndexTypes, Elsewhere
    <2>3. op'[p] \notin Writes \cup {"commit"}
      BY <1>1, <2>1 DEF Fits, Lookups, Writes
    <2> QED BY <2>1, <2>2, <2>3, FreeKeep
  <1>36. CASE NextPack(p)
    <2>1. /\ UNCHANGED <<op, obj, snap, files, loose, needed, overlap>> /\ pc[p] = "nextPack"
      BY <1>36 DEF NextPack
    <2>2. Elsewhere(p)
      BY <1>36, <1>1, <2>1 DEF NextPack, Return, GoTo, LockTypes, IndexTypes, Elsewhere
    <2>3. op'[p] \notin Writes \cup {"commit"}
      BY <1>1, <2>1 DEF Fits, Writes
    <2> QED BY <2>1, <2>2, <2>3, FreeKeep
  <1>37. CASE Finish(p)
    <2>1. UNCHANGED <<files, loose, needed, overlap>>
      BY <1>37 DEF Finish
    <2>2. Elsewhere(p) /\ op'[p] = None
      BY <1>37, <1>1 DEF Finish, GoTo, LockTypes, IndexTypes, Elsewhere
    <2>3. None \notin Writes \cup {"commit"}
      BY StorageAssumption DEF Others
    <2> QED BY <2>1, <2>2, <2>3, FreeKeep
  <1>38. CASE WalkAllRefs(p)
    <2>1. /\ UNCHANGED <<op, obj, snap, files, loose, needed, overlap>> /\ pc[p] = "walk"
          /\ GoTo(p, "index") /\ pack' = [pack EXCEPT ![p] = needed \cap Stored]
      BY <1>38 DEF WalkAllRefs
    <2>2. Elsewhere(p) /\ pc'[p] = "index" /\ pack'[p] = needed \cap Stored
      BY <1>1, <2>1 DEF GoTo, LockTypes, IndexTypes, Elsewhere
    <2>3. \A q \in Proc : (pc[q] \in Victims => Victim(q) # pack[q])'
      BY <2>2, VictimsElsewhere DEF Victims
    <2>4. ASSUME ~overlap' PROVE KeepShared' /\ \A q \in Proc : KeepLocal(q)'
      <3>1. ~overlap /\ KeepShared /\ op[p] = "repack"
        BY <1>1, <2>1, <2>4 DEF KeepInv, Fits
      <3>2. KeepShared'
        BY <2>1, <3>1 DEF KeepShared, Stored
      <3>3. KeepLocal(p)'
        <4>1. pack'[p] = needed
          BY <2>2, <3>1 DEF KeepShared
        <4> QED BY <2>1, <2>2, <3>1, <4>1 DEF KeepLocal, Deleting, Victims
      <3>4. \A q \in Proc \ {p} : KeepLocal(q)'
        BY <2>1, <2>2, <3>1, KeepGrows
      <3> QED BY <3>2, <3>3, <3>4
    <2> QED BY <2>3, <2>4 DEF KeepInv
  <1>39. CASE SaveObject(p)
    <2>1. /\ UNCHANGED <<op, obj, pack, snap, files, needed, overlap>> /\ pc[p] = "saveObject"
          /\ GoTo(p, "setRef") /\ loose' = loose \cup {obj[p]}
      BY <1>39 DEF SaveObject
    <2>2. Elsewhere(p) /\ pc'[p] = "setRef" /\ op[p] = "commit"
      BY <1>1, <2>1 DEF GoTo, LockTypes, Elsewhere, Fits
    <2>3. \A q \in Proc : (pc[q] \in Victims => Victim(q) # pack[q])'
      BY <2>2, VictimsElsewhere DEF Victims
    <2>4. ASSUME ~overlap' PROVE KeepShared' /\ \A q \in Proc : KeepLocal(q)'
      <3>1. ~overlap /\ KeepShared
        BY <2>1, <2>4 DEF KeepInv
      <3>2. KeepShared'
        BY <2>1, <3>1 DEF KeepShared, Stored
      <3>3. KeepLocal(p)'
        BY <2>1, <2>2 DEF KeepLocal, Writes
      <3>4. \A q \in Proc \ {p} : KeepLocal(q)'
        BY <2>1, <2>2, <3>1, KeepGrows
      <3> QED BY <3>2, <3>3, <3>4
    <2> QED BY <2>3, <2>4 DEF KeepInv
  <1>40. CASE SetReference(p)
    <2> DEFINE new == IF op[p] = "commit" THEN {obj[p]} ELSE pack[p]
    <2>1. /\ UNCHANGED <<op, obj, pack, snap, files, loose, overlap>> /\ pc[p] = "setRef"
          /\ GoTo(p, "done") /\ needed' = needed \cup new
      BY <1>40 DEF SetReference, Return
    <2>2. Elsewhere(p) /\ pc'[p] = "done" /\ op[p] \in {"commit", "fetch"}
      BY <1>1, <2>1 DEF GoTo, LockTypes, Elsewhere, Fits
    <2>3. \A q \in Proc : (pc[q] \in Victims => Victim(q) # pack[q])'
      BY <2>2, VictimsElsewhere DEF Victims
    <2>4. ASSUME ~overlap' PROVE KeepShared' /\ \A q \in Proc : KeepLocal(q)'
      <3>1. ~overlap /\ KeepShared /\ KeepLocal(p)
        BY <2>1, <2>4 DEF KeepInv
      <3>2. CASE op[p] = "commit"
        <4>1. obj[p] \in loose \cup needed /\ needed' = needed \cup {obj[p]}
          BY <2>1, <3>1, <3>2 DEF KeepLocal
        <4>2. KeepShared'
          BY <2>1, <3>1, <4>1 DEF KeepShared, Stored
        <4>3. KeepLocal(p)'
          BY <2>1, <2>2, <3>2 DEF KeepLocal, Writes
        <4>4. ASSUME NEW q \in Proc \ {p} PROVE KeepLocal(q)'
          <5>1. KeepLocal(q)
            BY <3>1 DEF KeepInv
          <5> QED BY <2>1, <2>2, <4>1, <5>1 DEF KeepLocal, Elsewhere
        <4> QED BY <4>2, <4>3, <4>4
      <3>3. CASE op[p] = "fetch"
        <4>1. pack[p] \in files /\ needed' = needed \cup pack[p]
          BY <2>1, <3>1, <3>3 DEF KeepLocal, Writes
        <4>2. KeepShared'
          BY <2>1, <3>1, <4>1 DEF KeepShared, Stored
        <4>3. \A q \in Proc : op[q] # "repack"
          BY <3>1, <3>3 DEF KeepShared, Writes
        <4>4. KeepLocal(p)'
          BY <2>1, <2>2, <3>3 DEF KeepLocal
        <4>5. ASSUME NEW q \in Proc \ {p} PROVE KeepLocal(q)'
          <5>1. KeepLocal(q)
            BY <3>1 DEF KeepInv
          <5> QED BY <2>1, <2>2, <4>1, <4>3, <5>1 DEF KeepLocal, Elsewhere
        <4> QED BY <4>2, <4>4, <4>5
      <3> QED BY <2>2, <3>2, <3>3
    <2> QED BY <2>3, <2>4 DEF KeepInv
  <1>41. CASE SavePack(p)
    <2>1. /\ UNCHANGED <<op, obj, pack, snap, loose, needed, overlap>> /\ pc[p] = "savePack"
          /\ GoTo(p, IF pack[p] # {} THEN "notify" ELSE "prune")
          /\ files' = files \cup ({pack[p]} \ {{}})
      BY <1>41 DEF SavePack
    <2>2. Elsewhere(p) /\ pc'[p] = (IF pack[p] # {} THEN "notify" ELSE "prune") /\ op[p] \in Writes
      BY <1>1, <2>1 DEF GoTo, LockTypes, Elsewhere, Fits
    <2>3. \A q \in Proc : (pc[q] \in Victims => Victim(q) # pack[q])'
      BY <2>2, VictimsElsewhere DEF Victims
    <2>4. ASSUME ~overlap' PROVE KeepShared' /\ \A q \in Proc : KeepLocal(q)'
      <3>1. ~overlap /\ KeepShared /\ KeepLocal(p)
        BY <2>1, <2>4 DEF KeepInv
      <3>2. KeepShared'
        BY <2>1, <3>1 DEF KeepShared, Stored
      <3>3. KeepLocal(p)'
        BY <2>1, <2>2, <3>1 DEF KeepLocal, Writes
      <3>4. \A q \in Proc \ {p} : KeepLocal(q)'
        BY <2>1, <2>2, <3>1, KeepGrows
      <3> QED BY <3>2, <3>3, <3>4
    <2> QED BY <2>3, <2>4 DEF KeepInv
  <1>42. CASE PruneLoose(p)
    <2>1. /\ UNCHANGED <<op, obj, pack, snap, files, needed, overlap>> /\ pc[p] = "prune"
          /\ GoTo(p, "deleteNext") /\ loose' = loose \ pack[p]
      BY <1>42 DEF PruneLoose
    <2>2. Elsewhere(p) /\ pc'[p] = "deleteNext" /\ op[p] = "repack"
      BY <1>1, <2>1 DEF GoTo, LockTypes, Elsewhere, Fits
    <2>3. \A q \in Proc : (pc[q] \in Victims => Victim(q) # pack[q])'
      BY <2>2, VictimsElsewhere DEF Victims
    <2>4. ASSUME ~overlap' PROVE KeepShared' /\ \A q \in Proc : KeepLocal(q)'
      <3>1. ~overlap /\ KeepShared /\ KeepLocal(p)
        BY <2>1, <2>4 DEF KeepInv
      <3>2. /\ pack[p] \subseteq needed /\ needed \subseteq loose \cup pack[p]
            /\ pack[p] \in files \cup {{}}
        BY <2>1, <2>2, <3>1 DEF KeepLocal, Deleting
      <3>3. KeepShared'
        BY <2>1, <3>1, <3>2 DEF KeepShared, Stored
      <3>4. KeepLocal(p)'
        BY <2>1, <2>2, <3>1, <3>2 DEF KeepLocal, Deleting
      <3>5. ASSUME NEW q \in Proc \ {p} PROVE KeepLocal(q)'
        <4>1. KeepLocal(q) /\ op[q] # "repack"
          BY <2>2, <3>1 DEF KeepInv, KeepShared, Writes
        <4> QED BY <2>1, <2>2, <3>2, <4>1 DEF KeepLocal, Elsewhere
      <3> QED BY <3>3, <3>4, <3>5
    <2> QED BY <2>3, <2>4 DEF KeepInv
  <1>43. CASE LockDelete(p)
    <2>1. PICK k \in todo[p] \ {pack[p]} : snap' = [snap EXCEPT ![p] = <<k>>]
      BY <1>43 DEF LockDelete
    <2>2. /\ UNCHANGED <<op, obj, pack, files, loose, needed, overlap>> /\ pc[p] = "deleteNext"
          /\ GoTo(p, "delete")
      BY <1>43 DEF LockDelete
    <2>3. Elsewhere(p) /\ pc'[p] = "delete" /\ op[p] = "repack" /\ snap'[p] = <<k>>
      BY <1>1, <2>1, <2>2 DEF GoTo, LockTypes, IndexTypes, Elsewhere, Fits
    <2>4. Victim(p)' = k
      BY <2>3 DEF Victim, Last
    <2>5. \A q \in Proc : (pc[q] \in Victims => Victim(q) # pack[q])'
      BY <2>2, <2>3, <2>4, VictimsElsewhere
    <2>6. ASSUME ~overlap' PROVE KeepShared' /\ \A q \in Proc : KeepLocal(q)'
      <3>1. ~overlap /\ KeepShared /\ KeepLocal(p)
        BY <2>2, <2>6 DEF KeepInv
      <3>2. KeepShared'
        BY <2>2, <3>1 DEF KeepShared, Stored
      <3>3. KeepLocal(p)'
        BY <2>2, <2>3, <3>1 DEF KeepLocal, Deleting, Victims
      <3>4. \A q \in Proc \ {p} : KeepLocal(q)'
        BY <2>2, <2>3, <3>1, KeepGrows
      <3> QED BY <3>2, <3>3, <3>4
    <2> QED BY <2>5, <2>6 DEF KeepInv
  <1>44. CASE Unlink(p)
    <2>1. /\ UNCHANGED <<op, obj, pack, snap, loose, needed, overlap>> /\ pc[p] = "unlink"
          /\ GoTo(p, "drop") /\ \E gone \in {{}, {Victim(p)}} : files' = files \ gone
      BY <1>44 DEF Unlink
    <2>2. Elsewhere(p) /\ pc'[p] = "drop" /\ op[p] = "repack"
      BY <1>1, <2>1 DEF GoTo, LockTypes, Elsewhere, Fits
    <2>3. Victim(p)' = Victim(p) /\ Victim(p) # pack[p]
      BY <2>1 DEF Victim, KeepInv, Victims
    <2>4. \A q \in Proc : (pc[q] \in Victims => Victim(q) # pack[q])'
      BY <2>1, <2>2, <2>3, VictimsElsewhere
    <2>5. ASSUME ~overlap' PROVE KeepShared' /\ \A q \in Proc : KeepLocal(q)'
      <3>1. ~overlap /\ KeepShared /\ KeepLocal(p)
        BY <2>1, <2>5 DEF KeepInv
      <3>2. /\ pack[p] \subseteq needed /\ needed \subseteq loose \cup pack[p]
            /\ pack[p] \in files' \cup {{}}
        BY <2>1, <2>2, <2>3, <3>1 DEF KeepLocal, Deleting, Victims
      <3>3. KeepShared'
        BY <2>1, <3>1, <3>2 DEF KeepShared, Stored
      <3>4. KeepLocal(p)'
        BY <2>1, <2>2, <3>2 DEF KeepLocal
      <3>5. ASSUME NEW q \in Proc \ {p} PROVE KeepLocal(q)'
        <4>1. KeepLocal(q) /\ op[q] \notin Writes
          BY <2>2, <3>1 DEF KeepInv, KeepShared
        <4> QED BY <2>1, <2>2, <4>1 DEF KeepLocal, Elsewhere, Writes
      <3> QED BY <3>3, <3>4, <3>5
    <2> QED BY <2>4, <2>5 DEF KeepInv
  <1>45. CASE UnlinkFails(p)
    <2>1. /\ UNCHANGED <<op, obj, pack, snap, loose, needed, overlap>> /\ pc[p] = "unlink"
          /\ GoTo(p, "done") /\ \E gone \in {{}, {Victim(p)}} : files' = files \ gone
      BY <1>45 DEF UnlinkFails, Return
    <2>2. Elsewhere(p) /\ pc'[p] = "done" /\ op[p] = "repack"
      BY <1>1, <2>1 DEF GoTo, LockTypes, Elsewhere, Fits
    <2>3. Victim(p)' = Victim(p) /\ Victim(p) # pack[p]
      BY <2>1 DEF Victim, KeepInv, Victims
    <2>4. \A q \in Proc : (pc[q] \in Victims => Victim(q) # pack[q])'
      BY <2>1, <2>2, <2>3, VictimsElsewhere
    <2>5. ASSUME ~overlap' PROVE KeepShared' /\ \A q \in Proc : KeepLocal(q)'
      <3>1. ~overlap /\ KeepShared /\ KeepLocal(p)
        BY <2>1, <2>5 DEF KeepInv
      <3>2. /\ pack[p] \subseteq needed /\ needed \subseteq loose \cup pack[p]
            /\ pack[p] \in files' \cup {{}}
        BY <2>1, <2>2, <2>3, <3>1 DEF KeepLocal, Deleting, Victims
      <3>3. KeepShared'
        BY <2>1, <3>1, <3>2 DEF KeepShared, Stored
      <3>4. KeepLocal(p)'
        BY <2>1, <2>2, <3>2 DEF KeepLocal
      <3>5. ASSUME NEW q \in Proc \ {p} PROVE KeepLocal(q)'
        <4>1. KeepLocal(q) /\ op[q] \notin Writes
          BY <2>2, <3>1 DEF KeepInv, KeepShared
        <4> QED BY <2>1, <2>2, <4>1 DEF KeepLocal, Elsewhere, Writes
      <3> QED BY <3>3, <3>4, <3>5
    <2> QED BY <2>4, <2>5 DEF KeepInv
  <1>46. CASE ListFails(p)
    BY <1>46, <1>4 DEF ListFails
  <1> QED BY <1>5, <1>6, <1>7, <1>8, <1>9, <1>10, <1>11, <1>12, <1>13, <1>14, <1>15, <1>16, <1>17, <1>18, <1>19, <1>20, <1>21, <1>22, <1>23, <1>24, <1>25, <1>26, <1>27, <1>28, <1>29, <1>30, <1>31, <1>32, <1>33, <1>34, <1>35, <1>36, <1>37, <1>38, <1>39, <1>40, <1>41, <1>42, <1>43, <1>44, <1>45, <1>46 DEF Step

LEMMA KeepAtInit == Init => KeepInv
  <1> SUFFICES ASSUME Init PROVE KeepInv
    OBVIOUS
  <1>1. None \notin Writes \cup {"commit"} /\ "repack" \in Writes
    BY StorageAssumption DEF Writes, Others
  <1>2. needed \subseteq Stored
    BY DEF Init
  <1> QED BY <1>1, <1>2 DEF Init, KeepInv, KeepShared, KeepLocal, Victims

LEMMA KeepAtNext == LockInv /\ LockInv' /\ IndexInv /\ KeepInv /\ [Next]_vars => KeepInv'
  <1> SUFFICES ASSUME LockInv, LockInv', IndexInv, KeepInv, [Next]_vars PROVE KeepInv'
    OBVIOUS
  <1> USE DEF locals, locks, disk, memory, caches, history
  <1>1. ASSUME UNCHANGED <<pc, op, snap, pack>>
        PROVE  \A q \in Proc : (pc[q] \in Victims => Victim(q) # pack[q])'
    BY <1>1 DEF KeepInv, Victim
  <1>2. CASE \E k \in Packs : ExternalAdd(k)
    <2>1. UNCHANGED <<pc, op, obj, pack, snap, loose, needed, overlap>> /\ files \subseteq files'
      BY <1>2 DEF ExternalAdd
    <2>2. ASSUME ~overlap' PROVE KeepShared' /\ \A q \in Proc : KeepLocal(q)'
      <3>1. ~overlap /\ KeepShared /\ \A q \in Proc : KeepLocal(q)
        BY <2>1, <2>2 DEF KeepInv
      <3>2. KeepShared'
        BY <2>1, <3>1 DEF KeepShared, Stored
      <3> QED BY <2>1, <3>1, <3>2 DEF KeepLocal
    <2> QED BY <1>1, <2>1, <2>2 DEF KeepInv
  <1>3. CASE \E k \in Packs : ExternalRemove(k)
    <2>1. /\ UNCHANGED <<pc, op, obj, pack, snap, loose, needed, overlap>>
          /\ \A q \in Proc : op[q] \notin Writes
          /\ needed \subseteq loose \cup UNION files'
      BY <1>3 DEF ExternalRemove
    <2>2. ASSUME ~overlap' PROVE KeepShared' /\ \A q \in Proc : KeepLocal(q)'
      <3>1. ~overlap /\ KeepShared /\ \A q \in Proc : KeepLocal(q)
        BY <2>1, <2>2 DEF KeepInv
      <3>2. KeepShared'
        BY <2>1, <3>1 DEF KeepShared, Stored
      <3> QED BY <2>1, <3>1, <3>2 DEF KeepLocal, Writes
    <2> QED BY <1>1, <2>1, <2>2 DEF KeepInv
  <1>4. CASE UNCHANGED vars
    <2>1. \A q \in Proc : Mild(q)
      BY <1>4, SameMild DEF vars
    <2> QED BY <1>4, <2>1, KeepMild DEF vars
  <1> QED BY <1>2, <1>3, <1>4, KeepAtStart, KeepAtStep DEF Next, Quiet

\* NothingLost for any goroutines, packs and calls: while no fetch and no second
\* repack overlaps it, RepackObjects leaves everything the references reach stored.
THEOREM RepackLosesNothing == Spec => []NothingLost
  <1>1. KeepInv => NothingLost
    BY DEF KeepInv, KeepShared, NothingLost
  <1> QED BY <1>1, LocksAtInit, LocksAtNext, IndexAtInit, IndexAtNext, KeepAtInit,
             KeepAtNext, PTL DEF Spec

-----------------------------------------------------------------------------
(* What a lookup must find.                                                 *)

Entries == IF index = None THEN {} ELSE index
Waits   == {"index", "join", "snapshot"} \cup Leading

\* The packs of S that have x are on disk and listed.
Sound(x, S) == \A k \in S : x \in k => k \in files \cap Catalog

\* x is where a lookup looks after the packs.
InLoose(x) == x \in loose /\ (exclusive => x \in ObjectList)
InAlts(o, x) ==
    /\ o # "delta" /\ (exclusive => o # "has") /\ x \in AltObjects
    /\ alts # None => \E i \in DOMAIN alts : x \in alts[i]
Aside(o, x) == o # "delta" /\ (InLoose(x) \/ InAlts(o, x))

\* The object of a lookup is in a place the lookup has not passed yet, and no entry
\* of the index leads it astray.
Present(p) ==
    /\ pc[p] \in Waits =>
          Sound(obj[p], Entries) /\ (InSome(obj[p], published) \/ Aside(op[p], obj[p]))
    /\ pc[p] = "loose" =>
          IF op[p] = "delta"
          THEN Sound(obj[p], Entries) /\ (InSome(obj[p], published) \/ InLoose(obj[p]))
          ELSE Aside(op[p], obj[p])
    /\ pc[p] = "probe" =>
          /\ Sound(obj[p], Range(snap[p]))
          /\ InSome(obj[p], Range(snap[p])) \/ Aside(op[p], obj[p])
    /\ pc[p] \in Reads => obj[p] \in pack[p] /\ pack[p] \in files \cap Catalog
    /\ pc[p] \in {"open", "read"} => held[p] = "open"
    /\ pc[p] = "alternates" => InAlts(op[p], obj[p])
    /\ pc[p] = "done" => res[p] = "found"

Owed(p) == op[p] \in Lookups /\ steady[p] /\ ~upset[p]

PresentTypes ==
    /\ steady \in [Proc -> BOOLEAN] /\ upset \in [Proc -> BOOLEAN]
    /\ idxErr \in [Proc -> BOOLEAN] /\ DOMAIN held = Proc /\ DOMAIN res = Proc
    /\ \A p \in Proc : idxErr[p] => upset[p]

\* The alternates in memory are those of the file, or about to be dropped.
AltsKnown ==
    \/ alts = None \/ \E q \in Proc : pc[q] = "resetAlts"
    \/ \A x \in AltObjects : \E i \in DOMAIN alts : x \in alts[i]

PresentInv == PresentTypes /\ AltsKnown /\ \A p \in Proc : Owed(p) => Present(p)

\* A step takes x away from no place it is in.
Undisturbed(x) ==
    /\ \A k \in files \cap Catalog : x \in k => k \in files' \cap Catalog'
    /\ \A k \in Entries' : x \in k => k \in Entries \/ k \in files' \cap Catalog'
    /\ \A k \in published : x \in k => k \in published'
    /\ InLoose(x) => InLoose(x)'
    /\ \A o : InAlts(o, x) => InAlts(o, x)'

\* What a step does to a goroutine that does not take it.
Still(q) ==
    /\ pc'[q] = pc[q] /\ op'[q] = op[q] /\ obj'[q] = obj[q] /\ snap'[q] = snap[q]
    /\ pack'[q] = pack[q] /\ res'[q] = res[q] /\ steady'[q] = steady[q]
Shielded(q) ==
    /\ upset[q] => upset'[q]
    /\ op[q] \in Lookups /\ pc[q] # "done" =>
          upset'[q] \/ (Undisturbed(obj[q]) /\ (held[q] = "open" => held'[q] = "open"))
Calm(p) == \A q \in Proc \ {p} : Still(q) /\ Shielded(q)

LEMMA SoundStays ==
    ASSUME NEW x, Undisturbed(x)
    PROVE  /\ Sound(x, Entries) => Sound(x, Entries)'
           /\ \A S : Sound(x, S) => \A k \in S : x \in k => k \in files' \cap Catalog'
           /\ InSome(x, published) => InSome(x, published)'
           /\ \A o : Aside(o, x) => Aside(o, x)'
  <1>1. Sound(x, Entries) => Sound(x, Entries)'
    BY DEF Undisturbed, Sound
  <1>2. InSome(x, published) => InSome(x, published)'
    BY DEF Undisturbed, InSome
  <1>3. \A o : Aside(o, x) => Aside(o, x)'
    BY DEF Undisturbed, Aside
  <1>4. \A S : Sound(x, S) => \A k \in S : x \in k => k \in files' \cap Catalog'
    BY DEF Undisturbed, Sound
  <1> QED BY <1>1, <1>2, <1>3, <1>4

LEMMA PresentStill ==
    ASSUME NEW q \in Proc, PresentTypes, PresentTypes', Owed(q) => Present(q), Still(q),
           Shielded(q), Owed(q)'
    PROVE  Present(q)'
  <1>1. Owed(q) /\ Present(q) /\ ~upset'[q] /\ op[q] \in Lookups
    BY DEF Owed, Still, Shielded, PresentTypes
  <1>2. CASE pc[q] = "done"
    BY <1>1, <1>2 DEF Still, Present, Waits, Leading, Reads
  <1>3. CASE pc[q] # "done"
    <2> SUFFICES ASSUME NEW x, x = obj[q], NEW o, o = op[q] PROVE Present(q)'
      OBVIOUS
    <2>1. Undisturbed(x) /\ (held[q] = "open" => held'[q] = "open")
      BY <1>1, <1>3 DEF Shielded
    <2>2. /\ Sound(x, Entries) => Sound(x, Entries)'
          /\ InSome(x, published) => InSome(x, published)'
          /\ InLoose(x) => InLoose(x)'
          /\ InAlts(o, x) => InAlts(o, x)'
          /\ Aside(o, x) => Aside(o, x)'
      BY <2>1, SoundStays DEF Undisturbed
    <2>3. obj'[q] = x /\ op'[q] = o /\ pc'[q] = pc[q] /\ pack'[q] = pack[q] /\ snap'[q] = snap[q]
      BY DEF Still
    <2>4. /\ Sound(obj[q], Entries)' = Sound(x, Entries)'
          /\ InSome(obj[q], published)' = InSome(x, published)'
          /\ InLoose(obj[q])' = InLoose(x)'
          /\ InAlts(op[q], obj[q])' = InAlts(o, x)'
          /\ Aside(op[q], obj[q])' = Aside(o, x)'
      BY <2>3 DEF Sound, InSome, InLoose, InAlts, Aside
    <2>5. pc[q] \in Waits =>
            Sound(obj[q], Entries)' /\ (InSome(obj[q], published)' \/ Aside(op[q], obj[q])')
      BY <1>1, <2>2, <2>4 DEF Present
    <2>6. pc[q] = "loose" =>
            IF o = "delta"
            THEN Sound(obj[q], Entries)' /\ (InSome(obj[q], published)' \/ InLoose(obj[q])')
            ELSE Aside(op[q], obj[q])'
      BY <1>1, <2>2, <2>4 DEF Present
    <2>7. pc[q] = "probe" =>
            /\ Sound(obj[q], Range(snap[q]))'
            /\ InSome(obj[q], Range(snap[q]))' \/ Aside(op[q], obj[q])'
      <3>1. Sound(x, Range(snap[q])) => Sound(obj[q], Range(snap[q]))'
        BY <2>1, <2>3, SoundStays DEF Sound
      <3>2. InSome(x, Range(snap[q])) => InSome(obj[q], Range(snap[q]))'
        BY <2>3 DEF InSome
      <3> QED BY <1>1, <2>2, <2>4, <3>1, <3>2 DEF Present
    <2>8. pc[q] \in Reads => x \in pack[q] /\ pack[q] \in files' \cap Catalog'
      BY <1>1, <2>1 DEF Present, Undisturbed
    <2>9. pc[q] \in {"open", "read"} => held'[q] = "open"
      BY <1>1, <2>1 DEF Present
    <2>10. pc[q] = "alternates" => InAlts(op[q], obj[q])'
      BY <1>1, <2>2, <2>4 DEF Present
    <2> QED
      BY <1>3, <2>3, <2>5, <2>6, <2>7, <2>8, <2>9, <2>10 DEF Present
  <1> QED BY <1>2, <1>3

LEMMA PresentOthers ==
    ASSUME PresentInv, NEW p, PresentTypes', AltsKnown', Calm(p),
           p \in Proc => (Owed(p)' => Present(p)')
    PROVE  PresentInv'
  BY PresentStill DEF PresentInv, Calm

\* A step leaves the disk and the index alone; listings are made or dropped.
Listing ==
    /\ UNCHANGED <<exclusive, files, loose, altFile, index, published>>
    /\ UNCHANGED packList \/ packList' = None \/ GenPackList
    /\ UNCHANGED objList \/ objList' = None \/ GenObjectList
    /\ UNCHANGED alts \/ alts' = None \/ (alts = None /\ alts' = altFile)

LEMMA ListingDisturbsNone ==
    ASSUME IndexShared, Listing, NEW x
    PROVE  Undisturbed(x)
  <1>1. /\ UNCHANGED <<exclusive, files, loose, altFile, index, published>>
        /\ exclusive \in BOOLEAN
    BY DEF Listing, IndexShared
  <1>2. files \cap Catalog \subseteq files' \cap Catalog'
    <2>1. CASE UNCHANGED packList \/ packList' = None
      BY <1>1, <2>1 DEF Catalog
    <2>2. CASE GenPackList
      BY <1>1, <2>2 DEF Catalog, GenPackList
    <2> QED BY <2>1, <2>2 DEF Listing
  <1>3. InLoose(x) => InLoose(x)'
    <2>1. CASE UNCHANGED objList \/ objList' = None
      BY <1>1, <2>1 DEF InLoose, ObjectList
    <2>2. CASE GenObjectList
      BY <1>1, <2>2 DEF InLoose, ObjectList, GenObjectList
    <2> QED BY <2>1, <2>2 DEF Listing
  <1>4. ASSUME NEW o, InAlts(o, x) PROVE InAlts(o, x)'
    <2>1. AltObjects' = AltObjects
      BY <1>1 DEF AltObjects
    <2>2. CASE UNCHANGED alts \/ alts' = None
      BY <1>1, <1>4, <2>1, <2>2 DEF InAlts
    <2>3. CASE alts = None /\ alts' = altFile
      <3>1. \E i \in DOMAIN altFile : x \in altFile[i]
        BY <1>4 DEF InAlts, AltObjects
      <3> QED BY <1>1, <1>4, <2>1, <2>3, <3>1 DEF InAlts
    <2> QED BY <2>2, <2>3 DEF Listing
  <1>5. Entries' = Entries /\ published' = published
    BY <1>1 DEF Entries
  <1> QED BY <1>2, <1>3, <1>4, <1>5 DEF Undisturbed

\* The alternates in memory stay known.
LEMMA SameAlts ==
    ASSUME AltsKnown, UNCHANGED <<altFile, alts>>,
           \A q \in Proc : pc[q] = "resetAlts" => pc'[q] = "resetAlts"
    PROVE  AltsKnown'
  BY DEF AltsKnown, AltObjects

LEMMA ListingCalm ==
    ASSUME IndexShared, PresentTypes, Listing, NEW p,
           \A q \in Proc \ {p} : Still(q) /\ upset'[q] = upset[q] /\ held'[q] = held[q]
    PROVE  Calm(p)
  BY ListingDisturbsNone DEF Calm, Shielded

\* Disturb marks the lookups that lose something.
LEMMA DisturbCalm ==
    ASSUME PresentTypes, NEW p, NEW S, Disturb(S), \A q \in Proc \ {p} : Still(q),
           \A x : x \notin UNION S => Undisturbed(x),
           UNCHANGED held \/ \E T : CloseHandles(T)
    PROVE  Calm(p) /\ upset' \in [Proc -> BOOLEAN] /\ DOMAIN held' = Proc
           /\ \A q \in Proc : upset[q] => upset'[q]
  <1>1. /\ upset' \in [Proc -> BOOLEAN]
        /\ \A q \in Proc : upset'[q] = (upset[q] \/ q \in Reading(S))
    BY DEF Disturb, PresentTypes
  <1>2. DOMAIN held' = Proc
    BY DEF CloseHandles, PresentTypes
  <1>3. ASSUME NEW q \in Proc, op[q] \in Lookups, pc[q] # "done", ~upset'[q]
        PROVE  Undisturbed(obj[q]) /\ held[q] = None
    BY <1>1, <1>3 DEF Reading
  <1>4. None # "open"
    BY StorageAssumption
  <1> QED BY <1>1, <1>2, <1>3, <1>4 DEF Calm, Shielded

\* A lookup goes on before it has taken the packs.
LEMMA WaitsOn ==
    ASSUME NEW q \in Proc, Present(q), pc[q] \in Waits, pc'[q] \in Waits,
           op'[q] = op[q], obj'[q] = obj[q], Undisturbed(obj[q])
    PROVE  Present(q)'
  <1> SUFFICES ASSUME NEW x, x = obj[q], NEW o, o = op[q] PROVE Present(q)'
    OBVIOUS
  <1>1. Sound(x, Entries) /\ (InSome(x, published) \/ Aside(o, x))
    BY DEF Present
  <1>2. Sound(x, Entries)' /\ (InSome(x, published)' \/ Aside(o, x)')
    BY <1>1, SoundStays
  <1>3. /\ Sound(obj[q], Entries)' = Sound(x, Entries)'
        /\ InSome(obj[q], published)' = InSome(x, published)'
        /\ Aside(op[q], obj[q])' = Aside(o, x)'
    BY DEF Sound, InSome, InLoose, InAlts, Aside
  <1>4. pc'[q] \notin {"loose", "probe", "alternates", "done", "open", "read"} \cup Reads
    BY DEF Waits, Leading, Reads
  <1> QED BY <1>2, <1>3, <1>4 DEF Present

\* The leader and those who wait leave.
LEMMA PresentEnds ==
    ASSUME LockInv, PresentInv, NEW p \in Proc, NEW ok \in BOOLEAN, NEW stale,
           EndFlight(p, ok, stale), pc[p] \in Leading,
           UNCHANGED <<op, obj, snap, pack, steady, held, altFile, alts>>,
           \A x : ~InSome(x, stale) => Undisturbed(x)
    PROVE  PresentInv'
  <1> DEFINE told == {q \in Proc : q = p \/ (pc[q] = "join" /\ Key(q) = Key(p))}
             after(q) == IF ok THEN AfterIndex(q) ELSE AfterIndexError(q)
  <1>1. /\ pc' = [q \in Proc |-> IF q \in told THEN after(q) ELSE pc[q]]
        /\ idxErr' = [q \in Proc |-> idxErr[q] \/ (q \in told /\ ~ok)]
        /\ res' = [q \in Proc |-> IF q \in told /\ after(q) = "done"
                                  THEN IF ok THEN "ok" ELSE "error" ELSE res[q]]
        /\ upset' = [q \in Proc |-> upset[q] \/ (q \in told /\ ~ok) \/ InSome(obj[q], stale)]
    BY DEF EndFlight
  <1>2. \A q \in told : pc[q] \in Waits /\ pc[q] # "resetAlts"
                        /\ (ok /\ op[q] \in Lookups => after(q) = "snapshot")
    <2>1. \A q \in told : pc[q] \in Waits /\ pc[q] # "resetAlts"
      BY DEF Waits, Leading
    <2>2. \A q \in told : op[q] \in Lookups => AfterIndex(q) = "snapshot"
      BY DEF AfterIndex, Lookups, Writes
    <2> QED BY <2>1, <2>2
  <1> HIDE DEF after, told
  <1>3. PresentTypes /\ AltsKnown /\ \A q \in Proc : Owed(q) => Present(q)
    BY DEF PresentInv
  <1>4. PresentTypes'
    BY <1>1, <1>3 DEF PresentTypes
  <1>5. AltsKnown'
    BY <1>1, <1>2, <1>3, SameAlts
  <1>6. ASSUME NEW q \in Proc, Owed(q)' PROVE Present(q)'
    <2>1. Owed(q) /\ ~ (q \in told /\ ~ok) /\ ~InSome(obj[q], stale)
      BY <1>1, <1>3, <1>6 DEF Owed, PresentTypes
    <2>2. Present(q) /\ Undisturbed(obj[q])
      BY <1>3, <2>1
    <2>3. CASE q \in told
      <3>1. pc[q] \in Waits /\ pc'[q] \in Waits
        BY <1>1, <1>2, <2>1, <2>3 DEF Owed, Waits
      <3> QED BY <2>2, <3>1, WaitsOn
    <2>4. CASE q \notin told
      <3>1. Still(q) /\ Shielded(q)
        BY <1>1, <1>3, <2>2, <2>4 DEF Still, Shielded, PresentTypes
      <3> QED BY <1>3, <1>4, <1>6, <3>1, PresentStill
    <2> QED BY <2>3, <2>4
  <1> QED BY <1>4, <1>5, <1>6 DEF PresentInv

\* A goroutine that is in no lookup takes a step.
LEMMA PresentAside ==
    ASSUME PresentInv, NEW p \in Proc, op'[p] \notin Lookups, PresentTypes', AltsKnown',
           Calm(p)
    PROVE  PresentInv'
  BY PresentOthers DEF Owed

LEMMA PresentAtInit == Init => PresentInv
  <1> SUFFICES ASSUME Init PROVE PresentInv
    OBVIOUS
  <1>1. PresentTypes /\ AltsKnown
    BY DEF Init, PresentTypes, AltsKnown
  <1>2. None \notin Lookups
    BY StorageAssumption
  <1>3. \A p \in Proc : ~Owed(p)
    BY <1>2 DEF Init, Owed
  <1> QED BY <1>1, <1>3 DEF PresentInv

\* What a lookup that starts is owed.
LEMMA PresentAtCall ==
    ASSUME AltsKnown, NEW o \in Lookups, NEW x, Known(o, x)
    PROVE  /\ Sound(x, Entries) /\ (InSome(x, published) \/ InLoose(x) \/ InAlts(o, x))
           /\ o = "delta" => InSome(x, published) \/ InLoose(x)
  <1>1. Sound(x, Entries)
    BY DEF Known, Sound, Entries
  <1>2. \/ InSome(x, published) \/ InLoose(x)
        \/ /\ x \in AltObjects /\ \A q \in Proc : pc[q] # "resetAlts"
           /\ o # "delta" /\ (exclusive => o # "has")
    BY DEF Known, InLoose
  <1>3. CASE /\ x \in AltObjects /\ \A q \in Proc : pc[q] # "resetAlts"
             /\ o # "delta" /\ (exclusive => o # "has")
    BY <1>1, <1>3 DEF AltsKnown, InAlts
  <1> QED BY <1>1, <1>2, <1>3

LEMMA PresentAtStart ==
    ASSUME LockInv, IndexInv, FoundInv, PresentInv, NEW p \in Proc, Start(p)
    PROVE  PresentInv'
  <1> USE DEF locals, locks, disk, memory, caches, history
  <1>1. PresentTypes /\ AltsKnown /\ IndexShared /\ FoundTypes
    BY DEF PresentInv, IndexInv, FoundInv
  <1>2. ASSUME NEW o, NEW s, Call(p, o, s)
        PROVE  /\ pc[p] = "idle" /\ \A q \in Proc : pc'[q] = IF q = p THEN s ELSE pc[q]
               /\ op'[p] = o /\ \A q \in Proc \ {p} : op'[q] = op[q]
    BY <1>2 DEF Call, GoTo, LockInv, LockTypes
  <1>3. ASSUME UNCHANGED <<steady, upset, idxErr, held, res>> PROVE PresentTypes'
    BY <1>1, <1>3 DEF PresentTypes
  <1>4. /\ \A x : \A q \in Proc \ {p} : [obj EXCEPT ![p] = x][q] = obj[q]
        /\ \A x : \A q \in Proc \ {p} : [pack EXCEPT ![p] = x][q] = pack[q]
    BY DEF IndexInv, IndexTypes
  <1>5. ASSUME NEW o, NEW s, Call(p, o, s), o \notin Lookups, Listing, s # "resetAlts",
               UNCHANGED <<snap, res, steady, upset, idxErr, held, altFile, alts>>,
               \A q \in Proc \ {p} : obj'[q] = obj[q] /\ pack'[q] = pack[q]
        PROVE  PresentInv'
    <2>1. \A q \in Proc \ {p} : Still(q) /\ upset'[q] = upset[q] /\ held'[q] = held[q]
      BY <1>2, <1>5 DEF Still
    <2>2. \A q \in Proc : pc[q] = "resetAlts" => pc'[q] = "resetAlts"
      BY <1>2, <1>5
    <2>3. PresentTypes' /\ AltsKnown'
      BY <1>1, <1>3, <1>5, <2>2, SameAlts
    <2>4. op'[p] \notin Lookups
      BY <1>2, <1>5
    <2> HIDE DEF locals, locks, disk, memory, caches, history
    <2>5. Calm(p)
      BY <1>1, <1>5, <2>1, ListingCalm
    <2> QED BY <2>3, <2>4, <2>5, PresentAside
  <1>6. CASE \E o \in Lookups, x \in Object : Lookup(p, o, x)
    <2>1. PICK o \in Lookups, x \in Object : Lookup(p, o, x)
      BY <1>6
    <2> DEFINE s == IF o = "delta" THEN "loose" ELSE "index"
    <2>2. /\ Call(p, o, s) /\ obj' = [obj EXCEPT ![p] = x]
          /\ steady' = [steady EXCEPT ![p] = Known(o, x)]
          /\ UNCHANGED <<exclusive, files, loose, altFile, index, published, packList,
                         objList, alts, pack, snap, res, idxErr, held, upset>>
      BY <2>1 DEF Lookup
    <2>3. Known(o, x) \in BOOLEAN
      BY DEF Known
    <2>4. /\ steady' \in [Proc -> BOOLEAN] /\ steady'[p] = Known(o, x)
          /\ \A q \in Proc \ {p} : steady'[q] = steady[q]
      BY <1>1, <2>2, <2>3 DEF PresentTypes
    <2>5. PresentTypes'
      BY <1>1, <2>2, <2>4 DEF PresentTypes
    <2>6. /\ pc'[p] = s /\ op'[p] = o /\ obj'[p] = x
          /\ \A q \in Proc : pc[q] = "resetAlts" => pc'[q] = "resetAlts"
      BY <1>2, <2>2 DEF IndexInv, IndexTypes
    <2>7. AltsKnown'
      BY <1>1, <2>2, <2>6, SameAlts
    <2>8. \A q \in Proc \ {p} : Still(q) /\ upset'[q] = upset[q] /\ held'[q] = held[q]
      BY <1>2, <1>4, <2>2, <2>4 DEF Still
    <2>9. Listing
      BY <2>2 DEF Listing
    <2>10. ASSUME Owed(p)' PROVE Present(p)'
      <3>1. Known(o, x)
        BY <2>4, <2>10 DEF Owed
      <3>2. /\ Sound(x, Entries) /\ (InSome(x, published) \/ InLoose(x) \/ InAlts(o, x))
            /\ o = "delta" => InSome(x, published) \/ InLoose(x)
        BY <1>1, <3>1, PresentAtCall
      <3>3. Undisturbed(x)
        BY <1>1, <2>9, ListingDisturbsNone
      <3>4. /\ Sound(x, Entries)' /\ (InSome(x, published)' \/ InLoose(x)' \/ InAlts(o, x)')
            /\ o = "delta" => InSome(x, published)' \/ InLoose(x)'
        BY <3>2, <3>3, SoundStays DEF Undisturbed
      <3>5. /\ Sound(obj[p], Entries)' = Sound(x, Entries)'
            /\ InSome(obj[p], published)' = InSome(x, published)'
            /\ InLoose(obj[p])' = InLoose(x)'
            /\ InAlts(op[p], obj[p])' = InAlts(o, x)'
        BY <2>6 DEF Sound, InSome, InLoose, InAlts
      <3>6. CASE o = "delta"
        <4>1. pc'[p] = "loose" /\ op'[p] = "delta"
          BY <2>6, <3>6
        <4> QED BY <3>4, <3>5, <3>6, <4>1 DEF Present, Waits, Leading, Reads
      <3>7. CASE o # "delta"
        <4>1. pc'[p] = "index" /\ op'[p] # "delta"
          BY <2>6, <3>7
        <4>2. Sound(obj[p], Entries)' /\ (InSome(obj[p], published)' \/ Aside(op[p], obj[p])')
          BY <3>4, <3>5, <4>1 DEF Aside
        <4> QED BY <4>1, <4>2 DEF Present, Reads
      <3> QED BY <3>6, <3>7
    <2> HIDE DEF s, locals, locks, disk, memory, caches, history
    <2>11. Calm(p)
      BY <1>1, <2>8, <2>9, ListingCalm
    <2> QED BY <2>5, <2>7, <2>10, <2>11, PresentOthers
  <1>7. CASE \E x \in Object : Commit(p, x)
    <2>1. PICK x \in Object : Commit(p, x)
      BY <1>7
    <2>2. /\ Call(p, "commit", "saveObject") /\ Listing
          /\ UNCHANGED <<snap, res, steady, upset, idxErr, held, altFile, alts>>
          /\ \A q \in Proc \ {p} : obj'[q] = obj[q] /\ pack'[q] = pack[q]
      BY <1>4, <2>1 DEF Commit, Listing
    <2> QED BY <1>5, <2>2 DEF Lookups
  <1>8. CASE \E k \in Packs : Fetch(p, k)
    <2>1. PICK k \in Packs : Fetch(p, k)
      BY <1>8
    <2>2. /\ Call(p, "fetch", "index") /\ Listing
          /\ UNCHANGED <<snap, res, steady, upset, idxErr, held, altFile, alts>>
          /\ \A q \in Proc \ {p} : obj'[q] = obj[q] /\ pack'[q] = pack[q]
      BY <1>4, <2>1 DEF Fetch, Listing
    <2> QED BY <1>5, <2>2 DEF Lookups
  <1>9. CASE Repack(p)
    <2>1. /\ Call(p, "repack", "walk") /\ Listing
          /\ UNCHANGED <<obj, pack, snap, res, steady, upset, idxErr, held, altFile, alts>>
      BY <1>9 DEF Repack, Listing
    <2> QED BY <1>5, <2>1 DEF Lookups
  <1>10. CASE Reindex(p)
    <2>1. /\ Call(p, "reindex", "index") /\ Listing
          /\ UNCHANGED <<obj, pack, snap, res, steady, upset, idxErr, held, altFile, alts>>
      BY <1>10 DEF Reindex, Listing
    <2> QED BY <1>5, <2>1 DEF Lookups
  <1>11. CASE Iterate(p)
    <2>1. /\ Call(p, "iter", "index") /\ Listing
          /\ UNCHANGED <<obj, pack, snap, res, steady, upset, idxErr, held, altFile, alts>>
      BY <1>11 DEF Iterate, Listing
    <2> QED BY <1>5, <2>1 DEF Lookups
  <1>12. CASE AddAlternate(p)
    <2>1. /\ Call(p, "addalt", "resetAlts") /\ altFile' = Append(altFile, AltExtra)
          /\ UNCHANGED <<exclusive, files, loose, index, published, packList, objList, alts,
                         obj, pack, snap, res, steady, upset, idxErr, held>>
      BY <1>12 DEF AddAlternate
    <2>2. AltObjects \subseteq AltObjects'
      <3>1. altFile \in Seq(SUBSET Object) /\ AltExtra \in SUBSET Object
        BY <1>1, StorageAssumption DEF FoundTypes
      <3>2. \A i \in DOMAIN altFile : i \in DOMAIN altFile' /\ altFile'[i] = altFile[i]
        BY <2>1, <3>1, AppendProperties, LenProperties
      <3> QED BY <3>2 DEF AltObjects
    <2>3. \A x : Undisturbed(x)
      BY <2>1, <2>2 DEF Undisturbed, Catalog, Entries, InLoose, ObjectList, InAlts
    <2>4. \A q \in Proc \ {p} : Still(q) /\ upset'[q] = upset[q] /\ held'[q] = held[q]
      BY <1>2, <2>1 DEF Still
    <2>5. Calm(p)
      BY <2>3, <2>4 DEF Calm, Shielded
    <2>6. AltsKnown' /\ op'[p] \notin Lookups
      BY <1>2, <2>1 DEF AltsKnown, Lookups
    <2>7. PresentTypes'
      BY <1>3, <2>1
    <2> HIDE DEF locals, locks, disk, memory, caches, history
    <2> QED BY <2>5, <2>6, <2>7, PresentAside
  <1> QED BY <1>6, <1>7, <1>8, <1>9, <1>10, <1>11, <1>12 DEF Start

LEMMA PresentAtStep ==
    ASSUME LockInv, IndexInv, FoundInv, PresentInv, NEW p \in Proc, Step(p)
    PROVE  PresentInv'
  <1> USE DEF locals, locks, disk, memory, caches, history
  <1>1. PresentTypes /\ AltsKnown /\ IndexShared /\ IndexTypes /\ Fits(pc[p], op[p])
        /\ IndexLocal(p) /\ (Owed(p) => Present(p)) /\ upset[p] \in BOOLEAN
    BY DEF PresentInv, PresentTypes, IndexInv, LockInv
  <1>2. ASSUME NEW s, GoTo(p, s)
        PROVE  \A q \in Proc : pc'[q] = IF q = p THEN s ELSE pc[q]
    BY <1>2 DEF GoTo, LockInv, LockTypes
  <1>3. /\ \A x : \A q \in Proc \ {p} : [snap EXCEPT ![p] = x][q] = snap[q]
        /\ \A x : \A q \in Proc \ {p} : [pack EXCEPT ![p] = x][q] = pack[q]
        /\ \A x : /\ DOMAIN [res EXCEPT ![p] = x] = Proc /\ [res EXCEPT ![p] = x][p] = x
                  /\ \A q \in Proc \ {p} : [res EXCEPT ![p] = x][q] = res[q]
        /\ \A x : /\ DOMAIN [held EXCEPT ![p] = x] = Proc /\ [held EXCEPT ![p] = x][p] = x
                  /\ \A q \in Proc \ {p} : [held EXCEPT ![p] = x][q] = held[q]
    BY <1>1 DEF IndexTypes, PresentTypes
  <1> DEFINE Apart == /\ \A q \in Proc \ {p} : snap'[q] = snap[q] /\ pack'[q] = pack[q]
                           /\ res'[q] = res[q] /\ held'[q] = held[q]
                      /\ DOMAIN res' = Proc /\ DOMAIN held' = Proc
             Alike == UNCHANGED <<op, obj, steady, upset, idxErr, altFile, alts>>
  <1>4. ASSUME NEW s, GoTo(p, s), Alike, Apart, Listing, pc[p] # "resetAlts",
               op[p] \in Lookups => (Owed(p)' => Present(p)')
        PROVE  PresentInv'
    <2>1. \A q \in Proc \ {p} : Still(q) /\ upset'[q] = upset[q] /\ held'[q] = held[q]
      BY <1>2, <1>4 DEF Still
    <2>2. \A q \in Proc : pc[q] = "resetAlts" => pc'[q] = "resetAlts"
      BY <1>2, <1>4
    <2>3. PresentTypes'
      BY <1>1, <1>4 DEF PresentTypes
    <2>4. AltsKnown'
      BY <1>1, <1>4, <2>2, SameAlts
    <2>5. Owed(p)' => Present(p)'
      BY <1>4 DEF Owed
    <2> HIDE DEF Alike, Apart, locals, locks, disk, memory, caches, history
    <2>6. Calm(p)
      BY <1>1, <1>4, <2>1, ListingCalm
    <2> QED BY <2>3, <2>4, <2>5, <2>6, PresentOthers
  <1>5. ASSUME NEW s, GoTo(p, s), Alike, Apart, Listing, op[p] \notin Lookups,
               pc[p] # "resetAlts"
        PROVE  PresentInv'
    BY <1>4, <1>5
  <1>6. ASSUME NEW s, GoTo(p, s), pc[p] \in Waits, op[p] \in Lookups => s \in Waits,
               Alike, Apart, Listing
        PROVE  PresentInv'
    <2>1. ASSUME op[p] \in Lookups, Owed(p)' PROVE Present(p)'
      <3>1. Owed(p) /\ Present(p) /\ pc'[p] \in Waits /\ op'[p] = op[p] /\ obj'[p] = obj[p]
        BY <1>1, <1>2, <1>6, <2>1 DEF Owed
      <3>2. Undisturbed(obj[p])
        BY <1>1, <1>6, ListingDisturbsNone
      <3> QED BY <1>6, <3>1, <3>2, WaitsOn
    <2>2. pc[p] # "resetAlts"
      BY <1>6 DEF Waits, Leading
    <2> QED BY <1>4, <1>6, <2>1, <2>2
  \* The steps of a lookup before it has the packs.
  <1>7. ASSUME UNCHANGED <<op, obj, snap, pack, res, held, steady, upset, idxErr, exclusive,
                           files, loose, altFile, alts, index, published>>
        PROVE  Alike /\ Apart
    BY <1>1, <1>7 DEF PresentTypes
  <1>8. CASE IndexReady(p)
    <2>1. op[p] \in Lookups => AfterIndex(p) = "snapshot"
      BY DEF AfterIndex, Lookups, Writes
    <2>2. GoTo(p, AfterIndex(p)) /\ pc[p] = "index" /\ Alike /\ Apart /\ Listing
      BY <1>7, <1>8 DEF IndexReady, Listing
    <2> QED BY <1>6, <2>1, <2>2 DEF Waits
  <1>9. CASE Join(p)
    <2>1. GoTo(p, "join") /\ pc[p] = "index" /\ Alike /\ Apart /\ Listing
      BY <1>7, <1>9 DEF Join, Listing
    <2> QED BY <1>6, <2>1 DEF Waits
  <1>10. CASE Lead(p)
    <2>1. GoTo(p, "recheck") /\ pc[p] = "index" /\ Alike /\ Apart /\ Listing
      BY <1>7, <1>10 DEF Lead, Listing
    <2> QED BY <1>6, <2>1 DEF Waits, Leading
  <1>11. CASE LockWriters(p)
    <2>1. GoTo(p, "scan") /\ pc[p] = "lock" /\ Alike /\ Apart /\ Listing
      BY <1>7, <1>11 DEF LockWriters, Listing
    <2> QED BY <1>6, <2>1 DEF Waits, Leading
  <1>12. CASE LoadIndexes(p)
    <2>1. GoTo(p, "publish") /\ pc[p] = "load" /\ Alike /\ Apart /\ Listing
      BY <1>7, <1>12 DEF LoadIndexes, Listing
    <2> QED BY <1>6, <2>1 DEF Waits, Leading
  <1>13. CASE ScanPacks(p)
    <2>1. GoTo(p, "load") /\ pc[p] = "scan" /\ Alike /\ Apart /\ Listing
      BY <1>1, <1>3, <1>13 DEF ScanPacks, Listing, PresentTypes
    <2> QED BY <1>6, <2>1 DEF Waits, Leading
  <1>14. CASE Recheck(p)
    <2>1. /\ pc[p] = "recheck" /\ Listing
          /\ UNCHANGED <<op, obj, snap, pack, held, steady, exclusive, files, loose, altFile,
                         alts, index, published>>
      BY <1>14 DEF Recheck, Listing
    <2>2. CASE GoTo(p, "lock") /\ UNCHANGED <<idxErr, res, upset>>
      BY <1>6, <1>7, <2>1, <2>2 DEF Waits, Leading
    <2>3. CASE EndFlight(p, TRUE, {})
      <3>1. \A x : Undisturbed(x)
        BY <1>1, <2>1, ListingDisturbsNone
      <3>2. pc[p] \in Leading
        BY <2>1 DEF Leading
      <3> HIDE DEF locals, locks, disk, memory, caches, history
      <3> QED BY <2>1, <2>3, <3>1, <3>2, PresentEnds
    <2> QED BY <1>14, <2>2, <2>3 DEF Recheck
  <1>15. CASE LoadFails(p)
    <2>1. /\ pc[p] = "load" /\ Listing /\ EndFlight(p, FALSE, {})
          /\ UNCHANGED <<op, obj, snap, pack, held, steady, altFile, alts>>
      BY <1>15 DEF LoadFails, Listing
    <2>2. \A x : Undisturbed(x)
      BY <1>1, <2>1, ListingDisturbsNone
    <2>3. pc[p] \in Leading
      BY <2>1 DEF Leading
    <2> HIDE DEF locals, locks, disk, memory, caches, history
    <2> QED BY <2>1, <2>2, <2>3, PresentEnds
  <1>16. CASE Publish(p)
    <2> DEFINE stale == Range(snap[p]) \ (files \cap Catalog)
    <2>1. /\ pc[p] = "publish" /\ EndFlight(p, TRUE, stale)
          /\ UNCHANGED <<op, obj, snap, pack, held, steady, exclusive, files, loose, altFile,
                         alts, packList, objList, published>>
          /\ UNCHANGED index \/ index' = Range(snap[p])
      BY <1>16 DEF Publish
    <2>2. ASSUME NEW x, ~InSome(x, stale) PROVE Undisturbed(x)
      <3>1. \A k \in Entries' : x \in k => k \in Entries \/ k \in files' \cap Catalog'
        <4>1. CASE UNCHANGED index
          BY <4>1 DEF Entries
        <4>2. CASE index' = Range(snap[p])
          BY <2>1, <2>2, <4>2 DEF Entries, InSome, Catalog
        <4> QED BY <2>1, <4>1, <4>2
      <3>2. InLoose(x)' = InLoose(x) /\ \A o : InAlts(o, x)' = InAlts(o, x)
        BY <2>1 DEF InLoose, InAlts, ObjectList, AltObjects
      <3>3. Catalog' = Catalog
        BY <2>1 DEF Catalog
      <3> QED BY <2>1, <3>1, <3>2, <3>3 DEF Undisturbed
    <2>3. pc[p] \in Leading
      BY <2>1 DEF Leading
    <2> HIDE DEF stale, locals, locks, disk, memory, caches, history
    <2> QED BY <2>1, <2>2, <2>3, PresentEnds
  \* The goroutines that are in no lookup.
  <1>17. CASE SetReference(p)
    <2>1. GoTo(p, "done") /\ pc[p] = "setRef" /\ Alike /\ Apart /\ Listing
      BY <1>1, <1>3, <1>17 DEF SetReference, Return, Listing, PresentTypes
    <2> QED BY <1>1, <1>5, <2>1 DEF Fits, Lookups
  <1>18. CASE WalkAllRefs(p)
    <2>1. GoTo(p, "index") /\ pc[p] = "walk" /\ Alike /\ Apart /\ Listing
      BY <1>1, <1>3, <1>18 DEF WalkAllRefs, Listing, PresentTypes
    <2> QED BY <1>1, <1>5, <2>1 DEF Fits, Lookups
  <1>19. CASE SaveFails(p)
    <2>1. GoTo(p, "done") /\ pc[p] = "savePack" /\ Alike /\ Apart /\ Listing
      BY <1>1, <1>3, <1>19 DEF SaveFails, Return, Listing, PresentTypes
    <2> QED BY <1>1, <1>5, <2>1 DEF Fits, Lookups, Writes
  <1>20. CASE LockDelete(p)
    <2>1. PICK k : snap' = [snap EXCEPT ![p] = <<k>>]
      BY <1>20 DEF LockDelete
    <2>2. GoTo(p, "delete") /\ pc[p] = "deleteNext" /\ Alike /\ Apart /\ Listing
      BY <1>1, <1>3, <1>20, <2>1 DEF LockDelete, Listing, PresentTypes
    <2> QED BY <1>1, <1>5, <2>2 DEF Fits, Lookups
  <1>21. CASE DeleteDone(p)
    <2>1. GoTo(p, "done") /\ pc[p] = "deleteNext" /\ Alike /\ Apart /\ Listing
      BY <1>1, <1>3, <1>21 DEF DeleteDone, Return, Listing, PresentTypes
    <2> QED BY <1>1, <1>5, <2>1 DEF Fits, Lookups
  <1>22. CASE TooNew(p)
    <2>1. GoTo(p, "drop") /\ pc[p] = "unlink" /\ Alike /\ Apart /\ Listing
      BY <1>7, <1>22 DEF TooNew, Listing
    <2> QED BY <1>1, <1>5, <2>1 DEF Fits, Lookups
  <1>23. CASE ListPacks(p)
    <2>1. GoTo(p, "nextPack") /\ pc[p] = "list" /\ Alike /\ Apart /\ Listing
      BY <1>7, <1>23 DEF ListPacks, Listing
    <2> QED BY <1>1, <1>5, <2>1 DEF Fits, Lookups
  <1>24. CASE NextPack(p)
    <2>1. \/ \E k : pack' = [pack EXCEPT ![p] = k] /\ GoTo(p, "route") /\ UNCHANGED res
          \/ GoTo(p, "done") /\ res' = [res EXCEPT ![p] = "ok"] /\ UNCHANGED pack
      BY <1>24 DEF NextPack, Return
    <2>2. /\ pc[p] = "nextPack" /\ Alike /\ Listing /\ UNCHANGED <<snap, held>>
      BY <1>24 DEF NextPack, Listing
    <2>3. Apart
      <3>1. CASE \E k : pack' = [pack EXCEPT ![p] = k] /\ UNCHANGED res
        <4>1. PICK k : pack' = [pack EXCEPT ![p] = k] /\ UNCHANGED res
          BY <3>1
        <4> QED BY <1>1, <1>3, <2>2, <4>1 DEF PresentTypes
      <3>2. CASE res' = [res EXCEPT ![p] = "ok"] /\ UNCHANGED pack
        BY <1>1, <1>3, <2>2, <3>2 DEF PresentTypes
      <3> QED BY <2>1, <3>1, <3>2
    <2>4. \E s : GoTo(p, s)
      BY <2>1
    <2> QED BY <1>1, <1>5, <2>2, <2>3, <2>4 DEF Fits, Lookups
  <1>25. CASE InstallKnown(p)
    <2>1. GoTo(p, "nextPack") /\ pc[p] = "install" /\ Alike /\ Apart /\ Listing
      BY <1>7, <1>25 DEF InstallKnown, Listing
    <2> QED BY <1>1, <1>5, <2>1 DEF Fits, Lookups
  <1>26. CASE InstallLock(p)
    <2>1. GoTo(p, "installIdx") /\ pc[p] = "install" /\ Alike /\ Apart /\ Listing
      BY <1>7, <1>26 DEF InstallLock, Listing
    <2> QED BY <1>1, <1>5, <2>1 DEF Fits, Lookups
  <1>27. ASSUME NEW s, GoTo(p, s), op[p] \notin Lookups, pc[p] # "resetAlts",
                NEW S, Disturb(S), \A x : x \notin UNION S => Undisturbed(x),
                UNCHANGED held \/ \E T : CloseHandles(T),
                UNCHANGED <<op, obj, snap, pack, steady, idxErr, altFile, alts>>,
                UNCHANGED res \/ \E r : res' = [res EXCEPT ![p] = r]
         PROVE  PresentInv'
    <2>1. DOMAIN res' = Proc /\ \A q \in Proc \ {p} : res'[q] = res[q]
      BY <1>1, <1>3, <1>27 DEF PresentTypes
    <2>2. \A q \in Proc \ {p} : Still(q)
      BY <1>2, <1>27, <2>1 DEF Still
    <2>3. AltsKnown'
      <3>1. \A q \in Proc : pc[q] = "resetAlts" => pc'[q] = "resetAlts"
        BY <1>2, <1>27
      <3> QED BY <1>1, <1>27, <3>1, SameAlts
    <2> HIDE DEF Alike, Apart, locals, locks, disk, memory, caches, history
    <2>4. Calm(p) /\ upset' \in [Proc -> BOOLEAN] /\ DOMAIN held' = Proc
          /\ \A q \in Proc : upset[q] => upset'[q]
      BY <1>1, <1>27, <2>2, DisturbCalm
    <2>5. PresentTypes'
      BY <1>1, <1>27, <2>1, <2>4 DEF PresentTypes
    <2>6. op'[p] \notin Lookups
      BY <1>27
    <2> QED BY <2>3, <2>4, <2>5, <2>6, PresentAside
  <1>28. ASSUME NEW s, GoTo(p, s), op[p] \notin Lookups, \A x : Undisturbed(x), AltsKnown',
                UNCHANGED <<op, obj, snap, pack, steady, upset, held, idxErr>>,
                UNCHANGED res \/ \E r : res' = [res EXCEPT ![p] = r]
         PROVE  PresentInv'
    <2>1. DOMAIN res' = Proc /\ \A q \in Proc \ {p} : res'[q] = res[q]
      BY <1>1, <1>3, <1>28 DEF PresentTypes
    <2>2. \A q \in Proc \ {p} : Still(q)
      BY <1>2, <1>28, <2>1 DEF Still
    <2>3. Calm(p)
      BY <1>28, <2>2 DEF Calm, Shielded
    <2>4. PresentTypes'
      BY <1>1, <1>28, <2>1 DEF PresentTypes
    <2>5. op'[p] \notin Lookups
      BY <1>28
    <2> HIDE DEF Alike, Apart, locals, locks, disk, memory, caches, history
    <2> QED BY <1>28, <2>3, <2>4, <2>5, PresentAside
  <1>29. CASE ResetAlternates(p)
    <2>1. /\ pc[p] = "resetAlts" /\ alts' = None /\ GoTo(p, "done") /\ Listing
          /\ UNCHANGED <<op, obj, snap, pack, steady, upset, held, idxErr>>
          /\ res' = [res EXCEPT ![p] = "ok"]
      BY <1>29 DEF ResetAlternates, Return, Listing
    <2>2. \A x : Undisturbed(x)
      BY <1>1, <2>1, ListingDisturbsNone
    <2>3. AltsKnown'
      BY <2>1 DEF AltsKnown
    <2>4. CASE op[p] \notin Lookups
      BY <1>28, <2>1, <2>2, <2>3, <2>4
    <2> QED BY <1>1, <2>1, <2>4 DEF Fits, Lookups
  <1>30. CASE SaveObject(p)
    <2>1. /\ pc[p] = "saveObject" /\ loose' = loose \cup {obj[p]} /\ GoTo(p, "setRef")
          /\ UNCHANGED <<exclusive, files, index, published, packList, objList, altFile, alts,
                         op, obj, snap, pack, steady, upset, held, idxErr, res>>
      BY <1>30 DEF SaveObject
    <2>2. ASSUME NEW x PROVE Undisturbed(x)
      <3>1. InLoose(x) => InLoose(x)'
        BY <2>1 DEF InLoose, ObjectList
      <3>2. \A o : InAlts(o, x) => InAlts(o, x)'
        BY <2>1 DEF InAlts, AltObjects
      <3> QED BY <2>1, <3>1, <3>2 DEF Undisturbed, Catalog, Entries
    <2>3. AltsKnown'
      <3>1. \A q \in Proc : pc[q] = "resetAlts" => pc'[q] = "resetAlts"
        BY <1>2, <2>1
      <3> QED BY <1>1, <2>1, <3>1, SameAlts
    <2>4. op[p] \notin Lookups
      BY <1>1, <2>1 DEF Fits, Lookups
    <2> QED BY <1>28, <2>1, <2>2, <2>3, <2>4
  <1>31. CASE SavePack(p)
    <2>1. /\ pc[p] = "savePack" /\ files \subseteq files'
          /\ GoTo(p, IF pack[p] # {} THEN "notify" ELSE "prune")
          /\ UNCHANGED <<exclusive, loose, index, published, packList, objList, altFile, alts,
                         op, obj, snap, pack, steady, upset, held, idxErr, res>>
      BY <1>31 DEF SavePack
    <2>2. ASSUME NEW x PROVE Undisturbed(x)
      <3>1. InLoose(x) => InLoose(x)'
        BY <2>1 DEF InLoose, ObjectList
      <3>2. \A o : InAlts(o, x) => InAlts(o, x)'
        BY <2>1 DEF InAlts, AltObjects
      <3>3. files \cap Catalog \subseteq files' \cap Catalog'
        BY <2>1 DEF Catalog
      <3> QED BY <2>1, <3>1, <3>2, <3>3 DEF Undisturbed, Entries
    <2>3. AltsKnown'
      <3>1. \A q \in Proc : pc[q] = "resetAlts" => pc'[q] = "resetAlts"
        BY <1>2, <2>1
      <3> QED BY <1>1, <2>1, <3>1, SameAlts
    <2>4. op[p] \notin Lookups
      BY <1>1, <2>1 DEF Fits, Lookups, Writes
    <2> QED BY <1>28, <2>1, <2>2, <2>3, <2>4
  <1>32. CASE DropEntry(p)
    <2>1. /\ pc[p] = "drop" /\ GoTo(p, "deleteNext") /\ GenPackList
          /\ UNCHANGED index \/ index' = index \ {Victim(p)}
          /\ UNCHANGED <<exclusive, files, loose, published, objList, altFile, alts,
                         op, obj, snap, pack, steady, upset, held, idxErr, res>>
      BY <1>32 DEF DropEntry
    <2>2. index # None
      BY <1>1, <2>1 DEF IndexLocal, AfterRequire, Fits, Leading, Writes
    <2>3. ASSUME NEW x PROVE Undisturbed(x)
      <3>1. InLoose(x) => InLoose(x)'
        BY <2>1 DEF InLoose, ObjectList
      <3>2. \A o : InAlts(o, x) => InAlts(o, x)'
        BY <2>1 DEF InAlts, AltObjects
      <3>3. files \cap Catalog \subseteq files' \cap Catalog'
        BY <1>1, <2>1 DEF Catalog, GenPackList, IndexShared
      <3>4. Entries' \subseteq Entries
        BY <2>1, <2>2 DEF Entries
      <3> QED BY <2>1, <3>1, <3>2, <3>3, <3>4 DEF Undisturbed
    <2>4. AltsKnown'
      <3>1. \A q \in Proc : pc[q] = "resetAlts" => pc'[q] = "resetAlts"
        BY <1>2, <2>1
      <3> QED BY <1>1, <2>1, <3>1, SameAlts
    <2>5. op[p] \notin Lookups
      BY <1>1, <2>1 DEF Fits, Lookups
    <2> QED BY <1>28, <2>1, <2>3, <2>4, <2>5
  <1>33. CASE NewObjectPack(p)
    <2>1. /\ pc[p] = "newPack" /\ GoTo(p, "savePack") /\ Disturb({}) /\ Listing
          /\ CloseHandles(Pack)
          /\ UNCHANGED <<op, obj, snap, pack, steady, idxErr, altFile, alts, res>>
      BY <1>33 DEF NewObjectPack, CleanPackList, Listing
    <2>2. \A x : Undisturbed(x)
      BY <1>1, <2>1, ListingDisturbsNone
    <2>3. op[p] \notin Lookups
      BY <1>1, <2>1 DEF Fits, Lookups, Writes
    <2> QED BY <1>27, <2>1, <2>2, <2>3
  <1>34. CASE DeletePack(p)
    <2>1. /\ pc[p] = "delete" /\ GoTo(p, "unlink") /\ Disturb({}) /\ Listing
          /\ CloseHandles(Pack)
          /\ UNCHANGED <<op, obj, snap, pack, steady, idxErr, altFile, alts, res>>
      BY <1>34 DEF DeletePack, CleanPackList, Listing
    <2>2. \A x : Undisturbed(x)
      BY <1>1, <2>1, ListingDisturbsNone
    <2>3. op[p] \notin Lookups
      BY <1>1, <2>1 DEF Fits, Lookups
    <2> QED BY <1>27, <2>1, <2>2, <2>3
  \* A pack gets an entry; if it is not there, the lookups it misleads are marked.
  <1>35. ASSUME NEW k, index' = index \cup {k}, index # None, published \subseteq published',
                UNCHANGED <<exclusive, files, loose, packList, objList, altFile, alts>>,
                NEW x, x \notin UNION ({k} \ (files \cap Catalog))
         PROVE  Undisturbed(x)
    <2>1. InLoose(x) => InLoose(x)'
      BY <1>35 DEF InLoose, ObjectList
    <2>2. \A o : InAlts(o, x) => InAlts(o, x)'
      BY <1>35 DEF InAlts, AltObjects
    <2>3. Catalog' = Catalog
      BY <1>35 DEF Catalog
    <2>4. \A e \in Entries' : x \in e => e \in Entries \/ e \in files \cap Catalog
      BY <1>35 DEF Entries
    <2> QED BY <1>35, <2>1, <2>2, <2>3, <2>4 DEF Undisturbed
  <1>36. CASE Notify(p)
    <2> DEFINE S == {pack[p]} \ (files \cap Catalog)
    <2>1. /\ pc[p] = "notify" /\ GoTo(p, IF op[p] = "fetch" THEN "setRef" ELSE "prune")
          /\ index' = index \cup {pack[p]} /\ Disturb(S) /\ published \subseteq published'
          /\ UNCHANGED <<exclusive, files, loose, packList, objList, altFile, alts,
                         op, obj, snap, pack, steady, idxErr, held, res>>
      BY <1>36 DEF Notify, AddEntry
    <2>2. index # None /\ op[p] \notin Lookups
      BY <1>1, <2>1 DEF IndexLocal, AfterRequire, Fits, Leading, Writes, Lookups
    <2>3. \A x : x \notin UNION S => Undisturbed(x)
      BY <1>35, <2>1, <2>2
    <2> HIDE DEF S
    <2> QED BY <1>27, <2>1, <2>2, <2>3
  <1>37. CASE InstallIdx(p)
    <2> DEFINE S == {pack[p]} \ (files \cap Catalog)
    <2>1. /\ pc[p] = "installIdx"
          /\ UNCHANGED <<exclusive, files, loose, packList, objList, altFile, alts, published,
                         op, obj, snap, pack, steady, idxErr, held>>
      BY <1>37 DEF InstallIdx
    <2>2. index # None /\ op[p] \notin Lookups
      BY <1>1, <2>1 DEF IndexLocal, AfterRequire, Fits, Leading, Writes, Lookups
    <2>3. CASE /\ index' = index \cup {pack[p]} /\ Disturb(S)
               /\ GoTo(p, "nextPack") /\ UNCHANGED res
      <3>1. \A x : x \notin UNION S => Undisturbed(x)
        BY <1>35, <2>1, <2>2, <2>3
      <3> HIDE DEF S
      <3> QED BY <1>27, <2>1, <2>2, <2>3, <3>1
    <2>4. CASE Return(p, "error") /\ UNCHANGED <<index, upset>>
      <3>1. Alike /\ Apart /\ Listing /\ GoTo(p, "done")
        BY <1>1, <1>3, <2>1, <2>4 DEF Return, Listing, PresentTypes
      <3> QED BY <1>5, <2>1, <2>2, <3>1
    <2> QED BY <1>37, <2>3, <2>4 DEF InstallIdx, AddEntry
  <1>38. CASE PruneLoose(p)
    <2> DEFINE S == {loose \cap pack[p]}
    <2>1. /\ pc[p] = "prune" /\ GoTo(p, "deleteNext") /\ Disturb(S) /\ loose' = loose \ pack[p]
          /\ objList' = IF loose \cap pack[p] = {} THEN objList ELSE None
          /\ UNCHANGED <<exclusive, files, index, packList, altFile, alts, published,
                         op, obj, snap, pack, steady, idxErr, held, res>>
      BY <1>38 DEF PruneLoose
    <2>2. op[p] \notin Lookups
      BY <1>1, <2>1 DEF Fits, Lookups
    <2>3. ASSUME NEW x, x \notin UNION S PROVE Undisturbed(x)
      <3>1. InLoose(x) => InLoose(x)'
        BY <2>1, <2>3 DEF InLoose, ObjectList
      <3>2. \A o : InAlts(o, x) => InAlts(o, x)'
        BY <2>1 DEF InAlts, AltObjects
      <3> QED BY <2>1, <3>1, <3>2 DEF Undisturbed, Catalog, Entries
    <2> HIDE DEF S
    <2> QED BY <1>27, <2>1, <2>2, <2>3
  \* Packs go; the lookups of what is in them are marked.
  <1>39. ASSUME NEW T, files' = files \ T, published' = published \ T,
                UNCHANGED <<exclusive, loose, index, packList, objList, altFile, alts>>,
                NEW x, x \notin UNION T
         PROVE  Undisturbed(x)
    <2>1. InLoose(x) => InLoose(x)'
      BY <1>39 DEF InLoose, ObjectList
    <2>2. \A o : InAlts(o, x) => InAlts(o, x)'
      BY <1>39 DEF InAlts, AltObjects
    <2>3. \A k \in files \cap Catalog : x \in k => k \in files' \cap Catalog'
      BY <1>39 DEF Catalog
    <2> QED BY <1>39, <2>1, <2>2, <2>3 DEF Undisturbed, Entries
  <1>40. CASE Unlink(p)
    <2> DEFINE S == {Victim(p)}
    <2>1. /\ pc[p] = "unlink" /\ GoTo(p, "drop") /\ Disturb(S) /\ CloseHandles(S)
          /\ files' = files \ S /\ published' = published \ S
          /\ UNCHANGED <<exclusive, loose, index, packList, objList, altFile, alts,
                         op, obj, snap, pack, steady, idxErr, res>>
      BY <1>40 DEF Unlink
    <2>2. op[p] \notin Lookups
      BY <1>1, <2>1 DEF Fits, Lookups
    <2> HIDE DEF S
    <2>3. \A x : x \notin UNION S => Undisturbed(x)
      BY <1>39, <2>1
    <2> QED BY <1>27, <2>1, <2>2, <2>3
  <1>41. CASE UnlinkFails(p)
    <2>1. PICK gone : files' = files \ gone /\ published' = published \ gone /\ Disturb(gone)
      BY <1>41 DEF UnlinkFails
    <2>2. /\ pc[p] = "unlink" /\ GoTo(p, "done") /\ res' = [res EXCEPT ![p] = "error"]
          /\ UNCHANGED <<exclusive, loose, index, packList, objList, altFile, alts,
                         op, obj, snap, pack, steady, idxErr, held>>
      BY <1>41 DEF UnlinkFails, Return
    <2>3. op[p] \notin Lookups
      BY <1>1, <2>2 DEF Fits, Lookups
    <2>4. \A x : x \notin UNION gone => Undisturbed(x)
      BY <1>39, <2>1, <2>2
    <2> QED BY <1>27, <2>1, <2>2, <2>3, <2>4
  <1>42. CASE Finish(p)
    <2>1. /\ GoTo(p, "idle") /\ pc[p] = "done" /\ Listing
          /\ op' = [op EXCEPT ![p] = None] /\ obj' = [obj EXCEPT ![p] = None]
          /\ pack' = [pack EXCEPT ![p] = {}] /\ snap' = [snap EXCEPT ![p] = <<>>]
          /\ idxErr' = [idxErr EXCEPT ![p] = FALSE]
          /\ held' = [held EXCEPT ![p] = None] /\ res' = [res EXCEPT ![p] = None]
          /\ steady' = [steady EXCEPT ![p] = FALSE] /\ upset' = [upset EXCEPT ![p] = FALSE]
          /\ UNCHANGED <<altFile, alts>>
      BY <1>42 DEF Finish, Listing
    <2>2. /\ op'[p] = None /\ \A q \in Proc \ {p} : op'[q] = op[q] /\ obj'[q] = obj[q]
      BY <1>1, <2>1 DEF LockInv, LockTypes, IndexTypes
    <2>3. /\ \A q \in Proc \ {p} : steady'[q] = steady[q] /\ upset'[q] = upset[q]
                                   /\ idxErr'[q] = idxErr[q]
          /\ idxErr' \in [Proc -> BOOLEAN] /\ steady' \in [Proc -> BOOLEAN]
          /\ upset' \in [Proc -> BOOLEAN] /\ idxErr'[p] = FALSE
      BY <1>1, <2>1 DEF PresentTypes
    <2>4. Apart
      BY <1>3, <2>1
    <2>5. PresentTypes'
      BY <1>1, <2>3, <2>4 DEF PresentTypes
    <2>6. \A q \in Proc \ {p} : Still(q) /\ upset'[q] = upset[q] /\ held'[q] = held[q]
      BY <1>2, <2>1, <2>2, <2>3, <2>4 DEF Still
    <2>7. AltsKnown'
      <3>1. \A q \in Proc : pc[q] = "resetAlts" => pc'[q] = "resetAlts"
        BY <1>2, <2>1
      <3> QED BY <1>1, <2>1, <3>1, SameAlts
    <2>8. op'[p] \notin Lookups
      BY <2>2, StorageAssumption
    <2> HIDE DEF Alike, Apart, locals, locks, disk, memory, caches, history
    <2>9. Calm(p)
      BY <1>1, <2>1, <2>6, ListingCalm
    <2> QED BY <2>5, <2>7, <2>8, <2>9, PresentAside
  \* The steps of a lookup that has the packs.
  <1>43. CASE Snapshot(p)
    <2>1. /\ pc[p] = "snapshot" /\ GoTo(p, "probe") /\ snap' = [snap EXCEPT ![p] = packs]
          /\ UNCHANGED <<op, obj, pack, res, held, steady, upset, idxErr, altFile, alts>>
          /\ Listing /\ UNCHANGED packList
      BY <1>43 DEF Snapshot, Listing
    <2>2. Alike /\ Apart
      BY <1>1, <1>3, <2>1 DEF PresentTypes
    <2>3. ASSUME Owed(p)' PROVE Present(p)'
      <3> SUFFICES ASSUME NEW x, x = obj[p], NEW o, o = op[p] PROVE Present(p)'
        OBVIOUS
      <3>1. Present(p) /\ pc'[p] = "probe" /\ snap'[p] = packs /\ obj'[p] = x /\ op'[p] = o
        BY <1>1, <1>2, <2>1, <2>3 DEF Owed, IndexTypes
      <3>2. Sound(x, Entries) /\ (InSome(x, published) \/ Aside(o, x))
        BY <2>1, <3>1 DEF Present, Waits
      <3>3. Range(packs) = Entries /\ published \subseteq Entries
        BY <1>1, <2>1 DEF IndexLocal, AfterRequire, IndexShared, Lists, Entries
      <3>4. Undisturbed(x)
        BY <1>1, <2>1, ListingDisturbsNone
      <3>5. Sound(obj[p], Range(snap[p]))'
        BY <3>1, <3>2, <3>3, <3>4, SoundStays DEF Sound
      <3>6. InSome(x, published) => InSome(obj[p], Range(snap[p]))'
        BY <3>1, <3>3 DEF InSome
      <3>7. Aside(o, x) => Aside(op[p], obj[p])'
        <4>1. Aside(o, x) => Aside(o, x)'
          BY <3>4, SoundStays
        <4>2. Aside(op[p], obj[p])' = Aside(o, x)'
          BY <3>1 DEF Aside, InLoose, InAlts
        <4> QED BY <4>1, <4>2
      <3> QED BY <3>1, <3>2, <3>5, <3>6, <3>7 DEF Present, Waits, Leading, Reads
    <2> QED BY <1>4, <2>1, <2>2, <2>3
  <1>44. ASSUME Present(p), pc[p] = "probe"
         PROVE  /\ \A i \in DOMAIN snap[p] : obj[p] \in snap[p][i] =>
                      snap[p][i] \in files \cap Catalog
                /\ \/ \E i \in DOMAIN snap[p] : obj[p] \in snap[p][i]
                   \/ Aside(op[p], obj[p])
    BY <1>44 DEF Present, Sound, InSome, Range
  <1>45. CASE ProbeHit(p)
    <2>1. PICK answers \in SUBSET (Range(snap[p]) \ files) :
            LET hits == Hits(p, answers)
                hit  == IF hint \in hits THEN hint ELSE Min(hits)
            IN  /\ pc[p] = "probe" /\ hits # {}
                /\ pack' = [pack EXCEPT ![p] = snap[p][hit]]
                /\ IF op[p] = "has" THEN Return(p, "found")
                   ELSE GoTo(p, "route") /\ UNCHANGED res
                /\ UNCHANGED <<exclusive, disk, index, packs, locks, caches, op, obj,
                               snap, todo, idxErr, held, history>>
      BY <1>45 DEF ProbeHit
    <2> DEFINE hits == Hits(p, answers)
               hit  == IF hint \in hits THEN hint ELSE Min(hits)
    <2>2. hits \in SUBSET Nat /\ hits # {}
      <3>1. DOMAIN snap[p] \subseteq Nat
        BY <1>1, LenProperties DEF IndexTypes
      <3> QED BY <2>1, <3>1 DEF Hits
    <2>3. hit \in hits
      <3> HIDE DEF hits
      <3> QED BY <2>2, LeastNatural
    <2>4. hit \in DOMAIN snap[p] /\ obj[p] \in snap[p][hit]
      <3> HIDE DEF hit
      <3> QED BY <2>3 DEF Hits
    <2>5. /\ pc[p] = "probe" /\ pack' = [pack EXCEPT ![p] = snap[p][hit]]
          /\ UNCHANGED <<op, obj, snap, held, steady, upset, idxErr, altFile, alts>> /\ Listing
          /\ IF op[p] = "has" THEN Return(p, "found") ELSE GoTo(p, "route") /\ UNCHANGED res
      BY <2>1 DEF Listing
    <2> HIDE DEF hit, hits
    <2>6. Alike /\ Apart
      <3>1. DOMAIN res' = Proc /\ \A q \in Proc \ {p} : res'[q] = res[q]
        BY <1>1, <1>3, <2>5 DEF Return, PresentTypes
      <3> QED BY <1>1, <1>3, <2>5, <3>1 DEF PresentTypes
    <2>7. ASSUME Owed(p)' PROVE Present(p)'
      <3>1. Present(p) /\ pack'[p] = snap[p][hit] /\ obj'[p] = obj[p]
        BY <1>1, <2>5, <2>7 DEF Owed, IndexTypes
      <3>2. obj'[p] \in pack'[p] /\ pack'[p] \in files' \cap Catalog'
        <4>1. Undisturbed(obj[p])
          BY <1>1, <2>5, ListingDisturbsNone
        <4>2. obj[p] \in pack'[p] /\ pack'[p] \in files \cap Catalog
          BY <1>44, <2>4, <2>5, <3>1
        <4> QED BY <3>1, <4>1, <4>2 DEF Undisturbed
      <3>3. CASE op[p] = "has"
        <4>1. pc'[p] = "done" /\ res'[p] = "found"
          BY <1>2, <1>3, <2>5, <3>3 DEF Return
        <4> QED BY <4>1 DEF Present, Waits, Leading, Reads
      <3>4. CASE op[p] # "has"
        <4>1. pc'[p] = "route"
          BY <1>2, <2>5, <3>4
        <4> QED BY <3>2, <4>1 DEF Present, Waits, Leading, Reads
      <3> QED BY <3>3, <3>4
    <2>8. \E s : GoTo(p, s)
      BY <2>5 DEF Return
    <2> QED BY <1>4, <2>5, <2>6, <2>7, <2>8
  <1>46. CASE ProbeMiss(p)
    <2>1. PICK answers \in SUBSET (Range(snap[p]) \ files) : Hits(p, answers) = {}
      BY <1>46 DEF ProbeMiss
    <2>2. /\ pc[p] = "probe"
          /\ UNCHANGED <<op, obj, snap, pack, held, steady, upset, idxErr, altFile, alts>>
          /\ Listing
          /\ IF op[p] = "delta" THEN Return(p, "missing")
             ELSE GoTo(p, "loose") /\ UNCHANGED res
      BY <1>46 DEF ProbeMiss, Listing
    <2>3. Alike /\ Apart
      <3>1. DOMAIN res' = Proc /\ \A q \in Proc \ {p} : res'[q] = res[q]
        BY <1>1, <1>3, <2>2 DEF Return, PresentTypes
      <3> QED BY <1>1, <1>3, <2>2, <3>1 DEF PresentTypes
    <2>4. ASSUME Owed(p)' PROVE Present(p)'
      <3> SUFFICES ASSUME NEW x, x = obj[p], NEW o, o = op[p] PROVE Present(p)'
        OBVIOUS
      <3>1. Present(p) /\ obj'[p] = x /\ op'[p] = o
        BY <1>1, <2>2, <2>4 DEF Owed
      <3>2. \A i \in DOMAIN snap[p] : x \notin snap[p][i]
        BY <1>44, <2>1, <2>2, <3>1 DEF Hits
      <3>3. Aside(o, x)
        BY <1>44, <2>2, <3>1, <3>2
      <3>4. pc'[p] = "loose" /\ o # "delta"
        BY <1>2, <2>2, <3>3 DEF Aside
      <3>5. Aside(op[p], obj[p])'
        <4>1. Aside(o, x)'
          BY <1>1, <2>2, <3>3, ListingDisturbsNone, SoundStays
        <4> QED BY <3>1, <4>1 DEF Aside, InLoose, InAlts
      <3> QED BY <3>1, <3>4, <3>5 DEF Present, Waits, Leading, Reads
    <2>5. \E s : GoTo(p, s)
      BY <2>2 DEF Return
    <2> QED BY <1>4, <2>2, <2>3, <2>4, <2>5
  \* A lookup returns what it was to find.
  <1>47. ASSUME Return(p, "found"), Listing, pc[p] # "resetAlts",
                UNCHANGED <<op, obj, snap, pack, held, steady, upset, idxErr, altFile, alts>>
         PROVE  PresentInv'
    <2>1. GoTo(p, "done") /\ res'[p] = "found" /\ Alike /\ Apart
      BY <1>1, <1>3, <1>47 DEF Return, PresentTypes
    <2>2. pc'[p] = "done"
      BY <1>2, <2>1
    <2>3. Present(p)'
      BY <2>1, <2>2 DEF Present, Waits, Leading, Reads
    <2> QED BY <1>4, <1>47, <2>1, <2>3
  <1>48. CASE CacheHit(p)
    BY <1>47, <1>48 DEF CacheHit, Listing
  <1>49. CASE LooseHit(p)
    BY <1>47, <1>49 DEF LooseHit, Listing
  <1>50. CASE GetHandle(p)
    <2>1. /\ pc[p] = "route" /\ Alike /\ Listing /\ UNCHANGED <<snap, pack>>
          /\ IF pack[p] \in handles \/ ~exclusive \/ pack[p] \in Catalog
             THEN held' = [held EXCEPT ![p] = "open"] /\ GoTo(p, "open") /\ UNCHANGED res
             ELSE Return(p, "error") /\ UNCHANGED held
      BY <1>50 DEF GetHandle, Listing
    <2>2. Apart
      <3>1. CASE held' = [held EXCEPT ![p] = "open"] /\ UNCHANGED res
        BY <1>1, <1>3, <2>1, <3>1 DEF PresentTypes
      <3>2. CASE res' = [res EXCEPT ![p] = "error"] /\ UNCHANGED held
        BY <1>1, <1>3, <2>1, <3>2 DEF PresentTypes
      <3> QED BY <2>1, <3>1, <3>2 DEF Return
    <2>3. ASSUME Owed(p)' PROVE Present(p)'
      <3>1. /\ obj[p] \in pack[p] /\ pack[p] \in files \cap Catalog
            /\ obj'[p] = obj[p] /\ pack'[p] = pack[p]
        BY <1>1, <2>1, <2>3 DEF Owed, Present, Reads
      <3>2. pack[p] \in files' \cap Catalog'
        BY <1>1, <2>1, <3>1, ListingDisturbsNone DEF Undisturbed
      <3>3. pc'[p] = "open" /\ held'[p] = "open"
        BY <1>2, <1>3, <2>1, <3>1
      <3> QED BY <3>1, <3>2, <3>3 DEF Present, Waits, Leading, Reads
    <2>4. \E s : GoTo(p, s)
      BY <2>1 DEF Return
    <2> QED BY <1>4, <2>1, <2>2, <2>3, <2>4
  <1>51. CASE OpenPack(p)
    <2>1. /\ pc[p] = "open" /\ Listing
          /\ UNCHANGED <<op, obj, snap, pack, held, steady, upset, idxErr, altFile, alts>>
          /\ \/ held[p] = "open" /\ GoTo(p, "read") /\ UNCHANGED res
             \/ (held[p] = "closed" \/ pack[p] \notin files) /\ Return(p, "error")
      BY <1>51 DEF OpenPack, Listing
    <2>2. Alike /\ Apart
      <3>1. DOMAIN res' = Proc /\ \A q \in Proc \ {p} : res'[q] = res[q]
        BY <1>1, <1>3, <2>1 DEF Return, PresentTypes
      <3> QED BY <1>1, <1>3, <2>1, <3>1 DEF PresentTypes
    <2>3. ASSUME Owed(p)' PROVE Present(p)'
      <3>1. /\ obj[p] \in pack[p] /\ pack[p] \in files \cap Catalog /\ held[p] = "open"
            /\ obj'[p] = obj[p] /\ pack'[p] = pack[p] /\ held'[p] = "open"
        BY <1>1, <2>1, <2>3 DEF Owed, Present, Reads
      <3>2. pack[p] \in files' \cap Catalog'
        BY <1>1, <2>1, <3>1, ListingDisturbsNone DEF Undisturbed
      <3>3. pc'[p] = "read"
        BY <1>2, <2>1, <3>1
      <3> QED BY <3>1, <3>2, <3>3 DEF Present, Waits, Leading, Reads
    <2>4. \E s : GoTo(p, s)
      BY <2>1 DEF Return
    <2> QED BY <1>4, <2>1, <2>2, <2>3, <2>4
  <1>52. CASE ReadPack(p)
    <2>1. /\ pc[p] = "read" /\ Listing
          /\ UNCHANGED <<op, obj, snap, pack, held, steady, upset, idxErr, altFile, alts>>
          /\ \/ held[p] = "closed" /\ Return(p, "error")
             \/ op[p] = "iter" /\ GoTo(p, "install") /\ UNCHANGED res
             \/ Return(p, "found")
      BY <1>52 DEF ReadPack, Listing
    <2>2. CASE Return(p, "found")
      BY <1>47, <2>1, <2>2
    <2>3. CASE ~Return(p, "found")
      <3>1. Alike /\ Apart
        <4>1. DOMAIN res' = Proc /\ \A q \in Proc \ {p} : res'[q] = res[q]
          BY <1>1, <1>3, <2>1 DEF Return, PresentTypes
        <4> QED BY <1>1, <1>3, <2>1, <4>1 DEF PresentTypes
      <3>2. op[p] \in Lookups => ~Owed(p)'
        BY <1>1, <2>1, <2>3 DEF Owed, Present, Lookups
      <3>3. \E s : GoTo(p, s)
        BY <2>1 DEF Return
      <3> QED BY <1>4, <2>1, <3>1, <3>2, <3>3
    <2> QED BY <2>2, <2>3
  <1>53. CASE LooseMiss(p)
    <2> DEFINE absent == op[p] = "has" /\ exclusive /\ obj[p] \notin ObjectList
               broken == op[p] \in {"has", "size"} /\ idxErr[p]
    <2>1. /\ pc[p] = "loose" /\ ~InLoose(obj[p]) /\ Listing
          /\ UNCHANGED <<op, obj, snap, pack, held, steady, upset, idxErr, altFile, alts>>
      BY <1>53 DEF LooseMiss, Listing, InLoose
    <2>2. CASE op[p] = "delta"
      <3>1. GoTo(p, "index") /\ UNCHANGED res
        BY <1>53, <2>2 DEF LooseMiss
      <3>2. Alike /\ Apart
        BY <1>7, <2>1, <3>1 DEF Listing
      <3>3. ASSUME Owed(p)' PROVE Present(p)'
        <4> SUFFICES ASSUME NEW x, x = obj[p] PROVE Present(p)'
          OBVIOUS
        <4>1. Sound(x, Entries) /\ InSome(x, published) /\ obj'[p] = x /\ pc'[p] = "index"
          BY <1>1, <1>2, <2>1, <2>2, <3>1, <3>3 DEF Owed, Present
        <4>2. Sound(x, Entries)' /\ InSome(x, published)'
          BY <1>1, <2>1, <4>1, ListingDisturbsNone, SoundStays
        <4>3. Sound(obj[p], Entries)' /\ InSome(obj[p], published)'
          BY <4>1, <4>2 DEF Sound, InSome
        <4> QED BY <4>1, <4>3 DEF Present, Waits, Leading, Reads
      <3> QED BY <1>4, <2>1, <3>1, <3>2, <3>3
    <2>3. CASE op[p] # "delta"
      <3>1. \/ (absent \/ broken) /\ \E r : Return(p, r)
            \/ GoTo(p, "alternates") /\ UNCHANGED res
        <4>1. CASE absent
          BY <1>53, <4>1 DEF LooseMiss
        <4>2. CASE ~absent /\ broken
          BY <1>53, <2>3, <4>2 DEF LooseMiss
        <4>3. CASE ~absent /\ ~broken
          BY <1>53, <2>3, <4>3 DEF LooseMiss
        <4> QED BY <4>1, <4>2, <4>3
      <3>2. Alike /\ Apart
        <4>1. DOMAIN res' = Proc /\ \A q \in Proc \ {p} : res'[q] = res[q]
          BY <1>1, <1>3, <3>1 DEF Return, PresentTypes
        <4> QED BY <1>1, <1>3, <2>1, <4>1 DEF PresentTypes
      <3>3. ASSUME Owed(p)' PROVE Present(p)'
        <4> SUFFICES ASSUME NEW x, x = obj[p], NEW o, o = op[p] PROVE Present(p)'
          OBVIOUS
        <4>1. InAlts(o, x) /\ obj'[p] = x /\ op'[p] = o /\ ~idxErr[p]
          BY <1>1, <2>1, <2>3, <3>3 DEF Owed, Present, Aside, PresentTypes
        <4>2. ~absent /\ ~broken
          BY <4>1 DEF InAlts
        <4>3. pc'[p] = "alternates"
          BY <1>2, <3>1, <4>2
        <4>4. InAlts(o, x)'
          BY <1>1, <2>1, <4>1, ListingDisturbsNone DEF Undisturbed
        <4>5. InAlts(op[p], obj[p])'
          BY <4>1, <4>4 DEF InAlts
        <4> QED BY <4>3, <4>5 DEF Present, Waits, Leading, Reads
      <3>4. \E s : GoTo(p, s)
        BY <3>1 DEF Return
      <3> QED BY <1>4, <2>1, <3>2, <3>3, <3>4
    <2> QED BY <2>2, <2>3
  <1>54. CASE FindInAlternates(p)
    <2> DEFINE list == IF alts = None THEN altFile ELSE alts
    <2>1. /\ pc[p] = "alternates" /\ alts' = list /\ Listing
          /\ UNCHANGED <<op, obj, snap, pack, held, steady, idxErr, altFile>>
      BY <1>54 DEF FindInAlternates, Listing
    <2>2. PICK bad \in SUBSET DOMAIN list :
            /\ Return(p, IF InAlternates(p, list, bad) = "missing" /\ idxErr[p] THEN "error"
                         ELSE InAlternates(p, list, bad))
            /\ upset' = [upset EXCEPT ![p] = @ \/ bad # {}]
      BY <1>54 DEF FindInAlternates
    <2>3. PICK r : /\ r = IF InAlternates(p, list, bad) = "missing" /\ idxErr[p] THEN "error"
                          ELSE InAlternates(p, list, bad)
                   /\ GoTo(p, "done") /\ res' = [res EXCEPT ![p] = r]
      BY <2>2 DEF Return
    <2>4. AltsKnown'
      <3>1. CASE alts = None
        BY <2>1, <3>1 DEF AltsKnown, AltObjects
      <3>2. CASE alts # None
        <4>1. UNCHANGED <<altFile, alts>>
          BY <2>1, <3>2
        <4>2. \A q \in Proc : pc[q] = "resetAlts" => pc'[q] = "resetAlts"
          BY <1>2, <2>1, <2>3
        <4> QED BY <1>1, <4>1, <4>2, SameAlts
      <3> QED BY <3>1, <3>2
    <2>5. /\ upset' \in [Proc -> BOOLEAN] /\ upset'[p] = (upset[p] \/ bad # {})
          /\ \A q \in Proc \ {p} : upset'[q] = upset[q]
      BY <1>1, <2>2 DEF PresentTypes
    <2>6. PresentTypes'
      BY <1>1, <1>3, <2>1, <2>3, <2>5 DEF PresentTypes
    <2>7. \A q \in Proc \ {p} : Still(q) /\ upset'[q] = upset[q] /\ held'[q] = held[q]
      BY <1>2, <1>3, <2>1, <2>3, <2>5 DEF Still
    <2>8. ASSUME Owed(p)' PROVE Present(p)'
      <3>1. Owed(p) /\ bad = {}
        BY <1>1, <2>1, <2>5, <2>8 DEF Owed
      <3>2. InAlts(op[p], obj[p])
        BY <1>1, <2>1, <3>1 DEF Present
      <3>3. PICK i \in DOMAIN list : obj[p] \in list[i]
        BY <3>2 DEF InAlts, AltObjects
      <3> HIDE DEF list
      <3>4. {j \in DOMAIN list \ bad : obj[p] \in list[j]} # {}
        BY <3>1, <3>3
      <3>5. InAlternates(p, list, bad) = "found"
        BY <3>1, <3>4 DEF InAlternates
      <3>6. pc'[p] = "done" /\ res'[p] = "found"
        BY <1>2, <1>3, <2>3, <3>5
      <3> QED BY <3>6 DEF Present, Waits, Leading, Reads
    <2> HIDE DEF list, Alike, Apart, locals, locks, disk, memory, caches, history
    <2>9. Calm(p)
      BY <1>1, <2>1, <2>7, ListingCalm
    <2> QED BY <2>4, <2>6, <2>8, <2>9, PresentOthers
  <1>55. CASE ListFails(p)
    <2>1. PICK part \in SUBSET loose :
            /\ objList' = part
            /\ upset' = [q \in Proc |-> upset[q] \/ q = p \/ q \in Reading({loose \ part})]
      BY <1>55 DEF ListFails
    <2>2. /\ UNCHANGED <<op, obj, pack, snap, held, steady, idxErr, exclusive, files, loose,
                         altFile, alts, index, packList, published>>
          /\ GoTo(p, "done") /\ pc[p] = "loose"
          /\ res' = [res EXCEPT ![p] = "error"] /\ objList = None
      BY <1>55 DEF ListFails, Return
    <2>3. ASSUME NEW q \in Proc \ {p}, op[q] \in Lookups, pc[q] # "done", ~upset'[q]
          PROVE  Undisturbed(obj[q])
      <3>1. obj[q] \notin loose \ part
        BY <2>1, <2>3 DEF Reading
      <3>2. InLoose(obj[q]) => InLoose(obj[q])'
        <4>1. InLoose(obj[q]) => obj[q] \in loose /\ obj[q] \in part
          BY <3>1 DEF InLoose
        <4>2. obj'[q] = obj[q] /\ loose' = loose
          BY <2>2
        <4> QED BY <2>1, <4>1, <4>2 DEF InLoose, ObjectList
      <3>3. \A o : InAlts(o, obj[q]) => InAlts(o, obj[q])'
        BY <2>2 DEF InAlts, AltObjects
      <3> QED BY <2>2, <3>2, <3>3 DEF Undisturbed, Catalog, Entries
    <2>4. \A q \in Proc \ {p} : Still(q)
      BY <1>2, <1>3, <2>2 DEF Still
    <2>5. upset' \in [Proc -> BOOLEAN] /\ upset'[p] /\ \A q \in Proc : upset[q] => upset'[q]
      BY <1>1, <2>1 DEF PresentTypes
    <2>6. PresentTypes'
      BY <1>1, <1>3, <2>2, <2>5 DEF PresentTypes
    <2>7. AltsKnown'
      BY <1>1, <1>2, <2>2, SameAlts
    <2>8. Calm(p)
      BY <2>2, <2>3, <2>4, <2>5 DEF Calm, Shielded
    <2>9. ~Owed(p)'
      BY <2>5 DEF Owed
    <2> QED BY <2>6, <2>7, <2>8, <2>9, PresentOthers
  <1> QED
    BY <1>8, <1>9, <1>10, <1>11, <1>12, <1>13, <1>14, <1>15, <1>16, <1>17, <1>18,
       <1>19, <1>20, <1>21, <1>22, <1>23, <1>24, <1>25, <1>26, <1>29, <1>30, <1>31,
       <1>32, <1>33, <1>34, <1>36, <1>37, <1>38, <1>40, <1>41, <1>42, <1>43, <1>45,
       <1>46, <1>48, <1>49, <1>50, <1>51, <1>52, <1>53, <1>54, <1>55
    DEF Step

LEMMA PresentAtNext ==
    LockInv /\ IndexInv /\ FoundInv /\ PresentInv /\ [Next]_vars => PresentInv'
  <1> SUFFICES ASSUME LockInv, IndexInv, FoundInv, PresentInv, [Next]_vars PROVE PresentInv'
    OBVIOUS
  <1> USE DEF locals, locks, disk, memory, caches, history
  <1>1. PresentTypes /\ AltsKnown /\ IndexShared
    BY DEF PresentInv, IndexInv
  <1>2. None \notin Proc
    BY StorageAssumption
  <1>3. CASE \E k \in Packs : ExternalAdd(k)
    <2>1. PICK k \in Packs : ExternalAdd(k)
      BY <1>3
    <2>2. /\ files \subseteq files'
          /\ UNCHANGED <<exclusive, loose, altFile, index, packList, objList, alts, published,
                         pc, op, obj, snap, pack, res, held, steady, upset, idxErr>>
      BY <2>1 DEF ExternalAdd
    <2>3. ASSUME NEW x PROVE Undisturbed(x)
      <3>1. InLoose(x)' = InLoose(x) /\ \A o : InAlts(o, x)' = InAlts(o, x)
        BY <2>2 DEF InLoose, InAlts, ObjectList, AltObjects
      <3>2. files \cap Catalog \subseteq files' \cap Catalog'
        BY <2>2 DEF Catalog
      <3> QED BY <2>2, <3>1, <3>2 DEF Undisturbed, Entries
    <2>4. Calm(None)
      BY <2>2, <2>3 DEF Calm, Still, Shielded
    <2>5. PresentTypes' /\ AltsKnown'
      BY <1>1, <2>2 DEF PresentTypes, AltsKnown, AltObjects
    <2> HIDE DEF locals, locks, disk, memory, caches, history
    <2> QED BY <1>2, <2>4, <2>5, PresentOthers
  <1>4. CASE \E k \in Packs : ExternalRemove(k)
    <2>1. PICK k \in Packs : ExternalRemove(k)
      BY <1>4
    <2> DEFINE S == {k}
    <2>2. /\ files' = files \ S /\ published' = published \ S /\ Disturb(S)
          /\ UNCHANGED <<exclusive, loose, altFile, index, packList, objList, alts,
                         pc, op, obj, snap, pack, res, held, steady, idxErr>>
      BY <2>1 DEF ExternalRemove
    <2>3. ASSUME NEW x, x \notin UNION S PROVE Undisturbed(x)
      <3>1. InLoose(x)' = InLoose(x) /\ \A o : InAlts(o, x)' = InAlts(o, x)
        BY <2>2 DEF InLoose, InAlts, ObjectList, AltObjects
      <3>2. \A e \in files \cap Catalog : x \in e => e \in files' \cap Catalog'
        BY <2>2, <2>3 DEF Catalog
      <3> QED BY <2>2, <2>3, <3>1, <3>2 DEF Undisturbed, Entries
    <2>4. \A q \in Proc \ {None} : Still(q)
      BY <2>2 DEF Still
    <2> HIDE DEF S, locals, locks, disk, memory, caches, history
    <2>5. Calm(None) /\ upset' \in [Proc -> BOOLEAN] /\ \A q \in Proc : upset[q] => upset'[q]
      BY <1>1, <2>2, <2>3, <2>4, DisturbCalm
    <2>6. PresentTypes' /\ AltsKnown'
      BY <1>1, <2>2, <2>5 DEF PresentTypes, AltsKnown, AltObjects
    <2> QED BY <1>2, <2>5, <2>6, PresentOthers
  <1>5. CASE UNCHANGED vars
    <2>1. /\ Listing
          /\ UNCHANGED <<pc, op, obj, snap, pack, res, held, steady, upset, idxErr, altFile,
                         alts>>
      BY <1>5 DEF vars, Listing
    <2>2. \A q \in Proc \ {None} : Still(q) /\ upset'[q] = upset[q] /\ held'[q] = held[q]
      BY <2>1 DEF Still
    <2>3. PresentTypes' /\ AltsKnown'
      BY <1>1, <2>1 DEF PresentTypes, AltsKnown, AltObjects
    <2> HIDE DEF locals, locks, disk, memory, caches, history
    <2>4. Calm(None)
      BY <1>1, <2>1, <2>2, ListingCalm
    <2> QED BY <1>2, <2>3, <2>4, PresentOthers
  <1> QED BY <1>3, <1>4, <1>5, PresentAtStart, PresentAtStep DEF Next, Quiet

\* PresentIsFound for any goroutines, packs, alternates and calls: a lookup of an
\* object that was stored when it started answers "found", whatever loads, rescans,
\* publications and deletions overlap it, unless one of them took that copy away.
\* Under ExclusiveAccess the calls take turns.
THEOREM StoredIsFound == Spec => []PresentIsFound
  <1>1. PresentInv => PresentIsFound
    BY DEF PresentInv, Owed, Present, PresentIsFound
  <1> QED BY <1>1, LocksAtInit, LocksAtNext, IndexAtInit, IndexAtNext, FoundAtInit,
             FoundAtNext, PresentAtInit, PresentAtNext, PTL DEF Spec
=============================================================================
