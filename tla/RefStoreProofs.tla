--------------------------- MODULE RefStoreProofs ---------------------------
(***************************************************************************)
(* Proofs about RefStore, for any processes, names and values.  CallInv    *)
(* says what each stage of a call has open and locked, FileInv what the    *)
(* inodes hold and that a lock has one holder, RewriteInv what a rewrite   *)
(* of packed-refs may rely on while it waits for its rename, and AloneInv  *)
(* what a call knows that no other write of its reference overlaps.        *)
(***************************************************************************)
EXTENDS RefStore, FiniteSetTheorems, TLAPS

\* Where a call can be: with a file open, with its lock held, rewriting packed-refs.
SetStages   == {"lock", "check", "checkPacked", "write", "close"}
GetStages   == {"getLoose", "getPacked"}
LockStages  == {"stat", "lockPacked", "recheck"}
Rewriting   == {"remove", "pack", "rename"}
Holding     == {"check", "checkPacked", "write", "close", "recheck", "prune"} \cup Rewriting
Opened      == SetStages \cup LockStages \cup Rewriting \cup {"prune"}
Stages      == {"idle", "done", "open", "reopen"} \cup GetStages \cup Opened

Call ==
    [kind : {"none", "set", "get", "remove", "pack"}, name : Name \cup {None},
     new : NewValues \cup {None}, old : OldValues \cup {None}]

\* The call and where it is fit together.
CallOK(p) ==
    /\ op[p].kind = "none" <=> pc[p] = "idle"
    /\ pc[p] \in SetStages => op[p].kind = "set"
    /\ pc[p] \in GetStages => op[p].kind = "get"
    /\ pc[p] \in {"open", "reopen", "prune"} \cup LockStages \cup Rewriting =>
          op[p].kind \in {"remove", "pack"}
    /\ pc[p] = "remove" => op[p].kind = "remove"
    /\ pc[p] = "pack" => op[p].kind = "pack"
    /\ op[p].kind \in {"set", "get", "remove"} => op[p].name \in Name
    /\ op[p].kind \in {"none", "pack"} => op[p].name = None
    /\ op[p].kind = "set" => op[p].new \in NewValues
    /\ pc[p] \in {"check", "checkPacked"} => op[p].old # None
    /\ fd[p] # None <=> pc[p] \in Opened
    /\ p \in locked <=> pc[p] \in Holding
    /\ pc[p] = "rename" => buf[p] \in PackFile
    /\ todo[p] # {} => op[p].kind = "pack" /\ pc[p] \in {"rename", "prune"}

\* The types, those of the places and calls included.
CallTypes ==
    /\ loose \in [Name -> Value \cup {Empty, None}]
    /\ packed \in PackFile \cup {None}
    /\ orphan \in [Orphan -> Value \cup {Empty, None} \cup PackFile]
    /\ pc \in [Proc -> Stages] /\ op \in [Proc -> Call]
    /\ fd \in [Proc -> Orphan \cup {AtPath, None}]
    /\ locked \subseteq Proc /\ noted \subseteq Proc
    /\ buf \in [Proc -> PackFile \cup {None}]
    /\ todo \in [Proc -> SUBSET Name]
    /\ calm \in [Proc -> BOOLEAN] /\ stale \in BOOLEAN
    /\ DOMAIN start = Proc /\ DOMAIN result = Proc

CallInv == CallTypes /\ \A p \in Proc : CallOK(p)

\* What p reads and writes through its descriptor: text for the loose file, records
\* for packed-refs; and nothing, between the comparison and the write of a
\* CheckAndSetReference.
TextOK(p) ==
    /\ op[p].kind = "set" /\ fd[p] # None => LooseText(p) \in Value \cup {Empty}
    /\ op[p].kind \in {"remove", "pack"} /\ fd[p] # None => OpenPack(p) \in PackFile
    /\ pc[p] = "write" /\ op[p].old # None => LooseText(p) = Empty

\* Those who share an inode opened the same path, and one of them has its lock.
SharedOK(p, q) ==
    /\ fd[p] = fd[q] /\ fd[p] \in Orphan => Target(p) = Target(q)
    /\ p \in locked /\ q \in locked /\ SameFile(p, q) => p = q

FileInv == \A p \in Proc : TextOK(p) /\ \A q \in Proc : SharedOK(p, q)

\* The assumption PackRefs states: nobody sets or removes references meanwhile.
Excluded == \A p, q \in Proc : op[p].kind = "pack" => ~ Writes(op[q].kind)

\* What a rewrite puts at packed-refs' path, told from the files as they are now.
Rewritten(p, n) ==
    IF op[p].kind = "remove" THEN IF n = op[p].name THEN None ELSE packed.recs[n]
    ELSE IF LooseValue(n) \in Hash THEN LooseValue(n) ELSE packed.recs[n]

\* While no modification time deceived a process: the rewriter's lock is on the file
\* at the path, its temporary file is still what a rewrite should produce when it is
\* renamed, and what PackRefs prunes is in packed-refs.
RewriteOK(p) ==
    /\ \A n \in todo[p] : loose[n] \in Hash \cup {None}
    /\ ~ stale =>
          /\ pc[p] \in Rewriting => fd[p] = AtPath
          /\ pc[p] = "rename" => \A n \in Name : buf[p].recs[n] = Rewritten(p, n)
          /\ pc[p] = "prune" => \A n \in todo[p] : loose[n] \in Hash => PackedValue(n) = loose[n]

RewriteInv == Excluded /\ \A p \in Proc : RewriteOK(p)

\* old is what the reference held when the call began.
Matches(p) == op[p].old = None \/ (start[p] # None /\ SameHash(start[p], op[p].old))

\* No other call is writing the reference of p's.
Alone(p) ==
    \A q \in Proc \ {p} : Writes(op[q].kind) => op[q].name # op[p].name

\* What a SetReference or CheckAndSetReference that is alone knows at each place.
SetAlone(p) ==
    LET n == op[p].name IN
    /\ pc[p] \in SetStages => fd[p] = AtPath
    /\ pc[p] \in {"lock", "check"} =>
          IF op[p].old = None THEN loose[n] = Empty ELSE Visible(n) = start[p]
    /\ pc[p] = "checkPacked" => loose[n] = Empty /\ Visible(n) = start[p]
    /\ pc[p] = "write" => loose[n] = Empty /\ Matches(p)
    /\ pc[p] = "close" => loose[n] = op[p].new /\ Matches(p)
    /\ pc[p] = "done" =>
          /\ result[p] = "ok" => Matches(p) /\ Visible(n) = op[p].new
          /\ result[p] = "changed" => ~ Matches(p) /\ Visible(n) = start[p]

\* The same for RemoveReference: the loose file stays away, then the record does.
RemoveAlone(p) ==
    LET n == op[p].name IN
    /\ pc[p] # "done" => loose[n] = None
    /\ pc[p] = "prune" => Visible(n) = None
    /\ pc[p] = "done" /\ result[p] = "ok" => Visible(n) = None

\* The same for Reference: what it is about to find is what was there at its start.
GetAlone(p) ==
    LET n == op[p].name IN
    /\ pc[p] \in GetStages => Visible(n) = start[p]
    /\ pc[p] = "getPacked" => LooseValue(n) = None
    /\ pc[p] = "done" /\ result[p] # "aborted" => result[p] = start[p]

\* A call stays calm only as long as it is alone.
AloneOK(p) ==
    calm[p] =>
        /\ op[p].name # None => Alone(p)
        /\ ~ stale =>
            /\ op[p].kind = "set" => SetAlone(p)
            /\ op[p].kind = "remove" => RemoveAlone(p)
            /\ op[p].kind = "get" => GetAlone(p)

AloneInv == \A p \in Proc : AloneOK(p)
-----------------------------------------------------------------------------
(* Calls.                                                                   *)

USE DEF SetStages, GetStages, LockStages, Rewriting, Holding, Opened

\* What a step of p leaves to the other calls.
Apart(p) ==
    \A q \in Proc \ {p} :
        /\ pc'[q] = pc[q] /\ op'[q] = op[q] /\ buf'[q] = buf[q] /\ todo'[q] = todo[q]
        /\ fd'[q] = None <=> fd[q] = None
        /\ q \in locked' <=> q \in locked

LEMMA CallRest ==
    ASSUME CallInv, CallTypes', NEW p \in Proc, CallOK(p)', Apart(p)
    PROVE  CallInv'
  BY DEF CallInv, CallOK, Apart

LEMMA NamesApart ==
    /\ None \notin Name /\ None \notin PackFile /\ None \notin Value /\ None # Empty
    /\ None # AtPath /\ None \notin Orphan /\ AtPath \notin Orphan
    /\ Empty \notin Value /\ PackedRefs \notin Name /\ None \notin Hash
    /\ NewValues \subseteq Hash \cup Symbolic /\ Hash \cup Symbolic \subseteq Value
    /\ None \notin NewValues
  BY RefAssumption DEF Value

\* Closing a file keeps the types of what is left.
LEMMA FinishCall ==
    ASSUME CallInv, NEW p \in Proc, NEW r, pc[p] \notin {"idle", "done"}, Finish(p, r)
    PROVE  CallInv' /\ Apart(p)
  <1>1. CallTypes /\ CallOK(p)
    BY DEF CallInv
  <1>2. /\ fd' = [fd EXCEPT ![p] = None] /\ locked' = locked \ {p} /\ noted' = noted \ {p}
        /\ orphan' = [i \in Orphan |->
                        IF \E q \in Proc \ {p} : fd[q] = i THEN orphan[i] ELSE None]
        /\ UNCHANGED <<loose, packed, op, start, calm, stale>>
        /\ pc' = [pc EXCEPT ![p] = "done"] /\ buf' = [buf EXCEPT ![p] = None]
        /\ todo' = [todo EXCEPT ![p] = {}] /\ result' = [result EXCEPT ![p] = r]
    BY DEF Finish, CloseFile, GoTo
  <1>3. orphan' \in [Orphan -> Value \cup {Empty, None} \cup PackFile]
    BY <1>1, <1>2 DEF CallTypes
  <1>4. CallTypes'
    BY <1>1, <1>2, <1>3 DEF CallTypes, Stages
  <1>5. CallOK(p)'
    BY <1>1, <1>2 DEF CallTypes, CallOK
  <1>6. Apart(p)
    BY <1>1, <1>2 DEF CallTypes, Apart
  <1> QED BY <1>4, <1>5, <1>6, CallRest
-----------------------------------------------------------------------------
(* Steps.  The ends of calls are taken together, and so are the turns that  *)
(* the branches of a handler have in common.                                *)

Finished(p) == pc[p] \notin {"idle", "done"} /\ \E r : Finish(p, r)

\* A loose file that says nothing sends the call to packed-refs.
ToPacked(p) ==
    /\ \/ pc[p] = "check" /\ LooseText(p) = Empty /\ GoTo(p, "checkPacked")
       \/ pc[p] = "getLoose" /\ LooseValue(op[p].name) = None /\ GoTo(p, "getPacked")
    /\ UNCHANGED <<disk, op, local, ghosts>>

\* The comparison of CheckAndSetReference succeeds.
Clears(p) ==
    /\ pc[p] \in {"check", "checkPacked"} /\ PutText(p, Empty) /\ GoTo(p, "write")
    /\ UNCHANGED <<packed, op, local, ghosts>>

\* A rewrite has its temporary file.
Copies(p) ==
    /\ GoTo(p, "rename") /\ UNCHANGED <<disk, op, fd, locked, noted, ghosts>>
    /\ \/ /\ pc[p] = "remove"
          /\ buf' = [buf EXCEPT ![p] = [OpenPack(p) EXCEPT !.recs[op[p].name] = None]]
          /\ UNCHANGED todo
       \/ /\ pc[p] = "pack" /\ \A n \in Name : loose[n] # Empty
          /\ buf' = [buf EXCEPT ![p] = [recs |-> Merged(p), sorted |-> TRUE]]
          /\ todo' = [todo EXCEPT ![p] = {n \in Name : loose[n] \in Hash}]

LEMMA StepKinds ==
    ASSUME NEW p \in Proc, Step(p) \/ Timeout(p) \/ Abort(p)
    PROVE  \/ Finished(p) \/ Return(p) \/ LockLoose(p) \/ ToPacked(p) \/ Clears(p)
           \/ WriteLoose(p) \/ OpenPacked(p) \/ StatPacked(p) \/ LockPacked(p)
           \/ Recheck(p) \/ Reopen(p) \/ Copies(p) \/ RenamePacked(p)
           \/ \E n \in Name : Prune(p, n)
  <1>1. CASE CheckLoose(p) \/ CheckPacked(p)
    BY <1>1 DEF CheckLoose, CheckPacked, Compare, ToPacked, Clears, Finished
  <1>2. CASE GetLoose(p) \/ GetPacked(p)
    BY <1>2 DEF GetLoose, GetPacked, ToPacked, Finished
  <1>3. CASE CloseRef(p) \/ OpenMissing(p) \/ PruneDone(p) \/ Timeout(p) \/ Abort(p)
    BY <1>3 DEF CloseRef, OpenMissing, PruneDone, Timeout, Abort, Finished
  <1>4. CASE CopyWithout(p)
    BY <1>4 DEF CopyWithout, Copies, Finished
  <1>5. CASE Collect(p)
    BY <1>5 DEF Collect, Copies, Finished
  <1> QED BY <1>1, <1>2, <1>3, <1>4, <1>5 DEF Step

\* The variables behind the tuples of the model.
LEMMA Tuples ==
    /\ UNCHANGED disk <=> UNCHANGED <<loose, packed, orphan>>
    /\ UNCHANGED local <=> UNCHANGED <<fd, locked, noted, buf, todo>>
    /\ UNCHANGED ghosts <=> UNCHANGED <<start, calm, result, stale>>
  BY DEF disk, local, ghosts

LEMMA ReturnCall == ASSUME CallInv, NEW p \in Proc, Return(p) PROVE CallInv' /\ Apart(p)
  <1>1. CallTypes /\ CallOK(p)
    BY DEF CallInv
  <1>2. NoOp \in Call /\ NoOp.kind = "none" /\ NoOp.name = None
    BY DEF NoOp, Call
  <1>3. CallTypes' /\ CallOK(p)' /\ Apart(p)
    BY <1>1, <1>2, Tuples DEF CallTypes, CallOK, Apart, Return, GoTo, Stages
  <1> QED BY <1>3, CallRest

\* Steps that leave disk and files alone but for a lock or a note.
LEMMA QuietCall ==
    ASSUME CallInv, NEW p \in Proc,
           LockLoose(p) \/ ToPacked(p) \/ StatPacked(p) \/ LockPacked(p) \/ Recheck(p)
    PROVE  CallInv' /\ Apart(p)
  <1>1. CallTypes /\ CallOK(p)
    BY DEF CallInv
  <1>2. CASE LockLoose(p)
    <2>1. CallTypes' /\ CallOK(p)' /\ Apart(p)
      BY <1>1, <1>2, Tuples DEF CallTypes, CallOK, Apart, LockLoose, GoTo, Stages
    <2> QED BY <2>1, CallRest
  <1>3. CASE ToPacked(p)
    <2>1. CallTypes' /\ CallOK(p)' /\ Apart(p)
      BY <1>1, <1>3, Tuples DEF CallTypes, CallOK, Apart, ToPacked, GoTo, Stages
    <2> QED BY <2>1, CallRest
  <1>4. CASE StatPacked(p) \/ LockPacked(p)
    <2>1. CallTypes' /\ CallOK(p)' /\ Apart(p)
      BY <1>1, <1>4, Tuples DEF CallTypes, CallOK, Apart, StatPacked, LockPacked, GoTo, Stages
    <2> QED BY <2>1, CallRest
  <1>5. CASE Recheck(p)
    <2>1. CallTypes' /\ CallOK(p)' /\ Apart(p)
      BY <1>1, <1>5, Tuples DEF CallTypes, CallOK, Apart, Recheck, GoTo, Stages
    <2> QED BY <2>1, CallRest
  <1> QED BY <1>2, <1>3, <1>4, <1>5

\* Writing the text of a loose file.
LEMMA TextTypes ==
    ASSUME CallInv, NEW p \in Proc, op[p].kind = "set", fd[p] # None,
           NEW v \in Value \cup {Empty}, PutText(p, v)
    PROVE  /\ loose' \in [Name -> Value \cup {Empty, None}]
           /\ orphan' \in [Orphan -> Value \cup {Empty, None} \cup PackFile]
  BY DEF CallInv, CallTypes, CallOK, PutText

LEMMA WriteCall ==
    ASSUME CallInv, NEW p \in Proc, Clears(p) \/ WriteLoose(p) PROVE CallInv' /\ Apart(p)
  <1>1. CallTypes /\ CallOK(p)
    BY DEF CallInv
  <1>2. op[p].kind = "set" /\ fd[p] # None
    BY <1>1 DEF CallOK, Clears, WriteLoose
  <1>3. PICK v \in Value \cup {Empty} : PutText(p, v)
    BY <1>1, <1>2, NamesApart DEF Clears, WriteLoose, CallOK, Value
  <1>4. /\ loose' \in [Name -> Value \cup {Empty, None}]
        /\ orphan' \in [Orphan -> Value \cup {Empty, None} \cup PackFile]
    BY <1>2, <1>3, TextTypes
  <1>5. CallTypes' /\ CallOK(p)' /\ Apart(p)
    BY <1>1, <1>4, Tuples DEF CallTypes, CallOK, Apart, Clears, WriteLoose, GoTo, Stages
  <1> QED BY <1>5, CallRest
-----------------------------------------------------------------------------
(* A path loses its inode.                                                  *)

Users(path) == {q \in Proc : fd[q] = AtPath /\ Target(q) = path}

\* There is a spare inode for the users of a path.
LEMMA SpareOrphan ==
    ASSUME CallTypes, NEW p \in Proc, fd[p] = AtPath
    PROVE  \E i \in Orphan : \A q \in Proc : fd[q] # i
  <1> DEFINE R == Proc \ {p}
             f == [q \in R |-> fd[q]]
             I == {f[q] : q \in R}
  <1>1. IsFiniteSet(Proc) /\ IsFiniteSet(Orphan) /\ Cardinality(Orphan) >= Cardinality(Proc)
    BY RefAssumption
  <1>2. /\ IsFiniteSet(R) /\ Cardinality(R) = Cardinality(Proc) - 1
        /\ Cardinality(Proc) \in Nat /\ Cardinality(Orphan) \in Nat
    BY <1>1, FS_RemoveElement, FS_CardinalityType
  <1>3. IsFiniteSet(I) /\ Cardinality(I) <= Cardinality(R) /\ Cardinality(I) \in Nat
    <2>1. f \in [R -> I] /\ \A y \in I : \E q \in R : f[q] = y
      OBVIOUS
    <2>2. f \in Surjection(R, I)
      BY <2>1 DEF Surjection
    <2> HIDE DEF I, f, R
    <2> QED BY <1>2, <2>2, FS_Surjection, FS_CardinalityType
  <1>4. ~ (Orphan \subseteq I)
    <2> SUFFICES ASSUME Orphan \subseteq I PROVE FALSE
      OBVIOUS
    <2> HIDE DEF I, f, R
    <2>1. Cardinality(Orphan) <= Cardinality(I)
      BY <1>3, FS_Subset
    <2> QED BY <1>1, <1>2, <1>3, <2>1
  <1>5. PICK i \in Orphan : i \notin I
    BY <1>4
  <1>6. fd[p] # i
    BY NamesApart
  <1>7. \A q \in R : fd[q] # i
    BY <1>5
  <1> QED BY <1>6, <1>7

\* What Detach does: the users move together to an inode nobody else has.
LEMMA DetachMoves ==
    ASSUME CallTypes, NEW path, NEW c, Detach(path, c)
    PROVE  \E i :
              /\ Users(path) # {} => i \in Orphan /\ \A q \in Proc : fd[q] # i
              /\ fd' = [q \in Proc |-> IF q \in Users(path) THEN i ELSE fd[q]]
              /\ orphan' = IF Users(path) = {} THEN orphan ELSE [orphan EXCEPT ![i] = c]
  <1> DEFINE i == CHOOSE i \in Orphan : \A q \in Proc : fd[q] # i
  <1>1. ASSUME Users(path) # {} PROVE i \in Orphan /\ \A q \in Proc : fd[q] # i
    <2>1. PICK p \in Proc : fd[p] = AtPath
      BY <1>1 DEF Users
    <2>2. \E j \in Orphan : \A q \in Proc : fd[q] # j
      BY <2>1, SpareOrphan
    <2> QED BY <2>2
  <1>2. /\ fd' = [q \in Proc |-> IF q \in Users(path) THEN i ELSE fd[q]]
        /\ orphan' = IF Users(path) = {} THEN orphan ELSE [orphan EXCEPT ![i] = c]
    BY DEF Detach, Users
  <1> QED BY <1>1, <1>2

LEMMA DetachTypes ==
    ASSUME CallTypes, NEW path, NEW c \in Value \cup {Empty, None} \cup PackFile, Detach(path, c)
    PROVE  /\ fd' \in [Proc -> Orphan \cup {AtPath, None}]
           /\ orphan' \in [Orphan -> Value \cup {Empty, None} \cup PackFile]
           /\ \A q \in Proc : fd'[q] = None <=> fd[q] = None
  <1>1. PICK i :
           /\ Users(path) # {} => i \in Orphan /\ \A q \in Proc : fd[q] # i
           /\ fd' = [q \in Proc |-> IF q \in Users(path) THEN i ELSE fd[q]]
           /\ orphan' = IF Users(path) = {} THEN orphan ELSE [orphan EXCEPT ![i] = c]
    BY DetachMoves
  <1>2. \A q \in Users(path) : q \in Proc /\ fd[q] = AtPath
    BY DEF Users
  <1>3. fd' \in [Proc -> Orphan \cup {AtPath, None}]
    BY <1>1, <1>2 DEF CallTypes
  <1>4. orphan' \in [Orphan -> Value \cup {Empty, None} \cup PackFile]
    BY <1>1 DEF CallTypes
  <1>5. \A q \in Proc : fd'[q] = None <=> fd[q] = None
    BY <1>1, <1>2, NamesApart
  <1> QED BY <1>3, <1>4, <1>5

\* A call begins.
LEMMA BeginCall ==
    ASSUME CallInv, NEW p \in Proc, Start(p) PROVE CallInv' /\ Apart(p)
  <1>1. CallTypes /\ CallOK(p)
    BY DEF CallInv
  <1>2. ASSUME NEW c, Begin(p, c)
        PROVE  /\ pc[p] = "idle" /\ fd[p] = None /\ p \notin locked /\ todo[p] = {}
               /\ op' = [op EXCEPT ![p] = c] /\ calm' \in [Proc -> BOOLEAN]
               /\ DOMAIN start' = Proc /\ UNCHANGED <<result, stale>>
    <2>1. calm' \in [Proc -> BOOLEAN] /\ DOMAIN start' = Proc
      BY <1>1, <1>2 DEF Begin, CallTypes
    <2> QED BY <1>1, <1>2, <2>1 DEF Begin, CallTypes, CallOK
  <1>3. ASSUME NEW n \in Name, NEW v \in NewValues, NEW old \in OldValues \cup {None},
               SetRef(p, n, v, old)
        PROVE  CallTypes' /\ CallOK(p)' /\ Apart(p)
    <2> DEFINE c == [kind |-> "set", name |-> n, new |-> v, old |-> old]
    <2>1. Begin(p, c)
      BY <1>3 DEF SetRef
    <2>2. c \in Call /\ c.kind = "set" /\ c.name = n /\ c.new = v
      BY DEF Call
    <2> HIDE DEF c
    <2>3. op' = [op EXCEPT ![p] = c] /\ pc[p] = "idle"
      BY <1>2, <2>1
    <2>4. loose' \in [Name -> Value \cup {Empty, None}]
      BY <1>1, <1>3 DEF SetRef, CallTypes
    <2>5. CallTypes'
      BY <1>1, <1>2, <1>3, <2>1, <2>2, <2>3, <2>4 DEF SetRef, GoTo, CallTypes, Stages
    <2>6. CallOK(p)'
      BY <1>1, <1>2, <1>3, <2>1, <2>2, <2>3, NamesApart DEF SetRef, GoTo, CallTypes, CallOK
    <2>7. Apart(p)
      BY <1>1, <1>3, <2>3 DEF SetRef, GoTo, CallTypes, Apart
    <2> QED BY <2>5, <2>6, <2>7
  <1>4. ASSUME NEW n \in Name, GetRef(p, n) PROVE CallTypes' /\ CallOK(p)' /\ Apart(p)
    <2> DEFINE c == [kind |-> "get", name |-> n, new |-> None, old |-> None]
    <2>1. Begin(p, c)
      BY <1>4 DEF GetRef
    <2>2. c \in Call /\ c.kind = "get" /\ c.name = n
      BY DEF Call
    <2> HIDE DEF c
    <2>3. op' = [op EXCEPT ![p] = c] /\ pc[p] = "idle"
      BY <1>2, <2>1
    <2> QED BY <1>1, <1>2, <1>4, <2>1, <2>2, <2>3, Tuples
            DEF GetRef, GoTo, CallTypes, CallOK, Stages, Apart
  <1>5. ASSUME NEW n \in Name, RemoveRef(p, n) PROVE CallTypes' /\ CallOK(p)' /\ Apart(p)
    <2> DEFINE c == [kind |-> "remove", name |-> n, new |-> None, old |-> None]
    <2>1. Begin(p, c)
      BY <1>5 DEF RemoveRef
    <2>2. c \in Call /\ c.kind = "remove" /\ c.name = n
      BY DEF Call
    <2> HIDE DEF c
    <2>3. op' = [op EXCEPT ![p] = c] /\ pc[p] = "idle"
      BY <1>2, <2>1
    <2>4. loose' \in [Name -> Value \cup {Empty, None}]
      BY <1>1, <1>5 DEF RemoveRef, CallTypes
    <2>5. /\ fd' \in [Proc -> Orphan \cup {AtPath, None}]
          /\ orphan' \in [Orphan -> Value \cup {Empty, None} \cup PackFile]
          /\ \A q \in Proc : fd'[q] = None <=> fd[q] = None
      <3>1. loose[n] \in Value \cup {Empty, None} \cup PackFile /\ Detach(n, loose[n])
        BY <1>1, <1>5 DEF RemoveRef, CallTypes
      <3> QED BY <1>1, <3>1, DetachTypes
    <2> QED BY <1>1, <1>2, <1>5, <2>1, <2>2, <2>3, <2>4, <2>5
            DEF RemoveRef, GoTo, CallTypes, CallOK, Stages, Apart
  <1>6. ASSUME PackRefs(p) PROVE CallTypes' /\ CallOK(p)' /\ Apart(p)
    <2> DEFINE c == [kind |-> "pack", name |-> None, new |-> None, old |-> None]
    <2>1. Begin(p, c)
      BY <1>6 DEF PackRefs
    <2>2. c \in Call /\ c.kind = "pack" /\ c.name = None
      BY DEF Call
    <2> HIDE DEF c
    <2>3. op' = [op EXCEPT ![p] = c] /\ pc[p] = "idle"
      BY <1>2, <2>1
    <2> QED BY <1>1, <1>2, <1>6, <2>1, <2>2, <2>3, Tuples
            DEF PackRefs, GoTo, CallTypes, CallOK, Stages, Apart
  <1>7. CallTypes' /\ CallOK(p)' /\ Apart(p)
    BY <1>3, <1>4, <1>5, <1>6 DEF Start
  <1> QED BY <1>7, CallRest

\* openAndLockPackedRefs opens packed-refs, or starts over.
LEMMA OpenCall ==
    ASSUME CallInv, NEW p \in Proc, OpenPacked(p) \/ Reopen(p) PROVE CallInv' /\ Apart(p)
  <1>1. CallTypes /\ CallOK(p)
    BY DEF CallInv
  <1>2. CASE OpenPacked(p)
    <2>1. EmptyPack \in PackFile
      BY DEF EmptyPack, PackFile
    <2>2. packed' \in PackFile \cup {None}
      BY <1>1, <1>2, <2>1 DEF OpenPacked, CallTypes
    <2>3. CallTypes' /\ CallOK(p)' /\ Apart(p)
      BY <1>1, <1>2, <2>2, Tuples, NamesApart
      DEF OpenPacked, GoTo, CallTypes, CallOK, Stages, Apart
    <2> QED BY <2>3, CallRest
  <1>3. CASE Reopen(p)
    <2>1. orphan' \in [Orphan -> Value \cup {Empty, None} \cup PackFile]
      BY <1>1, <1>3 DEF Reopen, CloseFile, CallTypes
    <2>2. CallTypes' /\ CallOK(p)' /\ Apart(p)
      BY <1>1, <1>3, <2>1, Tuples
      DEF Reopen, CloseFile, GoTo, CallTypes, CallOK, Stages, Apart
    <2> QED BY <2>2, CallRest
  <1> QED BY <1>2, <1>3

\* The records a rewrite works out.
LEMMA CopyType ==
    ASSUME CallInv, FileInv, NEW p \in Proc, Copies(p)
    PROVE  /\ OpenPack(p) \in PackFile /\ buf'[p] \in PackFile
           /\ buf' = [buf EXCEPT ![p] = buf'[p]]
  <1>1. CallTypes /\ CallOK(p) /\ TextOK(p)
    BY DEF CallInv, FileInv
  <1>2. OpenPack(p) \in PackFile
    BY <1>1 DEF Copies, CallOK, TextOK
  <1>3. CASE pc[p] = "remove"
    <2>1. op[p].name \in Name
      BY <1>1, <1>3 DEF CallOK
    <2>2. [OpenPack(p) EXCEPT !.recs[op[p].name] = None] \in PackFile
      BY <1>2, <2>1 DEF PackFile
    <2> QED BY <1>1, <1>2, <1>3, <2>2 DEF Copies, CallTypes
  <1>4. CASE pc[p] = "pack"
    <2>1. Merged(p) \in [Name -> Hash \cup {None}]
      BY <1>2 DEF Merged, PackFile
    <2>2. [recs |-> Merged(p), sorted |-> TRUE] \in PackFile
      BY <2>1 DEF PackFile
    <2> QED BY <1>1, <1>2, <1>4, <2>2 DEF Copies, CallTypes
  <1> QED BY <1>3, <1>4 DEF Copies

LEMMA CopyCall ==
    ASSUME CallInv, FileInv, NEW p \in Proc, Copies(p) PROVE CallInv' /\ Apart(p)
  <1>1. CallTypes /\ CallOK(p)
    BY DEF CallInv
  <1>2. todo' \in [Proc -> SUBSET Name] /\ \A q \in Proc \ {p} : todo'[q] = todo[q]
    BY <1>1 DEF Copies, CallTypes
  <1>3. CallTypes'
    BY <1>1, <1>2, CopyType, Tuples DEF Copies, GoTo, CallTypes, Stages
  <1>4. CallOK(p)'
    BY <1>1, CopyType, Tuples DEF Copies, GoTo, CallTypes, CallOK
  <1>5. Apart(p)
    BY <1>1, <1>2, CopyType, Tuples DEF Copies, GoTo, CallTypes, Apart
  <1> QED BY <1>3, <1>4, <1>5, CallRest

LEMMA RenameCall == ASSUME CallInv, NEW p \in Proc, RenamePacked(p) PROVE CallInv' /\ Apart(p)
  <1>1. CallTypes /\ CallOK(p)
    BY DEF CallInv
  <1>2. /\ fd' \in [Proc -> Orphan \cup {AtPath, None}]
        /\ orphan' \in [Orphan -> Value \cup {Empty, None} \cup PackFile]
        /\ \A q \in Proc : fd'[q] = None <=> fd[q] = None
    <2>1. packed \in Value \cup {Empty, None} \cup PackFile /\ Detach(PackedRefs, packed)
      BY <1>1 DEF RenamePacked, CallTypes
    <2> QED BY <1>1, <2>1, DetachTypes
  <1>3. CallTypes' /\ CallOK(p)' /\ Apart(p)
    BY <1>1, <1>2, Tuples DEF RenamePacked, GoTo, CallTypes, CallOK, Stages, Apart
  <1> QED BY <1>3, CallRest

LEMMA PruneCall ==
    ASSUME CallInv, NEW p \in Proc, NEW n \in Name, Prune(p, n) PROVE CallInv' /\ Apart(p)
  <1>1. CallTypes /\ CallOK(p)
    BY DEF CallInv
  <1>2. /\ fd' \in [Proc -> Orphan \cup {AtPath, None}]
        /\ orphan' \in [Orphan -> Value \cup {Empty, None} \cup PackFile]
        /\ \A q \in Proc : fd'[q] = None <=> fd[q] = None
    <2>1. loose[n] \in Value \cup {Empty, None} \cup PackFile /\ Detach(n, loose[n])
      BY <1>1 DEF Prune, CallTypes
    <2> QED BY <1>1, <2>1, DetachTypes
  <1>3. loose' \in [Name -> Value \cup {Empty, None}]
    BY <1>1 DEF Prune, CallTypes
  <1>4. CallTypes' /\ CallOK(p)' /\ Apart(p)
    BY <1>1, <1>2, <1>3, Tuples DEF Prune, CallTypes, CallOK, Apart
  <1> QED BY <1>4, CallRest

LEMMA CallInit == Init => CallInv
  <1> SUFFICES ASSUME Init PROVE CallInv
    OBVIOUS
  <1>1. NoOp \in Call /\ NoOp.kind = "none" /\ NoOp.name = None
    BY DEF NoOp, Call
  <1>2. CallTypes
    BY <1>1 DEF Init, CallTypes, Stages
  <1>3. ASSUME NEW p \in Proc PROVE CallOK(p)
    BY <1>1 DEF Init, CallOK
  <1> QED BY <1>2, <1>3 DEF CallInv

\* Every step keeps the calls well formed, and leaves those of the others alone.
LEMMA ActCall ==
    ASSUME CallInv, FileInv, NEW p \in Proc, Start(p) \/ Step(p) \/ Timeout(p) \/ Abort(p)
    PROVE  CallInv' /\ Apart(p)
  <1>1. CASE Start(p)
    BY <1>1, BeginCall
  <1>2. CASE Step(p) \/ Timeout(p) \/ Abort(p)
    <2>1. CASE Finished(p)
      BY <2>1, FinishCall DEF Finished
    <2>2. CASE \E n \in Name : Prune(p, n)
      BY <2>2, PruneCall
    <2> QED BY <1>2, <2>1, <2>2, StepKinds, ReturnCall, QuietCall, WriteCall, OpenCall,
               CopyCall, RenameCall
  <1> QED BY <1>1, <1>2

LEMMA CallStep == ASSUME CallInv, FileInv, [Next]_vars PROVE CallInv'
  <1>1. CASE UNCHANGED vars
    <2>1. UNCHANGED <<pc, op>> /\ UNCHANGED disk /\ UNCHANGED local /\ UNCHANGED ghosts
      BY <1>1 DEF vars
    <2> QED BY <2>1, Tuples DEF CallInv, CallTypes, CallOK
  <1> QED BY <1>1, ActCall DEF Next
-----------------------------------------------------------------------------
(* Files.                                                                   *)

\* The file a process has open.
LEMMA TargetType ==
    ASSUME CallInv, NEW p \in Proc, fd[p] # None
    PROVE  \/ op[p].kind = "set" /\ Target(p) = op[p].name /\ op[p].name \in Name
           \/ op[p].kind \in {"remove", "pack"} /\ Target(p) = PackedRefs
  BY DEF CallInv, CallOK, Target

\* A call ends, or starts over, and closes its file.
LEMMA CloseFiles ==
    ASSUME CallInv, FileInv, NEW p \in Proc, CloseFile(p), Apart(p), pc'[p] # "write"
    PROVE  FileInv'
  <1>1. /\ fd' = [fd EXCEPT ![p] = None] /\ locked' = locked \ {p}
        /\ orphan' = [i \in Orphan |->
                        IF \E q \in Proc \ {p} : fd[q] = i THEN orphan[i] ELSE None]
        /\ UNCHANGED <<loose, packed>>
    BY DEF CloseFile
  <1>2. fd \in [Proc -> Orphan \cup {AtPath, None}] /\ locked \subseteq Proc
    BY DEF CallInv, CallTypes
  <1>3. fd'[p] = None /\ p \notin locked' /\ \A q \in Proc \ {p} : fd'[q] = fd[q]
    BY <1>1, <1>2
  <1>4. ASSUME NEW q \in Proc PROVE TextOK(q)'
    <2>1. CASE q = p
      BY <1>3, <2>1 DEF TextOK
    <2>2. CASE q # p
      <3>1. pc'[q] = pc[q] /\ op'[q] = op[q] /\ fd'[q] = fd[q]
        BY <1>3, <2>2 DEF Apart
      <3>2. fd[q] \in Orphan => orphan'[fd[q]] = orphan[fd[q]]
        BY <1>1, <2>2
      <3>3. fd[q] # None => LooseText(q)' = LooseText(q) /\ OpenPack(q)' = OpenPack(q)
        BY <1>1, <1>2, <3>1, <3>2 DEF LooseText, OpenPack
      <3>4. pc[q] = "write" => fd[q] # None
        BY DEF CallInv, CallOK
      <3> QED BY <3>1, <3>3, <3>4 DEF FileInv, TextOK
    <2> QED BY <2>1, <2>2
  <1>5. ASSUME NEW q \in Proc, NEW r \in Proc PROVE SharedOK(q, r)'
    <2>1. CASE q = p \/ r = p
      BY <1>3, <2>1, NamesApart DEF SharedOK
    <2>2. CASE q # p /\ r # p
      <3>1. UNCHANGED <<op[q], op[r], fd[q], fd[r]>>
        BY <1>3, <2>2 DEF Apart
      <3> QED BY <1>1, <3>1 DEF FileInv, SharedOK, SameFile, Target
    <2> QED BY <2>1, <2>2
  <1> QED BY <1>4, <1>5 DEF FileInv

\* Steps that leave disk, descriptors and locks alone.
LEMMA StillFiles ==
    ASSUME CallInv, FileInv, CallInv', NEW p \in Proc, Apart(p),
           UNCHANGED <<loose, packed, orphan, fd, locked>>,
           op'[p] = op[p] \/ fd[p] = None, pc'[p] # "write"
    PROVE  FileInv'
  <1>1. ASSUME NEW q \in Proc PROVE TextOK(q)'
    <2>1. CASE op'[q] = op[q]
      <3>1. pc'[q] = "write" => pc[q] = "write"
        BY DEF Apart
      <3> QED BY <2>1, <3>1 DEF FileInv, TextOK, LooseText, OpenPack
    <2>2. CASE op'[q] # op[q]
      <3>1. q = p /\ fd'[q] = None
        BY <2>2 DEF Apart
      <3> QED BY <3>1 DEF TextOK
    <2> QED BY <2>1, <2>2
  <1>2. ASSUME NEW q \in Proc, NEW r \in Proc PROVE SharedOK(q, r)'
    <2>1. CASE op'[q] = op[q] /\ op'[r] = op[r]
      BY <2>1 DEF FileInv, SharedOK, SameFile, Target
    <2>2. CASE op'[q] # op[q] \/ op'[r] # op[r]
      <3>1. fd[p] = None /\ p \notin locked /\ (q = p \/ r = p)
        BY <2>2 DEF Apart, CallInv, CallOK
      <3> QED BY <3>1, NamesApart DEF SharedOK
    <2> QED BY <2>1, <2>2
  <1> QED BY <1>1, <1>2 DEF FileInv

\* The lock of a file is granted to one process at a time.
LEMMA LockFiles ==
    ASSUME CallInv, FileInv, NEW p \in Proc, Apart(p), LockLoose(p) \/ LockPacked(p)
    PROVE  FileInv'
  <1>1. /\ UNCHANGED <<loose, packed, orphan, op, fd>> /\ locked' = locked \cup {p}
        /\ Unlocked(p) /\ fd[p] # None
        /\ pc' = [pc EXCEPT ![p] = pc'[p]]
        /\ pc'[p] = "write" => op[p].old = None
    BY Tuples DEF LockLoose, LockPacked, GoTo, CallInv, CallOK, CallTypes
  <1>2. ASSUME NEW q \in Proc PROVE TextOK(q)'
    <2>1. pc'[q] = "write" => pc[q] = "write" \/ op[q].old = None
      BY <1>1 DEF Apart
    <2> QED BY <1>1, <2>1 DEF FileInv, TextOK, LooseText, OpenPack
  <1>3. ASSUME NEW q \in Proc, NEW r \in Proc PROVE SharedOK(q, r)'
    <2>1. (q = p /\ r \in locked) \/ (r = p /\ q \in locked) => ~ SameFile(q, r)
      BY <1>1 DEF Unlocked, SameFile
    <2>2. Target(q)' = Target(q) /\ Target(r)' = Target(r) /\ SameFile(q, r)' = SameFile(q, r)
      BY <1>1 DEF SameFile, Target
    <2>3. SharedOK(q, r)
      BY DEF FileInv
    <2> QED BY <1>1, <2>1, <2>2, <2>3 DEF SharedOK
  <1> QED BY <1>2, <1>3 DEF FileInv

\* The holder of a lock writes its loose file: nobody else who waits for a write
\* has that file.
LEMMA WriteFiles ==
    ASSUME CallInv, FileInv, NEW p \in Proc, Apart(p), Clears(p) \/ WriteLoose(p)
    PROVE  FileInv'
  <1>1. CallTypes /\ CallOK(p) /\ TextOK(p)
    BY DEF CallInv, FileInv
  <1>2. /\ op[p].kind = "set" /\ fd[p] # None /\ p \in locked /\ op[p].name \in Name
        /\ op[p].new \in NewValues
    BY <1>1 DEF CallOK, Clears, WriteLoose
  <1>3. UNCHANGED <<packed, op, fd, locked>>
    BY Tuples DEF Clears, WriteLoose
  <1>4. PICK v \in Value \cup {Empty} :
           PutText(p, v) /\ (Clears(p) => v = Empty) /\ (~ Clears(p) => pc'[p] # "write")
    BY <1>1, <1>2, NamesApart DEF Clears, WriteLoose, GoTo, CallTypes, Value
  <1>5. TextOK(p)'
    <2>1. LooseText(p)' = v
      BY <1>1, <1>2, <1>3, <1>4 DEF PutText, LooseText, CallTypes
    <2> QED BY <1>2, <1>3, <1>4, <2>1 DEF TextOK
  <1>6. ASSUME NEW q \in Proc, q # p PROVE TextOK(q)'
    <2>1. /\ pc'[q] = pc[q] /\ op'[q] = op[q] /\ fd'[q] = fd[q] /\ CallOK(q) /\ TextOK(q)
          /\ SharedOK(p, q)
      BY <1>3, <1>6 DEF Apart, CallInv, FileInv
    <2>2. CASE op[q].kind = "set" /\ fd[q] # None
      <3>1. Target(q) = op[q].name /\ Target(p) = op[p].name /\ op[q].name \in Name
        BY <1>2, <2>1, <2>2 DEF Target, CallOK
      <3>2. CASE SameFile(p, q)
        <4>1. q \notin locked
          BY <1>2, <1>6, <2>1, <3>2 DEF SharedOK
        <4>2. pc[q] # "write"
          BY <2>1, <4>1 DEF CallOK
        <4>3. LooseText(q)' = v
          BY <1>1, <1>2, <1>4, <2>1, <3>1, <3>2
          DEF SameFile, LooseText, PutText, CallTypes
        <4> QED BY <2>1, <2>2, <4>2, <4>3 DEF TextOK
      <3>3. CASE ~ SameFile(p, q)
        <4>1. LooseText(q)' = LooseText(q)
          BY <1>1, <1>2, <1>4, <2>1, <2>2, <3>1, <3>3
          DEF SameFile, LooseText, PutText, CallTypes
        <4> QED BY <2>1, <2>2, <4>1 DEF TextOK
      <3> QED BY <3>2, <3>3
    <2>3. CASE op[q].kind \in {"remove", "pack"} /\ fd[q] # None
      <3>1. Target(q) = PackedRefs /\ Target(p) = op[p].name /\ Target(p) # Target(q)
        BY <1>2, <2>3, NamesApart DEF Target
      <3>2. fd[q] \in Orphan => fd[p] # fd[q]
        BY <2>1, <3>1 DEF SharedOK
      <3>3. OpenPack(q)' = OpenPack(q)
        BY <1>1, <1>2, <1>3, <1>4, <2>1, <2>3, <3>2 DEF OpenPack, PutText, CallTypes
      <3> QED BY <2>1, <2>3, <3>3 DEF TextOK, CallOK
    <2>4. CASE fd[q] = None
      BY <2>1, <2>4 DEF TextOK, CallOK
    <2> QED BY <2>1, <2>2, <2>3, <2>4 DEF CallOK
  <1>7. ASSUME NEW q \in Proc, NEW r \in Proc PROVE SharedOK(q, r)'
    BY <1>3 DEF FileInv, SharedOK, SameFile, Target
  <1> QED BY <1>5, <1>6, <1>7 DEF FileInv

\* SetReference opens the loose file; truncating it spoils no comparison.
LEMMA SetFiles ==
    ASSUME CallInv, FileInv, CallInv', NEW p \in Proc, Apart(p), NEW n \in Name, NEW v, NEW old,
           SetRef(p, n, v, old)
    PROVE  FileInv'
  <1>1. /\ CallTypes /\ fd[p] = None /\ p \notin locked /\ op'[p].kind = "set"
        /\ op'[p].name = n
        /\ loose' = [loose EXCEPT ![n] = IF @ = None \/ old = None THEN Empty ELSE @]
        /\ fd' = [fd EXCEPT ![p] = AtPath] /\ UNCHANGED <<packed, orphan, locked>>
        /\ pc'[p] = "lock"
    BY DEF SetRef, Begin, CallInv, CallTypes, CallOK, GoTo
  <1>2. loose'[n] \in Value \cup {Empty} /\ (loose[n] = Empty => loose'[n] = Empty)
    BY <1>1 DEF CallTypes
  <1>3. fd'[p] = AtPath /\ \A q \in Proc \ {p} : fd'[q] = fd[q]
    BY <1>1 DEF CallTypes
  <1>4. ASSUME NEW q \in Proc PROVE TextOK(q)'
    <2>1. CASE q = p
      BY <1>1, <1>2, <1>3, <2>1 DEF TextOK, LooseText
    <2>2. CASE q # p
      <3>1. pc'[q] = pc[q] /\ op'[q] = op[q] /\ fd'[q] = fd[q] /\ TextOK(q) /\ CallOK(q)
        BY <1>3, <2>2 DEF Apart, FileInv, CallInv
      <3>2. OpenPack(q)' = OpenPack(q)
        BY <1>1, <3>1 DEF OpenPack
      <3>3. op[q].kind = "set" => op[q].name \in Name
        BY <3>1 DEF CallOK
      <3>4. op[q].kind = "set" =>
               \/ LooseText(q)' = LooseText(q)
               \/ LooseText(q)' = loose'[n] /\ LooseText(q) = loose[n]
        BY <1>1, <3>1, <3>3 DEF LooseText, CallTypes
      <3>5. pc[q] = "write" => op[q].kind = "set"
        BY <3>1 DEF CallOK
      <3> QED BY <1>2, <3>1, <3>2, <3>4, <3>5 DEF TextOK
    <2> QED BY <2>1, <2>2
  <1>5. ASSUME NEW q \in Proc, NEW r \in Proc PROVE SharedOK(q, r)'
    <2>1. CASE q = p \/ r = p
      BY <1>1, <1>3, <2>1, NamesApart DEF SharedOK
    <2>2. CASE q # p /\ r # p
      <3>1. UNCHANGED <<op[q], op[r], fd[q], fd[r]>>
        BY <1>3, <2>2 DEF Apart
      <3> QED BY <1>1, <3>1 DEF FileInv, SharedOK, SameFile, Target
    <2> QED BY <2>1, <2>2
  <1> QED BY <1>4, <1>5 DEF FileInv

LEMMA OpenFiles ==
    ASSUME CallInv, FileInv, NEW p \in Proc, Apart(p), OpenPacked(p)
    PROVE  FileInv'
  <1>1. /\ CallTypes /\ fd[p] = None /\ p \notin locked /\ op[p].kind \in {"remove", "pack"}
        /\ packed' = IF packed = None THEN EmptyPack ELSE packed
        /\ fd' = [fd EXCEPT ![p] = AtPath] /\ UNCHANGED <<loose, op, orphan, locked>>
        /\ pc'[p] = "stat"
    BY Tuples DEF OpenPacked, CallInv, CallTypes, CallOK, GoTo
  <1>2. fd'[p] = AtPath /\ \A q \in Proc \ {p} : fd'[q] = fd[q]
    BY <1>1 DEF CallTypes
  <1>3. packed' \in PackFile /\ (packed \in PackFile => packed' = packed)
    BY <1>1, NamesApart DEF CallTypes, EmptyPack, PackFile
  <1>4. ASSUME NEW q \in Proc PROVE TextOK(q)'
    <2>1. CASE q = p
      BY <1>1, <1>2, <1>3, <2>1 DEF TextOK, OpenPack
    <2>2. CASE q # p
      <3>1. pc'[q] = pc[q] /\ op'[q] = op[q] /\ fd'[q] = fd[q] /\ TextOK(q)
        BY <1>2, <2>2 DEF Apart, FileInv
      <3>2. LooseText(q)' = LooseText(q)
        BY <1>1, <3>1 DEF LooseText
      <3>3. OpenPack(q) \in PackFile => OpenPack(q)' \in PackFile
        BY <1>1, <1>3, <3>1 DEF OpenPack
      <3> QED BY <3>1, <3>2, <3>3 DEF TextOK
    <2> QED BY <2>1, <2>2
  <1>5. ASSUME NEW q \in Proc, NEW r \in Proc PROVE SharedOK(q, r)'
    <2>1. CASE q = p \/ r = p
      BY <1>1, <1>2, <2>1, NamesApart DEF SharedOK
    <2>2. CASE q # p /\ r # p
      <3>1. UNCHANGED <<op[q], op[r], fd[q], fd[r]>>
        BY <1>2, <2>2 DEF Apart
      <3> QED BY <1>1, <3>1 DEF FileInv, SharedOK, SameFile, Target
    <2> QED BY <2>1, <2>2
  <1> QED BY <1>4, <1>5 DEF FileInv

\* The users of a path that loses its inode keep its contents and its lock.
LEMMA DetachFiles ==
    ASSUME CallInv, FileInv, NEW p \in Proc, Apart(p), UNCHANGED locked,
           NEW path \in Name \cup {PackedRefs},
           Detach(path, IF path = PackedRefs THEN packed ELSE loose[path]),
           path # PackedRefs => UNCHANGED packed /\ loose' = [loose EXCEPT ![path] = None],
           path = PackedRefs => UNCHANGED loose,
           op'[p] = op[p] \/ fd[p] = None, pc'[p] # "write"
    PROVE  FileInv'
  <1> DEFINE c == IF path = PackedRefs THEN packed ELSE loose[path]
  <1>1. PICK i :
           /\ Users(path) # {} => i \in Orphan /\ \A q \in Proc : fd[q] # i
           /\ fd' = [q \in Proc |-> IF q \in Users(path) THEN i ELSE fd[q]]
           /\ orphan' = IF Users(path) = {} THEN orphan ELSE [orphan EXCEPT ![i] = c]
    BY DetachMoves DEF CallInv
  <1>2. CallTypes
    BY DEF CallInv
  <1>3. ASSUME NEW q \in Users(path)
        PROVE  /\ q \in Proc /\ fd[q] = AtPath /\ Target(q) = path /\ fd'[q] = i
               /\ i \in Orphan /\ orphan'[i] = c
    BY <1>1, <1>2 DEF Users, CallTypes
  <1>4. ASSUME NEW q \in Proc, q \notin Users(path)
        PROVE  /\ fd'[q] = fd[q] /\ (fd[q] = AtPath => Target(q) # path)
               /\ fd[q] \in Orphan => orphan'[fd[q]] = orphan[fd[q]]
    BY <1>1, <1>2, <1>4 DEF Users, CallTypes
  <1> HIDE DEF c
  <1>5. ASSUME NEW q \in Proc PROVE TextOK(q)'
    <2>1. CASE fd[q] = None
      <3>1. fd'[q] = None
        BY <1>2, <1>4, <2>1, NamesApart DEF Users
      <3>2. pc'[q] # "write"
        BY <2>1 DEF Apart, CallInv, CallOK
      <3> QED BY <3>1, <3>2 DEF TextOK
    <2>2. CASE fd[q] # None
      <3>1. op'[q] = op[q] /\ TextOK(q) /\ CallOK(q) /\ (pc'[q] = "write" => pc[q] = "write")
        BY <2>2 DEF Apart, FileInv, CallInv
      <3>2. CASE op[q].kind = "set"
        <4>1. Target(q) = op[q].name /\ op[q].name \in Name /\ Target(q) # PackedRefs
          BY <3>1, <3>2, NamesApart DEF Target, CallOK
        <4>2. LooseText(q)' = LooseText(q)
          <5>1. CASE q \in Users(path)
            BY <1>3, <3>1, <4>1, <5>1, NamesApart DEF LooseText, c
          <5>2. CASE q \notin Users(path)
            <6>1. fd'[q] = fd[q] /\ (fd[q] = AtPath => op[q].name # path)
              BY <1>4, <4>1, <5>2
            <6>2. fd[q] \in Orphan => orphan'[fd[q]] = orphan[fd[q]]
              BY <1>4, <5>2
            <6>3. fd[q] = AtPath => loose'[op[q].name] = loose[op[q].name]
              BY <1>2, <4>1, <6>1 DEF CallTypes
            <6> QED BY <1>2, <2>2, <3>1, <6>1, <6>2, <6>3 DEF LooseText, CallTypes
          <5> QED BY <5>1, <5>2
        <4> QED BY <2>2, <3>1, <3>2, <4>2 DEF TextOK
      <3>3. CASE op[q].kind \in {"remove", "pack"}
        <4>1. Target(q) = PackedRefs
          BY <3>3 DEF Target
        <4>2. OpenPack(q)' = OpenPack(q)
          <5>1. CASE q \in Users(path)
            BY <1>3, <3>1, <4>1, <5>1, NamesApart DEF OpenPack, c
          <5>2. CASE q \notin Users(path)
            <6>1. fd'[q] = fd[q] /\ (fd[q] = AtPath => path # PackedRefs)
              BY <1>4, <4>1, <5>2
            <6>2. fd[q] \in Orphan => orphan'[fd[q]] = orphan[fd[q]]
              BY <1>4, <5>2
            <6> QED BY <1>2, <2>2, <6>1, <6>2 DEF OpenPack, CallTypes
          <5> QED BY <5>1, <5>2
        <4> QED BY <2>2, <3>1, <3>3, <4>2 DEF TextOK, CallOK
      <3> QED BY <2>2, <3>1, <3>2, <3>3 DEF CallOK
    <2> QED BY <2>1, <2>2
  <1>6. ASSUME NEW q \in Proc, NEW r \in Proc PROVE SharedOK(q, r)'
    <2>1. CASE fd[q] = None \/ fd[r] = None
      <3>1. \/ fd[q] = None /\ fd'[q] = None /\ q \notin locked
            \/ fd[r] = None /\ fd'[r] = None /\ r \notin locked
        BY <1>4, <2>1, NamesApart DEF Users, CallInv, CallOK
      <3> QED BY <3>1, NamesApart DEF SharedOK
    <2>2. CASE fd[q] # None /\ fd[r] # None
      <3>1. Target(q)' = Target(q) /\ Target(r)' = Target(r)
        BY <2>2 DEF Apart, Target
      <3>2. SharedOK(q, r)
        BY DEF FileInv
      <3>3. SameFile(q, r)' => SameFile(q, r)
        BY <1>1, <1>3, <1>4, <3>1, NamesApart DEF SameFile
      <3>4. fd'[q] = fd'[r] /\ fd'[q] \in Orphan => Target(q) = Target(r)
        BY <1>1, <1>3, <1>4, <3>2 DEF SharedOK
      <3> QED BY <3>1, <3>2, <3>3, <3>4 DEF SharedOK
    <2> QED BY <2>1, <2>2
  <1> QED BY <1>5, <1>6 DEF FileInv

LEMMA FileInit == Init => FileInv
  <1> SUFFICES ASSUME Init PROVE FileInv
    OBVIOUS
  <1>1. NoOp.kind = "none"
    BY DEF NoOp
  <1>2. \A p \in Proc : TextOK(p)
    BY <1>1 DEF Init, TextOK
  <1>3. \A p, q \in Proc : SharedOK(p, q)
    BY NamesApart DEF Init, SharedOK
  <1> QED BY <1>2, <1>3 DEF FileInv

\* A call that begins touches nobody's open file but to unlink it.
LEMMA BeginFiles ==
    ASSUME CallInv, FileInv, CallInv', NEW p \in Proc, Apart(p), Start(p) PROVE FileInv'
  <1>1. pc[p] = "idle" /\ fd[p] = None
    BY DEF Start, SetRef, GetRef, RemoveRef, PackRefs, Begin, CallInv, CallOK
  <1>2. ASSUME NEW n \in Name, GetRef(p, n) PROVE FileInv'
    <2>1. UNCHANGED <<loose, packed, orphan, fd, locked>> /\ pc'[p] # "write"
      BY <1>2, Tuples DEF GetRef, GoTo, CallInv, CallTypes
    <2> QED BY <1>1, <2>1, StillFiles
  <1>3. CASE PackRefs(p)
    <2>1. UNCHANGED <<loose, packed, orphan, fd, locked>> /\ pc'[p] # "write"
      BY <1>3, Tuples DEF PackRefs, GoTo, CallInv, CallTypes
    <2> QED BY <1>1, <2>1, StillFiles
  <1>4. ASSUME NEW n \in Name, RemoveRef(p, n) PROVE FileInv'
    <2>1. /\ UNCHANGED <<packed, locked>> /\ loose' = [loose EXCEPT ![n] = None]
          /\ pc'[p] # "write" /\ n # PackedRefs
          /\ Detach(n, IF n = PackedRefs THEN packed ELSE loose[n])
      BY <1>4, NamesApart DEF RemoveRef, GoTo, CallInv, CallTypes
    <2> QED BY <1>1, <2>1, DetachFiles
  <1> QED BY <1>2, <1>3, <1>4, SetFiles DEF Start

\* Every other step, by what it does to the descriptors.
LEMMA StepFiles ==
    ASSUME CallInv, FileInv, CallInv', NEW p \in Proc, Apart(p),
           Step(p) \/ Timeout(p) \/ Abort(p)
    PROVE  FileInv'
  <1>1. pc \in [Proc -> Stages] /\ CallOK(p) /\ CallTypes
    BY DEF CallInv, CallTypes
  <1>2. CASE Finished(p)
    <2>1. CloseFile(p) /\ pc'[p] = "done"
      BY <1>1, <1>2 DEF Finished, Finish, GoTo
    <2> QED BY <2>1, CloseFiles
  <1>3. CASE Reopen(p)
    <2>1. CloseFile(p) /\ pc'[p] = "reopen"
      BY <1>1, <1>3 DEF Reopen, GoTo
    <2> QED BY <2>1, CloseFiles
  <1>4. CASE Return(p)
    <2>1. UNCHANGED <<loose, packed, orphan, fd, locked>> /\ fd[p] = None /\ pc'[p] = "idle"
      BY <1>1, <1>4, Tuples DEF Return, GoTo, CallOK
    <2> QED BY <2>1, StillFiles
  <1>5. CASE ToPacked(p) \/ StatPacked(p) \/ Recheck(p) \/ Copies(p)
    <2>1. UNCHANGED <<loose, packed, orphan, fd, locked, op>>
      BY <1>5, Tuples DEF ToPacked, StatPacked, Recheck, Copies
    <2>2. pc'[p] # "write"
      BY <1>1, <1>5 DEF ToPacked, StatPacked, Recheck, Copies, GoTo, CallOK
    <2> QED BY <2>1, <2>2, StillFiles
  <1>6. CASE RenamePacked(p)
    <2>1. UNCHANGED <<loose, locked, op>> /\ pc'[p] = "prune" /\ Detach(PackedRefs, packed)
      BY <1>1, <1>6 DEF RenamePacked, GoTo
    <2>2. Detach(PackedRefs, IF PackedRefs = PackedRefs THEN packed ELSE loose[PackedRefs])
      BY <2>1
    <2> QED BY <2>1, <2>2, DetachFiles
  <1>7. ASSUME NEW n \in Name, Prune(p, n) PROVE FileInv'
    <2>1. /\ UNCHANGED <<packed, locked, op>> /\ loose' = [loose EXCEPT ![n] = None]
          /\ pc'[p] = "prune" /\ n # PackedRefs
          /\ Detach(n, IF n = PackedRefs THEN packed ELSE loose[n])
      BY <1>7, NamesApart DEF Prune
    <2> QED BY <2>1, DetachFiles
  <1> QED BY <1>2, <1>3, <1>4, <1>5, <1>6, <1>7, StepKinds, LockFiles, WriteFiles, OpenFiles

LEMMA FileStep == ASSUME CallInv, FileInv, [Next]_vars PROVE FileInv'
  <1>1. CASE UNCHANGED vars
    <2>1. UNCHANGED <<pc, op>> /\ UNCHANGED disk /\ UNCHANGED local
      BY <1>1 DEF vars
    <2> QED BY <2>1, Tuples
            DEF FileInv, TextOK, SharedOK, SameFile, Target, LooseText, OpenPack
  <1> QED BY <1>1, ActCall, BeginFiles, StepFiles DEF Next
-----------------------------------------------------------------------------
(* What a step does to the references.                                      *)

\* A step of p changes a loose file when p writes that reference or prunes it, it
\* replaces packed-refs at its rename, and it takes a path from those who have it
\* open when it unlinks it or renames over it.
Effects(p) ==
    /\ \A n \in Name : loose'[n] # loose[n] =>
          \/ Writes(op'[p].kind) /\ op'[p].name = n
          \/ pc[p] = "prune" /\ n \in todo[p] /\ loose'[n] = None
    /\ packed' # packed =>
          \/ packed = None /\ packed' = EmptyPack
          \/ pc[p] = "rename" /\ packed' = buf[p]
    /\ \A q \in Proc : fd[q] = AtPath /\ fd'[q] # AtPath /\ fd'[q] # None =>
          \/ Target(q) = PackedRefs /\ pc[p] = "rename"
          \/ op'[p].kind = "remove" /\ op'[p].name = Target(q)
          \/ pc[p] = "prune" /\ Target(q) \in todo[p]
    /\ stale => stale'

LEMMA DetachKeeps ==
    ASSUME NEW path, NEW c, Detach(path, c), NEW q \in Proc, fd[q] = AtPath, fd'[q] # AtPath
    PROVE  Target(q) = path
  BY DEF Detach

LEMMA BeginEffects == ASSUME CallInv, NEW p \in Proc, Start(p) PROVE Effects(p)
  <1>1. CallTypes
    BY DEF CallInv
  <1>2. ASSUME NEW c, Begin(p, c) PROVE op'[p] = c /\ UNCHANGED stale
    BY <1>1, <1>2 DEF Begin, CallTypes
  <1>3. ASSUME NEW n \in Name, NEW v, NEW old, SetRef(p, n, v, old) PROVE Effects(p)
    <2> DEFINE c == [kind |-> "set", name |-> n, new |-> v, old |-> old]
    <2>1. Begin(p, c) /\ Writes(c.kind) /\ c.name = n
      BY <1>3 DEF SetRef, Writes
    <2> HIDE DEF c
    <2> QED BY <1>1, <1>2, <1>3, <2>1 DEF SetRef, CallTypes, Effects
  <1>4. ASSUME NEW n \in Name, GetRef(p, n) PROVE Effects(p)
    BY <1>1, <1>2, <1>4, Tuples DEF GetRef, Effects
  <1>5. ASSUME NEW n \in Name, RemoveRef(p, n) PROVE Effects(p)
    <2> DEFINE c == [kind |-> "remove", name |-> n, new |-> None, old |-> None]
    <2>1. Begin(p, c) /\ Writes(c.kind) /\ c.name = n /\ c.kind = "remove"
      BY <1>5 DEF RemoveRef, Writes
    <2> HIDE DEF c
    <2>2. op'[p] = c /\ UNCHANGED <<stale, packed>> /\ loose' = [loose EXCEPT ![n] = None]
      BY <1>2, <1>5, <2>1 DEF RemoveRef
    <2>3. \A q \in Proc : fd[q] = AtPath /\ fd'[q] # AtPath => Target(q) = n
      BY <1>5, DetachKeeps DEF RemoveRef
    <2> QED BY <1>1, <2>1, <2>2, <2>3 DEF CallTypes, Effects
  <1>6. ASSUME PackRefs(p) PROVE Effects(p)
    BY <1>1, <1>2, <1>6, Tuples DEF PackRefs, Effects
  <1> QED BY <1>3, <1>4, <1>5, <1>6 DEF Start

LEMMA StepEffects ==
    ASSUME CallInv, NEW p \in Proc, Step(p) \/ Timeout(p) \/ Abort(p) PROVE Effects(p)
  <1>1. CallTypes /\ CallOK(p)
    BY DEF CallInv
  <1>2. CASE Finished(p) \/ Reopen(p)
    <2>1. UNCHANGED <<loose, packed, stale>> /\ fd' = [fd EXCEPT ![p] = None]
      BY <1>2, Tuples DEF Finished, Finish, Reopen, CloseFile
    <2> QED BY <1>1, <2>1 DEF CallTypes, Effects
  <1>3. CASE Return(p) \/ ToPacked(p) \/ LockLoose(p) \/ StatPacked(p) \/ LockPacked(p)
             \/ Recheck(p) \/ Copies(p)
    <2>1. UNCHANGED <<loose, packed, fd>> /\ (stale => stale')
      BY <1>1, <1>3, Tuples
      DEF Return, ToPacked, LockLoose, StatPacked, LockPacked, Recheck, Copies, CallTypes
    <2> QED BY <2>1 DEF Effects
  <1>4. CASE Clears(p) \/ WriteLoose(p)
    <2>1. UNCHANGED <<packed, fd, stale, op>>
      BY <1>4, Tuples DEF Clears, WriteLoose
    <2>2. op[p].kind = "set"
      BY <1>1, <1>4 DEF Clears, WriteLoose, CallOK
    <2>3. \E v : PutText(p, v)
      BY <1>4 DEF Clears, WriteLoose
    <2>4. \A n \in Name : loose'[n] # loose[n] => n = op[p].name
      BY <1>1, <2>3 DEF PutText, CallTypes
    <2> QED BY <2>1, <2>2, <2>4 DEF Effects, Writes
  <1>5. CASE OpenPacked(p)
    <2>1. /\ UNCHANGED <<loose, stale>> /\ fd' = [fd EXCEPT ![p] = AtPath]
          /\ packed' = IF packed = None THEN EmptyPack ELSE packed
      BY <1>5, Tuples DEF OpenPacked
    <2> QED BY <1>1, <2>1 DEF Effects, CallTypes
  <1>6. CASE RenamePacked(p)
    <2>1. /\ UNCHANGED <<loose, stale>> /\ packed' = buf[p] /\ pc[p] = "rename"
          /\ Detach(PackedRefs, packed)
      BY <1>6, Tuples DEF RenamePacked
    <2>2. \A q \in Proc : fd[q] = AtPath /\ fd'[q] # AtPath => Target(q) = PackedRefs
      BY <2>1, DetachKeeps
    <2> QED BY <2>1, <2>2 DEF Effects
  <1>7. ASSUME NEW n \in Name, Prune(p, n) PROVE Effects(p)
    <2>1. /\ UNCHANGED <<packed, stale>> /\ pc[p] = "prune" /\ n \in todo[p]
          /\ loose' = [loose EXCEPT ![n] = None] /\ Detach(n, loose[n])
      BY <1>7, Tuples DEF Prune
    <2>2. \A q \in Proc : fd[q] = AtPath /\ fd'[q] # AtPath => Target(q) = n
      BY <2>1, DetachKeeps
    <2> QED BY <1>1, <2>1, <2>2 DEF Effects, CallTypes
  <1> QED BY <1>2, <1>3, <1>4, <1>5, <1>6, <1>7, StepKinds
-----------------------------------------------------------------------------
(* Rewriting packed-refs.                                                   *)

\* Calls that write and calls that pack exclude each other.
LEMMA ExcludedStep ==
    ASSUME CallInv, CallInv', Excluded, NEW p \in Proc, Apart(p),
           Start(p) \/ Step(p) \/ Timeout(p) \/ Abort(p)
    PROVE  Excluded'
  <1>1. CallTypes
    BY DEF CallInv
  <1>2. CASE Start(p)
    <2>1. PICK c : Begin(p, c)
      BY <1>2 DEF Start, SetRef, GetRef, RemoveRef, PackRefs
    <2>2. op'[p] = c /\ MayStart(c.kind) /\ \A q \in Proc \ {p} : op'[q] = op[q]
      BY <1>1, <2>1 DEF Begin, CallTypes
    <2> QED BY <2>2 DEF Excluded, MayStart, Running, Writes
  <1>3. CASE Step(p) \/ Timeout(p) \/ Abort(p)
    <2>1. UNCHANGED op \/ op'[p] = NoOp
      <3>1. UNCHANGED op \/ Return(p)
        BY <1>3, StepKinds, Tuples
        DEF Finished, Finish, LockLoose, ToPacked, Clears, WriteLoose, OpenPacked, StatPacked,
            LockPacked, Recheck, Reopen, Copies, RenamePacked, Prune
      <3> QED BY <1>1, <3>1 DEF Return, CallTypes
    <2> QED BY <2>1 DEF Excluded, Writes, NoOp, Apart
  <1> QED BY <1>2, <1>3

\* One process at a time has the lock of the file at packed-refs' path.
LEMMA OneHolder ==
    ASSUME CallInv, FileInv, NEW p \in Proc, NEW q \in Proc, fd[p] = AtPath, fd[q] = AtPath,
           pc[p] \in Rewriting, pc[q] \in Rewriting
    PROVE  p = q
  <1>1. CallOK(p) /\ CallOK(q) /\ SharedOK(p, q)
    BY DEF CallInv, FileInv
  <1>2. p \in locked /\ q \in locked /\ Target(p) = PackedRefs /\ Target(q) = PackedRefs
    BY <1>1 DEF CallOK, Target
  <1> QED BY <1>1, <1>2 DEF SharedOK, SameFile

\* A rewrite in progress survives the steps of other processes.
LEMMA OthersRewrite ==
    ASSUME CallInv, FileInv, RewriteInv, CallInv', Excluded', NEW p \in Proc, Apart(p),
           Effects(p), NEW q \in Proc, q # p
    PROVE  RewriteOK(q)'
  <1>1. /\ CallTypes /\ CallOK(p) /\ CallOK(q) /\ RewriteOK(p) /\ RewriteOK(q) /\ TextOK(q)
        /\ pc'[q] = pc[q] /\ op'[q] = op[q] /\ buf'[q] = buf[q] /\ todo'[q] = todo[q]
    BY DEF CallInv, FileInv, RewriteInv, Apart
  <1>2. op[q].kind = "pack" => \A n \in Name : loose'[n] # loose[n] =>
           pc[p] = "prune" /\ n \in todo[p] /\ loose'[n] = None
    BY <1>1 DEF Effects, Excluded
  <1>3. \A n \in todo[q] : n \in Name /\ op[q].kind = "pack"
    BY <1>1 DEF CallOK, CallTypes
  <1>4. \A n \in todo[q] : loose'[n] \in Hash \cup {None}
    BY <1>1, <1>2, <1>3 DEF RewriteOK
  <1>5. ASSUME ~ stale' PROVE pc[q] \in Rewriting => pc[p] # "rename" /\ fd'[q] = AtPath
    <2> SUFFICES ASSUME pc[q] \in Rewriting PROVE pc[p] # "rename" /\ fd'[q] = AtPath
      OBVIOUS
    <2>1. ~ stale /\ fd[q] = AtPath /\ Target(q) = PackedRefs /\ fd'[q] # None
      BY <1>1, <1>5, NamesApart DEF Effects, RewriteOK, CallOK, Target, Apart
    <2>2. pc[p] # "rename"
      BY <1>1, <2>1, OneHolder DEF RewriteOK
    <2>3. PackedRefs \notin todo[p] /\ (op'[p].kind = "remove" => op'[p].name # PackedRefs)
      BY <1>1, NamesApart DEF CallTypes, CallInv, CallOK
    <2> QED BY <2>1, <2>2, <2>3 DEF Effects
  <1>6. ASSUME ~ stale', pc[q] = "rename", NEW n \in Name
        PROVE  buf[q].recs[n] = Rewritten(q, n)'
    <2>1. ~ stale /\ fd[q] = AtPath /\ buf[q].recs[n] = Rewritten(q, n)
      BY <1>1, <1>6 DEF Effects, RewriteOK
    <2>2. packed # None
      BY <1>1, <1>6, <2>1, NamesApart DEF TextOK, CallOK, OpenPack
    <2>3. packed' = packed
      BY <1>5, <1>6, <2>2 DEF Effects
    <2>4. CASE op[q].kind = "remove"
      BY <1>1, <2>1, <2>3, <2>4 DEF Rewritten
    <2>5. CASE op[q].kind = "pack" /\ loose'[n] = loose[n]
      BY <1>1, <2>1, <2>3, <2>5 DEF Rewritten, LooseValue
    <2>6. CASE op[q].kind = "pack" /\ loose'[n] # loose[n]
      <3>1. pc[p] = "prune" /\ n \in todo[p] /\ loose'[n] = None
        BY <1>2, <2>6
      <3>2. loose[n] \in Hash /\ packed.recs[n] = loose[n]
        BY <1>1, <2>1, <2>2, <2>6, <3>1 DEF RewriteOK, PackedValue
      <3>3. LooseValue(n) = loose[n] /\ LooseValue(n)' = None
        BY <3>1, <3>2, NamesApart DEF LooseValue, Value
      <3> QED BY <1>1, <2>1, <2>3, <2>6, <3>2, <3>3, NamesApart DEF Rewritten
    <2> QED BY <1>1, <1>6, <2>4, <2>5, <2>6 DEF CallOK
  <1>7. ASSUME ~ stale', pc[q] = "prune", NEW n \in todo[q], loose'[n] \in Hash
        PROVE  PackedValue(n)' = loose'[n]
    <2>1. loose'[n] = loose[n]
      BY <1>2, <1>3, <1>7, NamesApart
    <2>2. PackedValue(n) = loose[n] /\ n \in Name
      BY <1>1, <1>3, <1>7, <2>1 DEF Effects, RewriteOK
    <2>3. CASE packed' = packed
      BY <2>1, <2>2, <2>3 DEF PackedValue
    <2>4. CASE packed' # packed
      <3>1. packed # None
        BY <1>7, <2>1, <2>2, NamesApart DEF PackedValue
      <3>2. pc[p] = "rename" /\ packed' = buf[p] /\ buf[p] # None
        BY <1>1, <2>4, <3>1, NamesApart DEF Effects, CallOK
      <3>3. op[p].kind = "pack"
        BY <1>1, <1>3, <1>7, <3>2 DEF RewriteInv, Excluded, Writes, CallOK
      <3>4. buf[p].recs[n] = Rewritten(p, n) /\ LooseValue(n) = loose[n]
        BY <1>1, <1>7, <2>1, <2>2, <3>2, NamesApart DEF Effects, RewriteOK, LooseValue, Value
      <3> QED BY <1>7, <2>1, <3>2, <3>3, <3>4 DEF Rewritten, PackedValue
    <2> QED BY <2>3, <2>4
  <1> QED BY <1>1, <1>4, <1>5, <1>6, <1>7 DEF RewriteOK

\* A rewrite advances.
LEMMA OwnRewrite ==
    ASSUME CallInv, FileInv, RewriteInv, CallInv', NEW p \in Proc,
           Start(p) \/ Step(p) \/ Timeout(p) \/ Abort(p)
    PROVE  RewriteOK(p)'
  <1>1. CallTypes /\ CallOK(p) /\ CallOK(p)' /\ RewriteOK(p) /\ TextOK(p)
    BY DEF CallInv, FileInv, RewriteInv
  <1>2. CASE pc'[p] \notin Rewriting \cup {"prune"}
    BY <1>1, <1>2 DEF CallOK, RewriteOK
  <1>3. ASSUME pc'[p] \in Rewriting \cup {"prune"}
        PROVE  Recheck(p) \/ Copies(p) \/ RenamePacked(p) \/ \E n \in Name : Prune(p, n)
    <2>1. ~ Start(p)
      BY <1>1, <1>3 DEF Start, SetRef, GetRef, RemoveRef, PackRefs, GoTo, CallTypes
    <2>2. ~ (Finished(p) \/ Return(p) \/ LockLoose(p) \/ ToPacked(p) \/ Clears(p)
             \/ WriteLoose(p) \/ OpenPacked(p) \/ StatPacked(p) \/ LockPacked(p) \/ Reopen(p))
      BY <1>1, <1>3
      DEF Finished, Finish, Return, LockLoose, ToPacked, Clears, WriteLoose, OpenPacked,
          StatPacked, LockPacked, Reopen, GoTo, CallTypes
    <2> QED BY <2>1, <2>2, StepKinds
  <1>4. CASE Recheck(p)
    <2>1. /\ UNCHANGED <<todo, fd>> /\ pc[p] = "recheck" /\ pc'[p] = op[p].kind
          /\ (~ stale' => fd[p] = AtPath)
      BY <1>1, <1>4, Tuples DEF Recheck, GoTo, CallTypes
    <2>2. todo'[p] = {} /\ pc'[p] \in {"remove", "pack"}
      BY <1>1, <2>1 DEF CallOK
    <2> QED BY <2>1, <2>2 DEF RewriteOK
  <1>5. CASE Copies(p)
    <2>1. /\ UNCHANGED <<loose, packed, fd, op, stale>> /\ pc'[p] = "rename"
          /\ pc[p] \in {"remove", "pack"}
      BY <1>1, <1>5, Tuples DEF Copies, GoTo, CallTypes
    <2>2. \A n \in todo'[p] : loose'[n] \in Hash
      <3>1. CASE pc[p] = "remove"
        BY <1>1, <1>5, <3>1 DEF Copies, CallOK
      <3>2. CASE pc[p] = "pack"
        BY <1>1, <1>5, <2>1, <3>2 DEF Copies, CallTypes
      <3> QED BY <2>1, <3>1, <3>2
    <2>3. ASSUME ~ stale PROVE fd[p] = AtPath /\ OpenPack(p) = packed /\ packed \in PackFile
      BY <1>1, <1>5, <2>1, <2>3, CopyType DEF RewriteOK, OpenPack
    <2>4. ASSUME ~ stale, NEW n \in Name PROVE buf'[p].recs[n] = Rewritten(p, n)
      <3>1. packed.recs \in [Name -> Hash \cup {None}]
        BY <2>3, <2>4 DEF PackFile
      <3>2. CASE pc[p] = "remove"
        <4>1. buf'[p] = [packed EXCEPT !.recs[op[p].name] = None] /\ op[p].kind = "remove"
          BY <1>1, <1>5, <2>3, <2>4, <3>2 DEF Copies, CallOK, CallTypes
        <4>2. buf'[p].recs = [packed.recs EXCEPT ![op[p].name] = None]
          BY <2>3, <2>4, <4>1 DEF PackFile
        <4> QED BY <3>1, <4>1, <4>2 DEF Rewritten
      <3>3. CASE pc[p] = "pack"
        <4>1. buf'[p] = [recs |-> Merged(p), sorted |-> TRUE] /\ op[p].kind = "pack"
          BY <1>1, <1>5, <3>3 DEF Copies, CallOK, CallTypes
        <4> QED BY <2>3, <2>4, <4>1 DEF Rewritten, Merged
      <3> QED BY <2>1, <3>2, <3>3
    <2>5. \A n \in Name : Rewritten(p, n)' = Rewritten(p, n)
      BY <2>1 DEF Rewritten, LooseValue
    <2> QED BY <2>1, <2>2, <2>3, <2>4, <2>5 DEF RewriteOK
  <1>6. CASE RenamePacked(p)
    <2>1. /\ UNCHANGED <<loose, todo, op, stale>> /\ pc[p] = "rename" /\ pc'[p] = "prune"
          /\ packed' = buf[p]
      BY <1>1, <1>6, Tuples DEF RenamePacked, GoTo, CallTypes
    <2>2. ASSUME ~ stale, NEW n \in todo[p], loose[n] \in Hash PROVE PackedValue(n)' = loose[n]
      <3>1. op[p].kind = "pack" /\ n \in Name /\ buf[p] # None
        BY <1>1, <2>1, <2>2, NamesApart DEF CallOK, CallTypes
      <3>2. LooseValue(n) = loose[n]
        BY <2>2, NamesApart DEF LooseValue, Value
      <3>3. buf[p].recs[n] = loose[n]
        BY <1>1, <2>1, <2>2, <3>1, <3>2 DEF RewriteOK, Rewritten
      <3> QED BY <2>1, <3>1, <3>3 DEF PackedValue
    <2> QED BY <1>1, <2>1, <2>2 DEF RewriteOK
  <1>7. ASSUME NEW n \in Name, Prune(p, n) PROVE RewriteOK(p)'
    <2>1. /\ UNCHANGED <<packed, pc, op, stale>> /\ pc[p] = "prune"
          /\ loose' = [loose EXCEPT ![n] = None] /\ todo'[p] = todo[p] \ {n}
          /\ todo[p] \subseteq Name
      BY <1>1, <1>7, Tuples DEF Prune, CallTypes
    <2>2. \A m \in todo'[p] : loose'[m] = loose[m] /\ m \in todo[p]
      BY <1>1, <2>1 DEF CallTypes
    <2> QED BY <1>1, <2>1, <2>2 DEF RewriteOK, PackedValue
  <1> QED BY <1>2, <1>3, <1>4, <1>5, <1>6, <1>7

LEMMA RewriteInit == Init => RewriteInv
  BY DEF Init, RewriteInv, Excluded, RewriteOK, Writes, NoOp

\* Every action, with what it leaves alone.
LEMMA ActRewrite ==
    ASSUME CallInv, FileInv, RewriteInv, NEW p \in Proc,
           Start(p) \/ Step(p) \/ Timeout(p) \/ Abort(p)
    PROVE  CallInv' /\ Apart(p) /\ Effects(p) /\ RewriteInv'
  <1>1. CallInv' /\ Apart(p)
    BY ActCall
  <1>2. Effects(p)
    BY BeginEffects, StepEffects
  <1>3. Excluded'
    BY <1>1, ExcludedStep DEF RewriteInv
  <1> QED BY <1>1, <1>2, <1>3, OthersRewrite, OwnRewrite DEF RewriteInv

LEMMA RewriteStep == ASSUME CallInv, FileInv, RewriteInv, [Next]_vars PROVE RewriteInv'
  <1>1. CASE UNCHANGED vars
    <2>1. UNCHANGED <<pc, op>> /\ UNCHANGED disk /\ UNCHANGED local /\ UNCHANGED ghosts
      BY <1>1 DEF vars
    <2> QED BY <2>1, Tuples
            DEF RewriteInv, Excluded, RewriteOK, Rewritten, LooseValue, PackedValue
  <1> QED BY <1>1, ActRewrite DEF Next

\* The invariants of calls, files and rewrites hold together.
LEMMA Inductive == Spec => [](CallInv /\ FileInv /\ RewriteInv)
  <1>1. Init => CallInv /\ FileInv /\ RewriteInv
    BY CallInit, FileInit, RewriteInit
  <1>2. CallInv /\ FileInv /\ RewriteInv /\ [Next]_vars => (CallInv /\ FileInv /\ RewriteInv)'
    BY CallStep, FileStep, RewriteStep
  <1> QED BY <1>1, <1>2, PTL DEF Spec
-----------------------------------------------------------------------------
(* What a reader of references sees.                                        *)

\* A step leaves what Reference reports alone unless the process it is a step of
\* sets or removes that reference.
LEMMA VisibleStays ==
    ASSUME CallInv, FileInv, RewriteInv, NEW p \in Proc,
           Start(p) \/ Step(p) \/ Timeout(p) \/ Abort(p),
           ~ stale', NEW n \in Name, ~ (Writes(op'[p].kind) /\ op'[p].name = n)
    PROVE  Visible(n)' = Visible(n)
  <1>1. CallTypes /\ CallOK(p) /\ CallInv' /\ Apart(p) /\ Effects(p) /\ ~ stale
    BY ActRewrite DEF CallInv, Effects
  <1>2. RewriteOK(p) /\ TextOK(p)
    BY DEF RewriteInv, FileInv
  <1>3. CASE loose'[n] # loose[n]
    <2>1. pc[p] = "prune" /\ n \in todo[p] /\ loose'[n] = None
      BY <1>1, <1>3 DEF Effects
    <2>2. loose[n] \in Hash /\ PackedValue(n) = loose[n]
      BY <1>1, <1>2, <1>3, <2>1 DEF RewriteOK
    <2>3. packed' = packed
      BY <1>1, <2>1, <2>2, NamesApart DEF Effects, PackedValue
    <2> QED BY <2>1, <2>2, <2>3, NamesApart DEF Visible, LooseValue, PackedValue, Value
  <1>4. CASE loose'[n] = loose[n] /\ packed' = packed
    BY <1>4 DEF Visible, LooseValue, PackedValue
  <1>5. CASE loose'[n] = loose[n] /\ packed = None /\ packed' = EmptyPack
    BY <1>5, NamesApart DEF Visible, LooseValue, PackedValue, EmptyPack
  <1>6. CASE loose'[n] = loose[n] /\ pc[p] = "rename" /\ packed' = buf[p]
    <2>1. /\ buf[p].recs[n] = Rewritten(p, n) /\ fd[p] = AtPath /\ op'[p] = op[p]
          /\ op[p].kind \in {"remove", "pack"} /\ buf[p] # None
      <3>1. ~ Start(p) /\ ~ Return(p)
        BY <1>6 DEF Start, SetRef, GetRef, RemoveRef, PackRefs, Begin, Return
      <3>2. UNCHANGED op
        BY <3>1, StepKinds, Tuples
        DEF Finished, Finish, LockLoose, ToPacked, Clears, WriteLoose, OpenPacked, StatPacked,
            LockPacked, Recheck, Reopen, Copies, RenamePacked, Prune
      <3> QED BY <1>1, <1>2, <1>6, <3>2, NamesApart DEF RewriteOK, CallOK
    <2>2. packed # None
      BY <1>1, <1>2, <1>6, <2>1, NamesApart DEF TextOK, CallOK, OpenPack
    <2>3. CASE op[p].kind = "remove"
      BY <1>6, <2>1, <2>2, <2>3 DEF Rewritten, Visible, LooseValue, PackedValue, Writes
    <2>4. CASE op[p].kind = "pack"
      <3>1. LooseValue(n)' = LooseValue(n)
        BY <1>6 DEF LooseValue
      <3> QED BY <1>6, <2>1, <2>2, <2>4, <3>1, NamesApart DEF Rewritten, Visible, PackedValue
    <2> QED BY <2>1, <2>3, <2>4
  <1> QED BY <1>1, <1>3, <1>4, <1>5, <1>6 DEF Effects
-----------------------------------------------------------------------------
(* Calls that no other write of their reference overlaps.                   *)

\* A step of p spoils no such call of another process.
LEMMA OthersAlone ==
    ASSUME CallInv, FileInv, RewriteInv, AloneInv, NEW p \in Proc,
           Start(p) \/ Step(p) \/ Timeout(p) \/ Abort(p), NEW q \in Proc, q # p
    PROVE  AloneOK(q)'
  <1>1. /\ CallInv' /\ Apart(p) /\ Effects(p) /\ RewriteInv' /\ CallTypes /\ CallOK(q)
        /\ CallOK(p) /\ AloneOK(q) /\ pc'[q] = pc[q] /\ op'[q] = op[q]
    BY ActRewrite DEF CallInv, AloneInv, Apart
  <1>2. /\ start'[q] = start[q] /\ result'[q] = result[q]
        /\ calm'[q] => calm[q]
        /\ calm'[q] /\ Start(p) => ~ (Writes(op'[p].kind) /\ op'[p].name = op[q].name)
        /\ op'[p] = op[p] \/ op'[p].kind = "none" \/ Start(p)
    <2>1. CASE Start(p)
      <3>1. PICK c : Begin(p, c)
        BY <2>1 DEF Start, SetRef, GetRef, RemoveRef, PackRefs
      <3> QED BY <1>1, <2>1, <3>1 DEF Begin, CallTypes
    <2>2. CASE Return(p)
      BY <1>1, <2>2, Tuples DEF Return, CallTypes, NoOp, Start, SetRef, GetRef, RemoveRef, PackRefs, Begin
    <2>3. CASE ~ Start(p) /\ ~ Return(p)
      <3>1. UNCHANGED <<op, start, calm>> /\ (UNCHANGED result \/ Finished(p))
        BY <2>3, StepKinds, Tuples
        DEF Finished, Finish, LockLoose, ToPacked, Clears, WriteLoose, OpenPacked, StatPacked,
            LockPacked, Recheck, Reopen, Copies, RenamePacked, Prune
      <3> QED BY <1>1, <2>3, <3>1 DEF Finished, Finish, CallTypes
    <2> QED BY <2>1, <2>2, <2>3
  <1>3. ASSUME calm'[q], op[q].name # None PROVE Alone(q)'
    <2>1. Alone(q)
      BY <1>1, <1>2, <1>3 DEF AloneOK
    <2>2. ~ (Writes(op'[p].kind) /\ op'[p].name = op[q].name)
      BY <1>2, <1>3, <2>1 DEF Alone, Writes
    <2> QED BY <1>1, <2>1, <2>2 DEF Alone, Apart
  <1>4. ASSUME calm'[q], ~ stale', op[q].kind \in {"set", "remove", "get"}
        PROVE  /\ op[q].name \in Name
               /\ Visible(op[q].name)' = Visible(op[q].name)
               /\ op[q].kind # "get" => loose'[op[q].name] = loose[op[q].name]
               /\ loose'[op[q].name] \in {loose[op[q].name], None}
               /\ op[q].kind = "set" /\ fd[q] = AtPath => fd'[q] = AtPath
    <2>1. PICK n \in Name : n = op[q].name /\ n = op'[q].name /\ n # None /\ n # PackedRefs
      BY <1>1, <1>4, NamesApart DEF CallOK
    <2>2. ~ (Writes(op'[p].kind) /\ op'[p].name = n)
      BY <1>1, <1>3, <1>4, <2>1 DEF Alone
    <2>3. Visible(n)' = Visible(n)
      BY <1>4, <2>1, <2>2, VisibleStays
    <2>4. loose'[n] \in {loose[n], None}
      BY <1>1, <2>1, <2>2 DEF Effects
    <2>5. op[q].kind # "get" => n \notin todo[p]
      BY <1>1, <1>4 DEF RewriteInv, Excluded, Writes, CallOK
    <2>6. op[q].kind # "get" => loose'[n] = loose[n]
      BY <1>1, <2>1, <2>2, <2>5 DEF Effects
    <2>7. ASSUME op[q].kind = "set", fd[q] = AtPath PROVE fd'[q] = AtPath
      <3>1. Target(q) = n /\ fd'[q] # None
        BY <1>1, <2>1, <2>7, NamesApart DEF Target, Apart
      <3> QED BY <1>1, <2>1, <2>2, <2>5, <2>7, <3>1 DEF Effects, Writes
    <2> QED BY <2>1, <2>3, <2>4, <2>6, <2>7
  <1>5. ASSUME calm'[q], ~ stale', op[q].kind = "set" PROVE SetAlone(q)'
    <2>1. SetAlone(q)
      BY <1>1, <1>2, <1>5 DEF AloneOK, Effects
    <2> QED BY <1>1, <1>2, <1>4, <1>5, <2>1 DEF SetAlone, Matches
  <1>6. ASSUME calm'[q], ~ stale', op[q].kind = "remove" PROVE RemoveAlone(q)'
    <2>1. RemoveAlone(q)
      BY <1>1, <1>2, <1>6 DEF AloneOK, Effects
    <2> QED BY <1>1, <1>2, <1>4, <1>6, <2>1 DEF RemoveAlone
  <1>7. ASSUME calm'[q], ~ stale', op[q].kind = "get" PROVE GetAlone(q)'
    <2>1. GetAlone(q)
      BY <1>1, <1>2, <1>7 DEF AloneOK, Effects
    <2>2. LooseValue(op[q].name) = None => LooseValue(op[q].name)' = None
      BY <1>1, <1>4, <1>7 DEF LooseValue
    <2> QED BY <1>1, <1>2, <1>4, <1>7, <2>1, <2>2 DEF GetAlone
  <1> QED BY <1>1, <1>3, <1>5, <1>6, <1>7 DEF AloneOK

\* A call begins: it is alone if no write of its reference is under way.
LEMMA BeginAlone ==
    ASSUME CallInv, CallInv', NEW p \in Proc, Apart(p), Start(p) PROVE AloneOK(p)'
  <1>1. CallTypes /\ DOMAIN start = Proc
    BY DEF CallInv, CallTypes
  <1>2. ASSUME NEW c, Begin(p, c)
        PROVE  /\ op'[p] = c /\ (c.name # None => start'[p] = Visible(c.name))
               /\ calm'[p] => Alone(p)'
    <2>1. op'[p] = c /\ (c.name # None => start'[p] = Visible(c.name))
      BY <1>1, <1>2 DEF Begin, CallTypes
    <2>2. calm'[p] => ~ \E r \in Proc \ {p} : op[r].name = c.name /\ Writes(op[r].kind)
      BY <1>1, <1>2 DEF Begin
    <2> QED BY <2>1, <2>2 DEF Alone, Apart
  <1>3. ASSUME NEW n \in Name, NEW v, NEW old, SetRef(p, n, v, old) PROVE AloneOK(p)'
    <2> DEFINE c == [kind |-> "set", name |-> n, new |-> v, old |-> old]
    <2>1. Begin(p, c) /\ c.name = n /\ c.kind = "set" /\ c.old = old
      BY <1>3 DEF SetRef
    <2> HIDE DEF c
    <2>2. /\ op'[p].name = n /\ op'[p].kind = "set" /\ op'[p].old = old
          /\ start'[p] = Visible(n) /\ (calm'[p] => Alone(p)')
      BY <1>2, <2>1, NamesApart
    <2>3. /\ loose'[n] = (IF loose[n] = None \/ old = None THEN Empty ELSE loose[n])
          /\ fd'[p] = AtPath /\ pc'[p] = "lock" /\ packed' = packed
      BY <1>1, <1>3 DEF SetRef, GoTo, CallTypes
    <2>4. old # None => Visible(n)' = Visible(n)
      BY <2>3, NamesApart DEF Visible, LooseValue, PackedValue
    <2>5. SetAlone(p)'
      BY <2>2, <2>3, <2>4 DEF SetAlone
    <2> QED BY <2>2, <2>5 DEF AloneOK
  <1>4. ASSUME NEW n \in Name, GetRef(p, n) PROVE AloneOK(p)'
    <2> DEFINE c == [kind |-> "get", name |-> n, new |-> None, old |-> None]
    <2>1. Begin(p, c) /\ c.name = n /\ c.kind = "get"
      BY <1>4 DEF GetRef
    <2> HIDE DEF c
    <2>2. /\ op'[p].name = n /\ op'[p].kind = "get" /\ start'[p] = Visible(n)
          /\ (calm'[p] => Alone(p)')
      BY <1>2, <2>1, NamesApart
    <2>3. pc'[p] = "getLoose" /\ UNCHANGED <<loose, packed>>
      BY <1>1, <1>4, Tuples DEF GetRef, GoTo, CallTypes
    <2>4. Visible(n)' = Visible(n)
      BY <2>3 DEF Visible, LooseValue, PackedValue
    <2>5. GetAlone(p)'
      BY <2>2, <2>3, <2>4 DEF GetAlone
    <2> QED BY <2>2, <2>5 DEF AloneOK
  <1>5. ASSUME NEW n \in Name, RemoveRef(p, n) PROVE AloneOK(p)'
    <2> DEFINE c == [kind |-> "remove", name |-> n, new |-> None, old |-> None]
    <2>1. Begin(p, c) /\ c.name = n /\ c.kind = "remove"
      BY <1>5 DEF RemoveRef
    <2> HIDE DEF c
    <2>2. op'[p].name = n /\ op'[p].kind = "remove" /\ (calm'[p] => Alone(p)')
      BY <1>2, <2>1, NamesApart
    <2>3. pc'[p] = "open" /\ loose'[n] = None
      BY <1>1, <1>5 DEF RemoveRef, GoTo, CallTypes
    <2>4. RemoveAlone(p)'
      BY <2>2, <2>3 DEF RemoveAlone
    <2> QED BY <2>2, <2>4 DEF AloneOK
  <1>6. ASSUME PackRefs(p) PROVE AloneOK(p)'
    <2> DEFINE c == [kind |-> "pack", name |-> None, new |-> None, old |-> None]
    <2>1. Begin(p, c) /\ c.name = None /\ c.kind = "pack"
      BY <1>6 DEF PackRefs
    <2> HIDE DEF c
    <2> QED BY <1>2, <2>1 DEF AloneOK
  <1> QED BY <1>3, <1>4, <1>5, <1>6 DEF Start

\* What the end of a call leaves behind.
LEMMA FinishLeaves ==
    ASSUME CallInv, NEW p \in Proc, NEW r, Finish(p, r)
    PROVE  /\ UNCHANGED <<loose, packed, op, start>> /\ pc'[p] = "done" /\ result'[p] = r
           /\ Matches(p)' = Matches(p) /\ Visible(op[p].name)' = Visible(op[p].name)
  <1>1. UNCHANGED <<loose, packed, op, start>> /\ pc'[p] = "done" /\ result'[p] = r
    BY DEF Finish, CloseFile, GoTo, CallInv, CallTypes
  <1> QED BY <1>1 DEF Matches, Visible, LooseValue, PackedValue

\* A set call advances: it compares what was there when it began, and writes into
\* the file it has emptied.
LEMMA SetOwn ==
    ASSUME CallInv, FileInv, NEW p \in Proc, op[p].kind = "set", SetAlone(p),
           Step(p) \/ Timeout(p) \/ Abort(p), ~ Return(p)
    PROVE  SetAlone(p)'
  <1>1. CallTypes /\ CallOK(p) /\ TextOK(p)
    BY DEF CallInv, FileInv
  <1>2. PICK n \in Name : n = op[p].name
    BY <1>1 DEF CallOK
  <1>3. LockLoose(p) \/ CheckLoose(p) \/ CheckPacked(p) \/ WriteLoose(p) \/ CloseRef(p) \/ Abort(p)
    BY <1>1
    DEF Step, GetLoose, GetPacked, OpenMissing, OpenPacked, StatPacked, LockPacked, Recheck,
        Reopen, CopyWithout, Collect, RenamePacked, Prune, PruneDone, Timeout, CallOK
  <1>4. CASE LockLoose(p)
    <2>1. /\ UNCHANGED <<loose, packed, op, fd, start>> /\ pc[p] = "lock"
          /\ pc'[p] = IF op[p].old = None THEN "write" ELSE "check"
      BY <1>1, <1>4, Tuples DEF LockLoose, GoTo, CallTypes
    <2> QED BY <2>1 DEF SetAlone, Matches, Visible, LooseValue, PackedValue
  <1>5. ASSUME NEW v, v # None /\ SameHash(v, op[p].old), pc[p] \in {"check", "checkPacked"},
               Compare(p, v), v = start[p]
        PROVE  SetAlone(p)'
    <2>1. /\ UNCHANGED <<packed, op, fd, start>> /\ pc'[p] = "write" /\ PutText(p, Empty)
          /\ fd[p] = AtPath
      BY <1>1, <1>5, Tuples DEF Compare, GoTo, CallTypes, SetAlone
    <2>2. loose'[n] = Empty
      BY <1>1, <1>2, <2>1 DEF PutText, CallTypes
    <2>3. Matches(p)'
      BY <1>5, <2>1 DEF Matches
    <2> QED BY <1>2, <2>1, <2>2, <2>3 DEF SetAlone
  <1>6. ASSUME NEW v, ~ (v # None /\ SameHash(v, op[p].old)), pc[p] \in {"check", "checkPacked"},
               Compare(p, v), v = start[p], v = Visible(n)
        PROVE  SetAlone(p)'
    <2>1. Finish(p, "changed") /\ op[p].old # None
      BY <1>1, <1>6 DEF Compare, CallOK
    <2>2. ~ Matches(p) /\ Visible(n) = start[p]
      BY <1>6, <2>1 DEF Matches
    <2> QED BY <1>2, <2>1, <2>2, FinishLeaves DEF SetAlone
  <1>7. CASE CheckLoose(p)
    <2>1. pc[p] = "check" /\ fd[p] = AtPath /\ LooseText(p) = loose[n] /\ op[p].old # None
      BY <1>1, <1>2, <1>7 DEF CheckLoose, SetAlone, LooseText, CallOK
    <2>2. Visible(n) = start[p]
      BY <1>2, <2>1 DEF SetAlone
    <2>3. CASE loose[n] = Empty
      <3>1. UNCHANGED <<loose, packed, op, fd, start>> /\ pc'[p] = "checkPacked"
        BY <1>1, <1>7, <2>1, <2>3, Tuples DEF CheckLoose, GoTo, CallTypes
      <3> QED BY <1>2, <2>1, <2>2, <2>3, <3>1 DEF SetAlone, Visible, LooseValue, PackedValue
    <2>4. CASE loose[n] # Empty
      <3>1. loose[n] # None
        BY <1>1, <2>1, NamesApart DEF TextOK
      <3>2. Visible(n) = loose[n]
        BY <2>4, <3>1 DEF Visible, LooseValue
      <3>3. Compare(p, loose[n])
        BY <1>7, <2>1, <2>4 DEF CheckLoose
      <3> QED BY <1>5, <1>6, <2>1, <2>2, <3>2, <3>3
    <2> QED BY <2>3, <2>4
  <1>8. CASE CheckPacked(p)
    <2>1. pc[p] = "checkPacked" /\ loose[n] = Empty /\ Visible(n) = start[p]
          /\ Compare(p, PackedValue(n))
      BY <1>2, <1>8 DEF CheckPacked, SetAlone
    <2>2. Visible(n) = PackedValue(n)
      BY <2>1 DEF Visible, LooseValue
    <2> QED BY <1>5, <1>6, <2>1, <2>2
  <1>9. CASE WriteLoose(p)
    <2>1. /\ pc[p] = "write" /\ fd[p] = AtPath /\ loose[n] = Empty /\ Matches(p)
          /\ LooseText(p) = Empty
      BY <1>2, <1>9 DEF WriteLoose, SetAlone, LooseText
    <2>2. /\ UNCHANGED <<packed, op, fd, start>> /\ pc'[p] = "close"
          /\ PutText(p, op[p].new)
      BY <1>1, <1>9, <2>1, NamesApart, Tuples DEF WriteLoose, GoTo, CallTypes, Value
    <2>3. loose'[n] = op[p].new
      BY <1>1, <1>2, <2>1, <2>2 DEF PutText, CallTypes
    <2>4. Matches(p)'
      BY <2>1, <2>2 DEF Matches
    <2> QED BY <1>2, <2>1, <2>2, <2>3, <2>4 DEF SetAlone
  <1>10. CASE CloseRef(p)
    <2>1. loose[n] = op[p].new /\ Matches(p) /\ Finish(p, "ok")
      BY <1>2, <1>10 DEF CloseRef, SetAlone
    <2>2. Visible(n) = op[p].new
      BY <1>1, <2>1, NamesApart DEF Visible, LooseValue, CallOK
    <2> QED BY <1>2, <2>1, <2>2, FinishLeaves DEF SetAlone
  <1>11. CASE Abort(p)
    <2>1. pc'[p] = "done" /\ result'[p] = "aborted"
      BY <1>11, FinishLeaves DEF Abort
    <2> QED BY <2>1 DEF SetAlone
  <1> QED BY <1>3, <1>4, <1>7, <1>8, <1>9, <1>10, <1>11

\* A read advances: what it finds is what was there when it began.
LEMMA GetOwn ==
    ASSUME CallInv, NEW p \in Proc, op[p].kind = "get", GetAlone(p),
           Step(p) \/ Timeout(p) \/ Abort(p), ~ Return(p)
    PROVE  GetAlone(p)'
  <1>1. CallTypes /\ CallOK(p)
    BY DEF CallInv
  <1>2. GetLoose(p) \/ GetPacked(p) \/ Abort(p)
    BY <1>1
    DEF Step, LockLoose, CheckLoose, CheckPacked, WriteLoose, CloseRef, OpenMissing, OpenPacked,
        StatPacked, LockPacked, Recheck, Reopen, CopyWithout, Collect, RenamePacked, Prune,
        PruneDone, Timeout, CallOK
  <1>3. ASSUME NEW r, Finish(p, r), r = start[p] \/ r = "aborted" PROVE GetAlone(p)'
    BY <1>3, FinishLeaves DEF GetAlone
  <1>4. CASE GetLoose(p)
    <2>1. Visible(op[p].name) = start[p] /\ pc[p] = "getLoose"
      BY <1>4 DEF GetLoose, GetAlone
    <2>2. CASE LooseValue(op[p].name) # None
      <3>1. Finish(p, LooseValue(op[p].name)) /\ LooseValue(op[p].name) = start[p]
        BY <1>4, <2>1, <2>2 DEF GetLoose, Visible
      <3> QED BY <1>3, <3>1
    <2>3. CASE LooseValue(op[p].name) = None
      <3>1. UNCHANGED <<loose, packed, op, start>> /\ pc'[p] = "getPacked"
        BY <1>1, <1>4, <2>3, Tuples DEF GetLoose, GoTo, CallTypes
      <3> QED BY <2>1, <2>3, <3>1 DEF GetAlone, Visible, LooseValue, PackedValue
    <2> QED BY <2>2, <2>3
  <1>5. CASE GetPacked(p)
    <2>1. Finish(p, PackedValue(op[p].name)) /\ PackedValue(op[p].name) = start[p]
      BY <1>5 DEF GetPacked, GetAlone, Visible
    <2> QED BY <1>3, <2>1
  <1>6. CASE Abort(p)
    BY <1>3, <1>6 DEF Abort
  <1> QED BY <1>2, <1>4, <1>5, <1>6

\* A removal advances: the loose file stays away and the record goes.
LEMMA RemoveOwn ==
    ASSUME CallInv, FileInv, RewriteInv, NEW p \in Proc, op[p].kind = "remove", RemoveAlone(p),
           ~ stale, Step(p) \/ Timeout(p) \/ Abort(p), ~ Return(p)
    PROVE  RemoveAlone(p)'
  <1>1. CallTypes /\ CallOK(p) /\ TextOK(p) /\ RewriteOK(p)
    BY DEF CallInv, FileInv, RewriteInv
  <1>2. PICK n \in Name : n = op[p].name
    BY <1>1 DEF CallOK
  <1>3. \/ OpenMissing(p) \/ OpenPacked(p) \/ StatPacked(p) \/ LockPacked(p) \/ Recheck(p)
        \/ Reopen(p) \/ CopyWithout(p) \/ RenamePacked(p) \/ PruneDone(p)
        \/ Timeout(p) \/ Abort(p)
    BY <1>1
    DEF Step, LockLoose, CheckLoose, CheckPacked, WriteLoose, CloseRef, GetLoose, GetPacked,
        Collect, Prune, CallOK
  <1>4. pc[p] # "done"
    BY <1>3
    DEF OpenMissing, OpenPacked, StatPacked, LockPacked, Recheck, Reopen, CopyWithout,
        RenamePacked, PruneDone, Timeout, Abort
  <1>5. loose[n] = None
    BY <1>2, <1>4 DEF RemoveAlone
  <1>6. ASSUME NEW r, Finish(p, r), r = "ok" => Visible(n) = None PROVE RemoveAlone(p)'
    BY <1>2, <1>6, FinishLeaves DEF RemoveAlone
  <1>7. CASE OpenMissing(p)
    <2>1. Finish(p, "ok") /\ Visible(n) = None
      BY <1>5, <1>7 DEF OpenMissing, Visible, LooseValue, PackedValue
    <2> QED BY <1>6, <2>1
  <1>8. CASE OpenPacked(p) \/ StatPacked(p) \/ LockPacked(p) \/ Recheck(p) \/ Reopen(p)
    <2>1. UNCHANGED <<loose, op>> /\ pc'[p] \notin {"prune", "done"}
      BY <1>1, <1>8, Tuples
      DEF OpenPacked, StatPacked, LockPacked, Recheck, Reopen, CloseFile, GoTo, CallTypes, CallOK
    <2> QED BY <1>2, <1>5, <2>1 DEF RemoveAlone
  <1>9. CASE CopyWithout(p)
    <2>1. CASE OpenPack(p).recs[n] = None
      <3>1. pc[p] = "remove" /\ Finish(p, "ok")
        BY <1>2, <1>9, <2>1 DEF CopyWithout
      <3>2. fd[p] = AtPath
        BY <1>1, <3>1 DEF RewriteOK
      <3>3. Visible(n) = None
        BY <1>5, <2>1, <3>2 DEF Visible, LooseValue, PackedValue, OpenPack
      <3> QED BY <1>6, <3>1, <3>3
    <2>2. CASE OpenPack(p).recs[n] # None
      <3>1. UNCHANGED <<loose, op>> /\ pc'[p] = "rename"
        BY <1>1, <1>2, <1>9, <2>2, Tuples DEF CopyWithout, GoTo, CallTypes
      <3> QED BY <1>2, <1>5, <3>1 DEF RemoveAlone
    <2> QED BY <2>1, <2>2
  <1>10. CASE RenamePacked(p)
    <2>1. UNCHANGED <<loose, op>> /\ pc[p] = "rename" /\ pc'[p] = "prune" /\ packed' = buf[p]
      BY <1>1, <1>10 DEF RenamePacked, GoTo, CallTypes
    <2>2. buf[p].recs[n] = None
      BY <1>1, <1>2, <2>1 DEF RewriteOK, Rewritten
    <2>3. Visible(n)' = None
      BY <1>5, <2>1, <2>2 DEF Visible, LooseValue, PackedValue
    <2> QED BY <1>2, <1>5, <2>1, <2>3 DEF RemoveAlone
  <1>11. CASE PruneDone(p)
    BY <1>2, <1>6, <1>11 DEF PruneDone, RemoveAlone
  <1>12. CASE Timeout(p) \/ Abort(p)
    BY <1>6, <1>12 DEF Timeout, Abort
  <1> QED BY <1>3, <1>7, <1>8, <1>9, <1>10, <1>11, <1>12

LEMMA OwnAlone ==
    ASSUME CallInv, FileInv, RewriteInv, AloneInv, NEW p \in Proc,
           Start(p) \/ Step(p) \/ Timeout(p) \/ Abort(p)
    PROVE  AloneOK(p)'
  <1>1. CallInv' /\ Apart(p) /\ Effects(p) /\ CallTypes /\ CallOK(p) /\ AloneOK(p)
    BY ActRewrite DEF CallInv, AloneInv
  <1>2. CASE Start(p)
    BY <1>1, <1>2, BeginAlone
  <1>3. CASE Return(p)
    <2>1. op'[p] = NoOp
      BY <1>1, <1>3 DEF Return, CallTypes
    <2> QED BY <2>1 DEF AloneOK, NoOp
  <1>4. CASE ~ Start(p) /\ ~ Return(p)
    <2>1. UNCHANGED <<op, calm>>
      BY <1>4, StepKinds, Tuples
      DEF Finished, Finish, LockLoose, ToPacked, Clears, WriteLoose, OpenPacked, StatPacked,
          LockPacked, Recheck, Reopen, Copies, RenamePacked, Prune
    <2>2. Alone(p)' = Alone(p)
      BY <2>1 DEF Alone
    <2>3. ~ stale' => ~ stale
      BY <1>1 DEF Effects
    <2> QED BY <1>1, <1>4, <2>1, <2>2, <2>3, SetOwn, RemoveOwn, GetOwn DEF AloneOK
  <1> QED BY <1>2, <1>3, <1>4

LEMMA AloneInit == Init => AloneInv
  BY DEF Init, AloneInv, AloneOK, NoOp

LEMMA AloneStep == ASSUME CallInv, FileInv, RewriteInv, AloneInv, [Next]_vars PROVE AloneInv'
  <1>1. CASE UNCHANGED vars
    <2>1. UNCHANGED <<pc, op>> /\ UNCHANGED disk /\ UNCHANGED local /\ UNCHANGED ghosts
      BY <1>1 DEF vars
    <2>2. \A p \in Proc : UNCHANGED <<SetAlone(p), RemoveAlone(p), GetAlone(p), Alone(p)>>
      BY <2>1, Tuples
      DEF Alone, SetAlone, RemoveAlone, GetAlone, Matches, Visible, LooseValue, PackedValue
    <2> QED BY <2>1, <2>2, Tuples DEF AloneInv, AloneOK
  <1> QED BY <1>1, OthersAlone, OwnAlone DEF Next, AloneInv
-----------------------------------------------------------------------------
(* The theorems.                                                            *)

\* Types: every variable keeps its type and only an open file is locked,
\* whichever processes call, finish or die.
THEOREM TypeCorrect == Spec => []TypeOK
  <1>1. CallInv => TypeOK
    <2> SUFFICES ASSUME CallInv PROVE TypeOK
      OBVIOUS
    <2>1. \A p \in locked : p \in Proc /\ fd[p] # None
      BY DEF CallInv, CallTypes, CallOK
    <2> QED BY <2>1 DEF CallInv, CallTypes, TypeOK
  <1> QED BY <1>1, Inductive, PTL

\* The flock covers the read-modify-write of CheckAndSetReference: what it compared
\* is still in the file it holds open when it writes.
THEOREM CheckValid == Spec => []CheckStaysValid
  <1>1. FileInv => CheckStaysValid
    BY DEF FileInv, TextOK, CheckStaysValid
  <1> QED BY <1>1, Inductive, PTL

\* openAndLockPackedRefs lets one process at a time rewrite packed-refs, and the file
\* it rewrites is the one at the path, as long as no modification time deceived it.
THEOREM SingleRewriter == Spec => []OneRewriter
  <1>1. CallInv /\ FileInv /\ RewriteInv => OneRewriter
    <2> SUFFICES ASSUME CallInv, FileInv, RewriteInv, ~ stale, NEW p \in Proc, NEW q \in Proc,
                        pc[p] \in {"remove", "pack", "rename"}
                 PROVE  /\ fd[p] = AtPath
                        /\ pc[q] \in {"remove", "pack", "rename"} => p = q
      BY DEF OneRewriter
    <2>1. /\ fd[p] = AtPath
          /\ pc[q] \in {"remove", "pack", "rename"} => fd[q] = AtPath
      BY DEF RewriteInv, RewriteOK
    <2> QED BY <2>1, OneHolder
  <1> QED BY <1>1, Inductive, PTL

\* Neither PackRefs, at any of its steps, nor a read, a crash or the removal of
\* another name changes what Reference reports about a name.
THEOREM WritersOnly == Spec => OnlyWritersChange
  <1> DEFINE Inv == CallInv /\ FileInv /\ RewriteInv
             Change == \A n \in Name :
                 Visible(n)' # Visible(n) =>
                    stale' \/ \E p \in Proc : op'[p].name = n /\ Writes(op'[p].kind)
  <1>1. Inv /\ [Next]_vars => [Change]_vars
    <2> SUFFICES ASSUME Inv, NEW p \in Proc, Start(p) \/ Step(p) \/ Timeout(p) \/ Abort(p),
                        NEW n \in Name, Visible(n)' # Visible(n), ~ stale'
                 PROVE  op'[p].name = n /\ Writes(op'[p].kind)
      BY DEF Next
    <2> QED BY VisibleStays
  <1>2. Spec => []Inv
    BY Inductive
  <1>3. Spec => [][Change]_vars
    BY <1>1, <1>2, PTL DEF Spec
  <1> QED BY <1>3 DEF OnlyWritersChange

\* A call that no other write of its reference overlaps behaves as if it ran alone,
\* whatever packing, reads and writes of other references do meanwhile.
THEOREM CallsIsolated == Spec => []IsolatedCalls
  <1> DEFINE Inv == CallInv /\ FileInv /\ RewriteInv /\ AloneInv
  <1>1. Init => Inv
    BY CallInit, FileInit, RewriteInit, AloneInit
  <1>2. Inv /\ [Next]_vars => Inv'
    BY CallStep, FileStep, RewriteStep, AloneStep
  <1>3. Inv => IsolatedCalls
    <2> SUFFICES ASSUME Inv, NEW p \in Proc, pc[p] = "done", calm[p], ~ stale
                 PROVE  /\ op[p].kind = "set" /\ result[p] = "ok" =>
                              Matches(p) /\ Visible(op[p].name) = op[p].new
                        /\ op[p].kind = "set" /\ result[p] = "changed" =>
                              ~ Matches(p) /\ Visible(op[p].name) = start[p]
                        /\ op[p].kind = "remove" /\ result[p] = "ok" => Visible(op[p].name) = None
                        /\ op[p].kind = "get" /\ result[p] # "aborted" => result[p] = start[p]
      BY DEF IsolatedCalls, Matches
    <2> QED BY DEF AloneInv, AloneOK, SetAlone, RemoveAlone, GetAlone
  <1> QED BY <1>1, <1>2, <1>3, PTL DEF Spec
=============================================================================
