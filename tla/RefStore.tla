------------------------------ MODULE RefStore ------------------------------
(***************************************************************************)
(* References on disk (storage/filesystem/dotgit): loose files under refs/  *)
(* and the packed-refs file, changed by processes that share nothing but    *)
(* the directory and advisory locks.                                        *)
(*                                                                          *)
(* A file is an inode: a lock belongs to the inode that was opened, and a   *)
(* process may go on using an inode that was unlinked or renamed over.      *)
(* Between any two steps of a call the other processes may run and the      *)
(* calling process may die.                                                 *)
(***************************************************************************)
EXTENDS Naturals, FiniteSets

CONSTANTS
    Proc,        \* processes, or goroutines with their own open files
    Name,        \* reference names
    Hash,        \* non-zero hashes: what packed-refs can represent
    Symbolic,    \* symbolic targets, kept loose; Hash() of one is the zero hash
    NewValues,   \* the values SetReference is called with
    OldValues,   \* the values CheckAndSetReference is called with
    Empty,       \* the text of a loose file just created or truncated
    Torn,        \* a file whose text is the head of one value and the tail of another
    Orphan,      \* inodes that lost their path while a process had them open
    None         \* no file, no value, no argument

Value == Hash \cup Symbolic \cup {Torn}
PackedRefs == "packed-refs"
AtPath == "path"           \* the open file is the one its path names

\* The contents of a packed-refs file; sorted says that its header claims so
\* (or that the file is empty), which is when PackRefs leaves it alone.
PackFile == [recs : [Name -> Hash \cup {None}], sorted : BOOLEAN]
EmptyPack == [recs |-> [n \in Name |-> None], sorted |-> TRUE]

ASSUME RefAssumption ==
    /\ IsFiniteSet(Proc) /\ IsFiniteSet(Name) /\ IsFiniteSet(Orphan)
    /\ NewValues \cup OldValues \subseteq Hash \cup Symbolic
    /\ None \notin Value \cup {Empty, AtPath} \cup Orphan /\ AtPath \notin Orphan
    /\ None \notin Name /\ None \notin PackFile
    /\ Empty \notin Value /\ PackedRefs \notin Name
    /\ Hash \cap Symbolic = {} /\ Torn \notin Hash \cup Symbolic
    /\ Cardinality(Orphan) >= Cardinality(Proc)

VARIABLES
    loose,   \* the text of each loose reference, None when there is no file
    packed,  \* the packed-refs file, None when there is none
    orphan,  \* the contents of unlinked inodes that are still open
    pc,      \* where each process is in its call
    op,      \* the call: kind, name, new and old value
    fd,      \* the inode each process has open: AtPath, an orphan, or None
    locked,  \* the processes that hold the lock of their inode
    noted,   \* the processes that noted the present packed-refs' modification time
    buf,     \* the packed-refs file being written under a temporary name
    todo,    \* loose references PackRefs has yet to delete
    start,   \* history: the value of the reference when the call began
    calm,    \* history: no other call wrote the reference during this one
    result,  \* history: the outcome of a finished call
    stale    \* history: packed-refs was rewritten from an outdated inode

disk   == <<loose, packed, orphan>>
local  == <<fd, locked, noted, buf, todo>>
ghosts == <<start, calm, result, stale>>
vars   == <<disk, pc, op, local, ghosts>>

NoOp == [kind |-> "none", name |-> None, new |-> None, old |-> None]

\* What Reference(n) reports if it runs now: a loose file that is missing or
\* empty falls back to packed-refs.
PackedValue(n) == IF packed = None THEN None ELSE packed.recs[n]
LooseValue(n) == IF loose[n] = Empty THEN None ELSE loose[n]
Visible(n) == IF LooseValue(n) # None THEN LooseValue(n) ELSE PackedValue(n)

\* ref.Hash() == old.Hash(); a symbolic (or torn) reference has the zero hash.
SameHash(v, w) == v = w \/ {v, w} \cap Hash = {}

\* A repository with every reference packed, or none.
Init ==
    /\ packed \in {None} \cup PackFile
    /\ loose = [n \in Name |-> None]
    /\ orphan = [i \in Orphan |-> None]
    /\ pc = [p \in Proc |-> "idle"]
    /\ op = [p \in Proc |-> NoOp]
    /\ fd = [p \in Proc |-> None]
    /\ locked = {} /\ noted = {}
    /\ buf = [p \in Proc |-> None]
    /\ todo = [p \in Proc |-> {}]
    /\ start = [p \in Proc |-> None]
    /\ calm = [p \in Proc |-> TRUE]
    /\ result = [p \in Proc |-> None]
    /\ stale = FALSE

-----------------------------------------------------------------------------
(* Starting and finishing a call.                                           *)

Writes(kind) == kind \in {"set", "remove"}
Running(kind) == \E q \in Proc : op[q].kind = kind

\* "This implementation only works under the assumption that the view of the
\* file system won't be updated during this operation" (PackRefs): PackRefs
\* and calls that write references exclude each other.
MayStart(kind) ==
    /\ Writes(kind) => ~Running("pack")
    /\ kind = "pack" => ~Running("set") /\ ~Running("remove")

\* A call begins.  A write disturbs every call about the same reference, and
\* is disturbed by those still running.
Begin(p, c) ==
    /\ pc[p] = "idle" /\ MayStart(c.kind)
    /\ op' = [op EXCEPT ![p] = c]
    /\ start' = [start EXCEPT ![p] = IF c.name = None THEN None ELSE Visible(c.name)]
    /\ calm' = [q \in Proc |->
          IF q = p
          THEN ~\E r \in Proc \ {p} : op[r].name = c.name /\ Writes(op[r].kind)
          ELSE calm[q] /\ ~(Writes(c.kind) /\ op[q].name = c.name)]
    /\ UNCHANGED <<result, stale>>

GoTo(p, stage) == pc' = [pc EXCEPT ![p] = stage]

\* The path p opened, the contents of its file, and whether two processes
\* have the same file open.
Target(p) == IF op[p].kind = "set" THEN op[p].name ELSE PackedRefs
LooseText(p) == IF fd[p] = AtPath THEN loose[op[p].name] ELSE orphan[fd[p]]
OpenPack(p) == IF fd[p] = AtPath THEN packed ELSE orphan[fd[p]]
SameFile(p, q) == fd[p] = fd[q] /\ (fd[p] = AtPath => Target(p) = Target(q))

Unlocked(p) == \A q \in locked : ~SameFile(p, q)

\* The path loses its inode, whose contents were c: those who have it open
\* keep it.
Detach(path, c) ==
    LET users == {q \in Proc : fd[q] = AtPath /\ Target(q) = path}
        i == CHOOSE i \in Orphan : \A q \in Proc : fd[q] # i
    IN  /\ fd' = [q \in Proc |-> IF q \in users THEN i ELSE fd[q]]
        /\ orphan' = IF users = {} THEN orphan ELSE [orphan EXCEPT ![i] = c]

\* p writes the text of its open loose file.
PutText(p, v) ==
    IF fd[p] = AtPath
    THEN loose' = [loose EXCEPT ![op[p].name] = v] /\ UNCHANGED orphan
    ELSE orphan' = [orphan EXCEPT ![fd[p]] = v] /\ UNCHANGED loose

\* p closes its file, which releases the lock and frees an orphan for good.
CloseFile(p) ==
    /\ fd' = [fd EXCEPT ![p] = None]
    /\ locked' = locked \ {p}
    /\ noted' = noted \ {p}
    /\ orphan' = [i \in Orphan |->
                    IF \E q \in Proc \ {p} : fd[q] = i THEN orphan[i] ELSE None]
    /\ UNCHANGED <<loose, packed>>

\* The call ends with result r.
Finish(p, r) ==
    /\ CloseFile(p)
    /\ GoTo(p, "done")
    /\ buf' = [buf EXCEPT ![p] = None]
    /\ todo' = [todo EXCEPT ![p] = {}]
    /\ result' = [result EXCEPT ![p] = r]
    /\ UNCHANGED <<op, start, calm, stale>>

\* The caller takes the result and the process is free again.
Return(p) ==
    /\ pc[p] = "done" /\ GoTo(p, "idle")
    /\ op' = [op EXCEPT ![p] = NoOp]
    /\ start' = [start EXCEPT ![p] = None]
    /\ calm' = [calm EXCEPT ![p] = TRUE]
    /\ result' = [result EXCEPT ![p] = None]
    /\ UNCHANGED <<disk, local, stale>>

\* The process dies, or an I/O error ends the call: its files are closed and
\* its locks released, the disk stays as it is.
Abort(p) ==
    /\ pc[p] \notin {"idle", "done"}
    /\ Finish(p, "aborted")

-----------------------------------------------------------------------------
(* SetReference (old = None) and CheckAndSetReference.                      *)

\* Open the loose file, creating it; without old it is truncated right away,
\* before the lock is taken.
SetRef(p, n, v, old) ==
    /\ Begin(p, [kind |-> "set", name |-> n, new |-> v, old |-> old])
    /\ loose' = [loose EXCEPT ![n] = IF @ = None \/ old = None THEN Empty ELSE @]
    /\ fd' = [fd EXCEPT ![p] = AtPath]
    /\ GoTo(p, "lock")
    /\ UNCHANGED <<packed, orphan, locked, noted, buf, todo>>

\* Fault: the lock is not taken.
UnlockedLockLoose(p) ==
    /\ pc[p] = "lock"
    /\ GoTo(p, IF op[p].old = None THEN "write" ELSE "check")
    /\ UNCHANGED <<disk, op, local, ghosts>>

LockLoose(p) ==
    /\ pc[p] = "lock" /\ Unlocked(p)
    /\ locked' = locked \cup {p}
    /\ GoTo(p, IF op[p].old = None THEN "write" ELSE "check")
    /\ UNCHANGED <<disk, op, fd, noted, buf, todo, ghosts>>

\* The end of checkReferenceAndTruncate, for the stored value v.
Compare(p, v) ==
    IF v # None /\ SameHash(v, op[p].old)
    THEN /\ PutText(p, Empty)
         /\ GoTo(p, "write")
         /\ UNCHANGED <<packed, op, local, ghosts>>
    ELSE Finish(p, "changed")

\* Read the loose file; an empty one sends the check to packed-refs.
CheckLoose(p) ==
    /\ pc[p] = "check"
    /\ IF LooseText(p) = Empty
       THEN GoTo(p, "checkPacked") /\ UNCHANGED <<disk, op, local, ghosts>>
       ELSE Compare(p, LooseText(p))

\* Fault: an empty file counts as a match, packed-refs is not consulted.
BlindCheckPacked(p) ==
    /\ pc[p] = "checkPacked" /\ GoTo(p, "write")
    /\ UNCHANGED <<disk, op, local, ghosts>>

CheckPacked(p) ==
    /\ pc[p] = "checkPacked"
    /\ Compare(p, PackedValue(op[p].name))

\* Write at offset 0: a short symbolic text over a longer hash leaves a tail.
WriteLoose(p) ==
    /\ pc[p] = "write"
    /\ PutText(p, IF op[p].new \in Symbolic /\ LooseText(p) \in Hash \cup {Torn}
                  THEN Torn ELSE op[p].new)
    /\ GoTo(p, "close")
    /\ UNCHANGED <<packed, op, local, ghosts>>

\* The deferred Close ends the call.
CloseRef(p) == pc[p] = "close" /\ Finish(p, "ok")

-----------------------------------------------------------------------------
(* Reference.                                                               *)

GetRef(p, n) ==
    /\ Begin(p, [kind |-> "get", name |-> n, new |-> None, old |-> None])
    /\ GoTo(p, "getLoose")
    /\ UNCHANGED <<disk, local>>

GetLoose(p) ==
    /\ pc[p] = "getLoose"
    /\ IF LooseValue(op[p].name) # None
       THEN Finish(p, LooseValue(op[p].name))
       ELSE GoTo(p, "getPacked") /\ UNCHANGED <<disk, op, local, ghosts>>

GetPacked(p) ==
    /\ pc[p] = "getPacked"
    /\ Finish(p, PackedValue(op[p].name))

-----------------------------------------------------------------------------
(* RemoveReference and PackRefs: openAndLockPackedRefs, then the rewrite.   *)

\* The loose file goes first.
RemoveRef(p, n) ==
    /\ Begin(p, [kind |-> "remove", name |-> n, new |-> None, old |-> None])
    /\ loose' = [loose EXCEPT ![n] = None]
    /\ Detach(n, loose[n])
    /\ GoTo(p, "open")
    /\ UNCHANGED <<packed, locked, noted, buf, todo>>

PackRefs(p) ==
    /\ Begin(p, [kind |-> "pack", name |-> None, new |-> None, old |-> None])
    /\ GoTo(p, "open")
    /\ UNCHANGED <<disk, local>>

\* RemoveReference without a packed-refs file has nothing left to do.
OpenMissing(p) ==
    /\ pc[p] = "open" /\ packed = None /\ op[p].kind = "remove"
    /\ Finish(p, "ok")

\* Open packed-refs, which PackRefs creates empty if need be.
OpenPacked(p) ==
    /\ pc[p] \in {"open", "reopen"} /\ (packed # None \/ op[p].kind = "pack")
    /\ packed' = IF packed = None THEN EmptyPack ELSE packed
    /\ fd' = [fd EXCEPT ![p] = AtPath]
    /\ GoTo(p, "stat")
    /\ UNCHANGED <<loose, orphan, op, locked, noted, buf, todo, ghosts>>

\* Note the modification time, looked up by path.
StatPacked(p) ==
    /\ pc[p] = "stat"
    /\ noted' = noted \cup {p}
    /\ GoTo(p, "lockPacked")
    /\ UNCHANGED <<disk, op, fd, locked, buf, todo, ghosts>>

LockPacked(p) ==
    /\ pc[p] = "lockPacked" /\ Unlocked(p)
    /\ locked' = locked \cup {p}
    /\ GoTo(p, "recheck")
    /\ UNCHANGED <<disk, op, fd, noted, buf, todo, ghosts>>

\* Same modification time: go on with this inode.
Recheck(p) ==
    /\ pc[p] = "recheck" /\ p \in noted
    /\ GoTo(p, op[p].kind)
    /\ stale' = (stale \/ fd[p] # AtPath)
    /\ UNCHANGED <<disk, op, local, start, calm, result>>

\* A different one: close (and unlock) the file and start over.
Reopen(p) ==
    /\ pc[p] = "recheck" /\ p \notin noted
    /\ CloseFile(p)
    /\ GoTo(p, "reopen")
    /\ UNCHANGED <<op, buf, todo, ghosts>>

\* The loop gives up after 15 seconds; it looks at the clock before an open.
Timeout(p) == pc[p] = "reopen" /\ Finish(p, "timeout")

\* rewritePackedRefsWithoutRef: copy everything but the name.
CopyWithout(p) ==
    /\ pc[p] = "remove"
    /\ IF OpenPack(p).recs[op[p].name] = None
       THEN Finish(p, "ok")
       ELSE /\ buf' = [buf EXCEPT ![p] =
                          [OpenPack(p) EXCEPT !.recs[op[p].name] = None]]
            /\ GoTo(p, "rename")
            /\ UNCHANGED <<disk, op, fd, locked, noted, todo, ghosts>>

\* Fault: a record already packed wins over the loose reference.
PackedWins(p) ==
    [n \in Name |-> IF OpenPack(p).recs[n] = None /\ LooseValue(n) \in Hash
                    THEN LooseValue(n) ELSE OpenPack(p).recs[n]]

\* The merged records: loose hash references first, then what was packed.
Merged(p) ==
    [n \in Name |-> IF LooseValue(n) \in Hash THEN LooseValue(n)
                    ELSE OpenPack(p).recs[n]]

\* PackRefs walks refs/ (an empty loose file is an error), keeps the loose
\* references packed-refs can hold, and merges them with the locked file.
\* With nothing to pack it rewrites only a file that is not sorted.
Collect(p) ==
    /\ pc[p] = "pack"
    /\ LET found == {n \in Name : loose[n] \in Hash}
       IN  IF \E n \in Name : loose[n] = Empty THEN Finish(p, "emptyRefFile")
           ELSE IF found = {} /\ OpenPack(p).sorted THEN Finish(p, "ok")
           ELSE /\ buf' = [buf EXCEPT ![p] = [recs |-> Merged(p), sorted |-> TRUE]]
                /\ todo' = [todo EXCEPT ![p] = found]
                /\ GoTo(p, "rename")
                /\ UNCHANGED <<disk, op, fd, locked, noted, ghosts>>

\* Rename the temporary file over packed-refs.
RenamePacked(p) ==
    /\ pc[p] = "rename"
    /\ packed' = buf[p]
    /\ Detach(PackedRefs, packed)
    /\ noted' = {}
    /\ GoTo(p, "prune")
    /\ UNCHANGED <<loose, op, locked, buf, todo, ghosts>>

\* PackRefs deletes a loose reference it packed.
Prune(p, n) ==
    /\ pc[p] = "prune" /\ n \in todo[p]
    /\ loose' = [loose EXCEPT ![n] = None]
    /\ Detach(n, loose[n])
    /\ todo' = [todo EXCEPT ![p] = @ \ {n}]
    /\ UNCHANGED <<packed, pc, op, locked, noted, buf, ghosts>>

\* Nothing (left) to delete: the deferred Close releases packed-refs.
PruneDone(p) == pc[p] = "prune" /\ todo[p] = {} /\ Finish(p, "ok")

-----------------------------------------------------------------------------
Start(p) ==
    \/ \E n \in Name, v \in NewValues, old \in OldValues \cup {None} :
          SetRef(p, n, v, old)
    \/ \E n \in Name : GetRef(p, n) \/ RemoveRef(p, n)
    \/ PackRefs(p)

Step(p) ==
    \/ LockLoose(p) \/ CheckLoose(p) \/ CheckPacked(p) \/ WriteLoose(p)
    \/ CloseRef(p)
    \/ GetLoose(p) \/ GetPacked(p)
    \/ OpenMissing(p) \/ OpenPacked(p) \/ StatPacked(p) \/ LockPacked(p)
    \/ Recheck(p) \/ Reopen(p)
    \/ CopyWithout(p) \/ Collect(p) \/ RenamePacked(p)
    \/ (\E n \in Name : Prune(p, n)) \/ PruneDone(p)
    \/ Return(p)

Next == \E p \in Proc : Start(p) \/ Step(p) \/ Timeout(p) \/ Abort(p)

\* A process inside a call keeps running, the kernel grants a lock that is
\* released again and again, and the clock reaches the timeout of a loop that
\* starts over again and again.  Nothing obliges a process to call or to die.
Fairness == \A p \in Proc : SF_vars(Step(p)) /\ SF_vars(Timeout(p))

Spec     == Init /\ [][Next]_vars
FairSpec == Spec /\ Fairness

-----------------------------------------------------------------------------
(* Properties.                                                              *)

\* Every variable holds a value of its type.
TypeOK ==
    /\ loose \in [Name -> Value \cup {Empty, None}]
    /\ packed \in PackFile \cup {None}
    /\ orphan \in [Orphan -> Value \cup {Empty, None} \cup PackFile]
    /\ fd \in [Proc -> Orphan \cup {AtPath, None}]
    /\ noted \subseteq Proc
    /\ buf \in [Proc -> PackFile \cup {None}]
    /\ todo \in [Proc -> SUBSET Name]
    /\ locked \subseteq {p \in Proc : fd[p] # None}

\* A call that no other write of the same reference overlaps behaves as if it
\* ran alone, whatever packing, reads and writes of other references do
\* meanwhile: CheckAndSetReference writes exactly when old matches, a failed
\* one changes nothing, a removed reference is gone, a read reports the value.
IsolatedCalls ==
    \A p \in Proc :
        LET c == op[p]
            matches == c.old = None \/ (start[p] # None /\ SameHash(start[p], c.old))
        IN  pc[p] = "done" /\ calm[p] /\ ~stale =>
              /\ c.kind = "set" /\ result[p] = "ok" => matches /\ Visible(c.name) = c.new
              /\ c.kind = "set" /\ result[p] = "changed"
                   => ~matches /\ Visible(c.name) = start[p]
              /\ c.kind = "remove" /\ result[p] = "ok" => Visible(c.name) = None
              /\ c.kind = "get" /\ result[p] # "aborted" => result[p] = start[p]

\* Between the comparison of CheckAndSetReference and its write nobody else
\* writes the file: the flock covers the whole read-modify-write.
CheckStaysValid ==
    \A p \in Proc :
        pc[p] = "write" /\ op[p].old # None => LooseText(p) = Empty

\* A reference changes only through a set or remove call about it: neither
\* PackRefs, at any of its steps, nor a read, a crash or a rewrite on behalf
\* of another name changes what Reference reports.
OnlyWritersChange ==
    [][\A n \in Name :
          Visible(n)' # Visible(n) =>
             stale' \/ \E p \in Proc : op'[p].name = n /\ Writes(op'[p].kind)]_vars

\* While no process was fooled about the inode it locked, at most one process
\* rewrites packed-refs and it works on the file the path names.
OneRewriter ==
    ~stale => \A p, q \in Proc :
        pc[p] \in {"remove", "pack", "rename"} =>
            /\ fd[p] = AtPath
            /\ pc[q] \in {"remove", "pack", "rename"} => p = q

\* Every call returns: lock waits end, the open-and-lock loop ends.
CallsReturn == \A p \in Proc : pc[p] # "idle" ~> pc[p] = "idle"

\* "Keep trying to open and lock the file until we're sure the file didn't
\* change between the open and the lock" (openAndLockPackedRefs).
LockedIsCurrent == ~stale

\* "If not, it returns an error and doesn't update `new`" (CheckAndSetReference):
\* such a call leaves no loose file behind that the next IterReferences would
\* fail on with ErrEmptyRefFile.
FailedSetLeavesNothing ==
    \A p \in Proc :
        pc[p] = "done" /\ result[p] = "changed" /\ calm[p]
            => loose[op[p].name] # Empty

=============================================================================
