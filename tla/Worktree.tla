------------------------------ MODULE Worktree ------------------------------
(***************************************************************************)
(* The working copy of a repository: HEAD and the branches, the index and  *)
(* the files on disk, under the calls of worktree.go, worktree_status.go   *)
(* and worktree_commit.go.                                                 *)
(*                                                                         *)
(* A commit is the tree it holds, a tree gives every path its content or   *)
(* None.  Paths are plain files: directories, symbolic links, file modes,  *)
(* submodules, line ending conversion and sparse checkouts are left out,   *)
(* and HEAD is never unborn.  Calls take one step for each reference,      *)
(* index file or worktree file they write, and may stop after any of them  *)
(* (an I/O error or the death of the process); only Clean, whose removals  *)
(* the user could make as well, is one step.                               *)
(*                                                                         *)
(* The times of files, index entries and the index file are those of a     *)
(* clock that any number of writes may share.  All contents have one size, *)
(* the case in which only the times can tell.  The history variable        *)
(* `suspect' collects the files that got a content of their own together   *)
(* with the time their entry records.                                      *)
(***************************************************************************)
EXTENDS FiniteSets, Integers

CONSTANTS
    Path,        \* file names
    Content,     \* file contents, all of one size
    None,        \* no file
    Branch,      \* branch names
    Detached,    \* the place of a HEAD that names a commit itself
    History,     \* trees committed before the model starts
    Ignored,     \* the paths .gitignore matches
    MaxNew,      \* bound: branches and HEADs at trees outside History
    MaxTime      \* bound: the last time of the clock

Tree == [Path -> Content \union {None}]

ASSUME WorktreeAssumption ==
    /\ None \notin Content /\ None \notin Tree
    /\ Detached \notin Branch
    /\ History # {} /\ History \subseteq Tree
    /\ Ignored \subseteq Path
    /\ MaxNew \in Nat /\ MaxTime \in Nat

VARIABLES
    refs,    \* the tree each branch, and a detached HEAD, is at
    head,    \* the branch HEAD names, or Detached
    index,   \* the hashes of the index entries
    disk,    \* the worktree files
    mtime,   \* the modification times of the files
    etime,   \* the times the index entries record
    itime,   \* the modification time of the index file
    now,     \* the clock
    suspect, \* files that differ from their entry, by an event that kept its time
    op       \* the call under way

times == <<mtime, etime, itime, now>>
vars == <<refs, head, index, disk, times, suspect, op>>

\* The time of an entry made without one.
Blank == -1

Empty == [p \in Path |-> None]
Idle == [pc |-> "idle", mode |-> "none", from |-> Empty, to |-> Empty,
         at |-> Detached, files |-> {}, todo |-> {}, written |-> {}, start |-> Empty,
         doubt |-> {}]
Modes == {"mixed", "hard", "merge", "soft", "keep"}
Phases == {"idle", "head", "reset", "index", "delete", "write", "remove", "move", "commit"}

HeadTree == refs[head]
Known == History \union {refs[b] : b \in {c \in Branch : refs[c] # None}}
Files == {p \in Path : disk[p] # None}

TypeOK ==
    /\ refs \in [Branch \union {Detached} -> Tree \union {None}]
    /\ head \in Branch \union {Detached} /\ refs[head] # None
    /\ index \in Tree /\ disk \in Tree
    /\ mtime \in [Path -> Nat] /\ etime \in [Path -> Nat \union {Blank}]
    /\ itime \in Nat /\ now \in Nat
    /\ suspect \subseteq Path
    /\ op \in [pc : Phases, mode : Modes \union {"none"}, from : Tree, to : Tree,
               at : Branch \union {Detached}, files : SUBSET Path, todo : SUBSET Path,
               written : SUBSET Path, start : Tree, doubt : SUBSET Path]

-----------------------------------------------------------------------------
(* Comparing the index with the worktree and with HEAD.                    *)

\* The recorded time and size are the file's, and the file is older than
\* the index, so an equal time means an equal content.
MetadataMatches(p) == disk[p] # None /\ mtime[p] = etime[p] /\ mtime[p] < itime

CalculateHash(p) ==
    IF index[p] # None /\ MetadataMatches(p) THEN index[p] ELSE disk[p]

\* The worktree half of Status; untracked ignored files are not walked.
WorktreeCode(p) ==
    CASE index[p] = None /\ disk[p] # None /\ p \notin Ignored -> "untracked"
      [] index[p] # None /\ disk[p] = None -> "deleted"
      [] index[p] # None /\ disk[p] # None /\ CalculateHash(p) # index[p] -> "modified"
      [] OTHER -> "unmodified"

Staged(p) == HeadTree[p] # index[p]
Unstaged == {p \in Path : WorktreeCode(p) \in {"modified", "deleted"}}

-----------------------------------------------------------------------------
(* Effects of writing a file and of writing the index.                     *)

WriteFile(p, c) ==
    /\ disk' = [disk EXCEPT ![p] = c]
    /\ mtime' = [mtime EXCEPT ![p] = IF c # None THEN now ELSE 0]
    /\ suspect' = IF etime[p] = now /\ c \notin {None, index[p]} THEN suspect \union {p}
                  ELSE suspect \ {p}
    /\ UNCHANGED <<etime, itime, now>>

\* The stamped entries that get the time of a file with another content.
Doubtful(entries, stamped) == {p \in stamped : disk[p] # entries[p]}

\* Mutant: an entry that is replaced keeps the times of the old one.
KeepingSetIndex(entries, stamped, blank) ==
    /\ index' = entries
    /\ etime' = [p \in Path |-> IF p \in stamped THEN mtime[p] ELSE etime[p]]
    /\ itime' = now
    /\ suspect' = (suspect \ (blank \union stamped)) \union Doubtful(entries, stamped)
    /\ UNCHANGED <<disk, mtime, now>>

\* SetIndex after the entries of `stamped' were filled from Lstat and those
\* of `blank' were removed, or replaced without a time.
SetIndex(entries, stamped, blank) ==
    /\ index' = entries
    /\ etime' = [p \in Path |-> CASE p \in stamped -> mtime[p]
                                  [] p \in blank \ stamped -> Blank
                                  [] OTHER -> etime[p]]
    /\ itime' = now
    /\ suspect' = (suspect \ (blank \union stamped)) \union Doubtful(entries, stamped)
    /\ UNCHANGED <<disk, mtime, now>>

-----------------------------------------------------------------------------
(* The user, and the clock.                                                *)

Edit(p, c) ==
    /\ op = Idle
    /\ disk[p] # c
    /\ WriteFile(p, c)
    /\ UNCHANGED <<refs, head, index, op>>

Tick ==
    /\ now < MaxTime
    /\ now' = now + 1
    /\ UNCHANGED <<refs, head, index, disk, mtime, etime, itime, suspect, op>>

-----------------------------------------------------------------------------
(* Staging, committing, removing and moving files.                         *)

Call(pc, mode, to, files) ==
    [Idle EXCEPT !.pc = pc, !.mode = mode, !.from = HeadTree, !.to = to,
                 !.files = files, !.start = index, !.doubt = suspect]

\* doAddFile for each path: the entry takes the file's content and time, or
\* goes when there is no file.
AddFiles(paths) ==
    SetIndex([p \in Path |-> IF p \in paths THEN disk[p] ELSE index[p]],
             paths \intersect Files, paths \ Files)

\* With a status at hand a path staged and unmodified since is left alone.
\* A path with neither file nor entry is an error.
Add(p, skipStatus) ==
    /\ op = Idle
    /\ disk[p] # None \/ index[p] # None
    /\ (skipStatus /\ disk[p] # None) \/ WorktreeCode(p) # "unmodified" \/ ~Staged(p)
    /\ AddFiles({p})
    /\ UNCHANGED <<refs, head, op>>

AddAll ==
    /\ op = Idle
    /\ \E p \in Path : WorktreeCode(p) # "unmodified"
    /\ AddFiles({p \in Path : WorktreeCode(p) # "unmodified"})
    /\ UNCHANGED <<refs, head, op>>

\* The file goes first, if there is one, and the entry in a second step.
Remove(p) ==
    /\ op = Idle
    /\ index[p] # None
    /\ WriteFile(p, None)
    /\ op' = Call("remove", "none", HeadTree, {p})
    /\ UNCHANGED <<refs, head, index>>

RemoveEntry ==
    /\ op.pc = "remove"
    /\ SetIndex([p \in Path |-> IF p \in op.files THEN None ELSE index[p]], {}, op.files)
    /\ op' = Idle
    /\ UNCHANGED <<refs, head>>

\* The renamed file keeps its time.  There may be an entry for the new name.
Move(p, q) ==
    /\ op = Idle
    /\ disk[p] # None /\ disk[q] = None /\ index[p] # None
    /\ disk' = [disk EXCEPT ![p] = None, ![q] = disk[p]]
    /\ mtime' = [mtime EXCEPT ![p] = 0, ![q] = mtime[p]]
    /\ suspect' = (suspect \ {p, q})
                    \union {r \in {q} : etime[q] = mtime[p] /\ index[q] # disk[p]}
    /\ op' = [Call("move", "none", HeadTree, {p}) EXCEPT !.todo = {q}]
    /\ UNCHANGED <<refs, head, index, etime, itime, now>>

\* The entry keeps its hash and takes the time of the renamed file.
MoveEntry ==
    /\ op.pc = "move"
    /\ \E p \in op.files, q \in op.todo :
        SetIndex([index EXCEPT ![p] = None, ![q] = index[p]], {q}, {p})
    /\ op' = Idle
    /\ UNCHANGED <<refs, head>>

Clean ==
    LET untracked == {p \in Path : WorktreeCode(p) = "untracked"}
    IN  /\ op = Idle
        /\ untracked # {}
        /\ disk' = [p \in Path |-> IF p \in untracked THEN None ELSE disk[p]]
        /\ mtime' = [p \in Path |-> IF p \in untracked THEN 0 ELSE mtime[p]]
        /\ suspect' = suspect \ untracked
        /\ UNCHANGED <<refs, head, index, etime, itime, now, op>>

\* buildCommitObject and updateHEAD.
UpdateHEAD(tree) ==
    LET moved == [refs EXCEPT ![head] = tree]
    IN  /\ Cardinality({r \in DOMAIN moved : moved[r] \notin History \union {None}}) <= MaxNew
        /\ refs' = moved

Commit ==
    /\ op = Idle
    /\ index # HeadTree
    /\ UpdateHEAD(index)
    /\ UNCHANGED <<head, index, disk, times, suspect, op>>

\* Commit with All writes the index first, even if it turns out equal to
\* HEAD, which is an error.
CommitAll ==
    /\ op = Idle
    /\ AddFiles(Unstaged)
    /\ op' = Call("commit", "none", HeadTree, Path)
    /\ UNCHANGED <<refs, head>>

CommitIndex ==
    /\ op.pc = "commit"
    /\ UpdateHEAD(index)
    /\ op' = Idle
    /\ UNCHANGED <<head, index, disk, times, suspect>>

-----------------------------------------------------------------------------
(* Reset, Restore, Checkout and Pull.                                      *)

\* The paths a keep reset refuses: staged or unstaged changes, or an
\* untracked file in the way, among the paths the two trees disagree on.
CheckKeepResetConflicts(from, to) ==
    {p \in Path :
        /\ from[p] # to[p]
        /\ IF WorktreeCode(p) = "untracked" THEN to[p] # None
           ELSE Staged(p) \/ p \in Unstaged}

\* Mutant: a merge reset does not look for unstaged changes.
HastyRefused(mode, from, to) ==
    mode = "keep" /\ CheckKeepResetConflicts(from, to) # {}

Refused(mode, from, to) ==
    \/ mode = "merge" /\ Unstaged # {}
    \/ mode = "keep" /\ CheckKeepResetConflicts(from, to) # {}

\* setHEADCommit, then the index unless the reset is soft.
MoveHead(call) ==
    /\ ~Refused(call.mode, call.from, call.to)
    /\ refs' = [refs EXCEPT ![head] = call.to]
    /\ op' = IF call.mode = "soft" THEN Idle ELSE [call EXCEPT !.pc = "index"]
    /\ UNCHANGED <<head, index, disk, times, suspect>>

Reset(mode, to) ==
    /\ op = Idle
    /\ MoveHead(Call("reset", mode, to, Path))

Restore(mode, files) ==
    /\ op = Idle
    /\ MoveHead(Call("reset", mode, HeadTree, files))

\* The branch is created first, HEAD is moved in a second step and Reset,
\* which may refuse, comes after both.
CreateBranch(b, mode, to) ==
    /\ op = Idle
    /\ refs[b] = None
    /\ refs' = [refs EXCEPT ![b] = to]
    /\ op' = [Call("head", mode, to, Path) EXCEPT !.at = b]
    /\ UNCHANGED <<head, index, disk, times, suspect>>

SetHEAD(call, at) ==
    /\ head' = at
    /\ refs' = [refs EXCEPT ![Detached] = IF at = Detached THEN call.to ELSE None]
    /\ op' = [call EXCEPT !.pc = "reset", !.at = Detached]
    /\ UNCHANGED <<index, disk, times, suspect>>

Checkout(mode, to, at) ==
    /\ op = Idle
    /\ at # Detached => refs[at] = to
    /\ SetHEAD(Call("head", mode, to, Path), at)

CheckoutCreated == op.pc = "head" /\ SetHEAD(op, op.at)

\* Pull moves the branch to what was fetched before it resets.
PullHead(to) ==
    /\ op = Idle
    /\ refs' = [refs EXCEPT ![head] = to]
    /\ op' = Call("reset", "merge", to, Path)
    /\ UNCHANGED <<head, index, disk, times, suspect>>

ResetRefuses ==
    /\ op.pc = "reset"
    /\ Refused(op.mode, op.from, op.to)
    /\ op' = Idle
    /\ UNCHANGED <<refs, head, index, disk, times, suspect>>

ResetProceeds == op.pc = "reset" /\ MoveHead(op)

\* The entries that differ from the tree are replaced, without times.
\* A merge reset goes on with just those paths.
ResetIndex ==
    LET removed == {p \in op.files : index[p] # op.to[p]}
        doomed == {p \in op.files : op.from[p] # None /\ op.to[p] = None}
    IN  /\ op.pc = "index"
        /\ SetIndex([p \in Path |-> IF p \in removed THEN op.to[p] ELSE index[p]],
                    {}, removed)
        /\ op' = CASE op.mode = "mixed" \/ (op.mode = "merge" /\ removed = {}) -> Idle
                   [] op.mode = "merge" /\ removed # {} ->
                        [op EXCEPT !.pc = "delete", !.files = removed]
                   [] OTHER -> [op EXCEPT !.pc = "delete", !.todo = doomed]
        /\ UNCHANGED <<refs, head>>

\* Step 1 of resetWorktreeToTree.
DeleteFile(p) ==
    /\ op.pc = "delete" /\ p \in op.todo
    /\ WriteFile(p, None)
    /\ op' = [op EXCEPT !.todo = @ \ {p}]
    /\ UNCHANGED <<refs, head, index>>

\* Mutant: files that are missing are not written.
ModifiedStaleFiles ==
    {p \in op.files : WorktreeCode(p) = "modified"
        \/ (op.mode = "merge" /\ index[p] = None /\ disk[p] # None)}

\* The files the new index disagrees with.  Only a merge reset deletes
\* those without an entry, ignored ones included.
StaleFiles ==
    {p \in op.files : p \in Unstaged \/ (op.mode = "merge" /\ index[p] = None /\ disk[p] # None)}

DiffWorktree ==
    /\ op.pc = "delete" /\ op.todo = {}
    /\ op' = [op EXCEPT !.pc = "write", !.todo = StaleFiles]
    /\ UNCHANGED <<refs, head, index, disk, times, suspect>>

\* A file that is to change is removed before it is written.
CheckoutChange(p) ==
    /\ op.pc = "write" /\ p \in op.todo
    /\ IF disk[p] # None
       THEN /\ WriteFile(p, None)
            /\ op' = IF index[p] = None THEN [op EXCEPT !.todo = @ \ {p}] ELSE op
       ELSE /\ WriteFile(p, op.to[p])
            /\ op' = [op EXCEPT !.todo = @ \ {p}, !.written = @ \union {p}]
    /\ UNCHANGED <<refs, head, index>>

SaveIndex ==
    /\ op.pc = "write" /\ op.todo = {}
    /\ SetIndex(index, op.written, {})
    /\ op' = Idle
    /\ UNCHANGED <<refs, head>>

Stop ==
    /\ op # Idle
    /\ op' = Idle
    /\ UNCHANGED <<refs, head, index, disk, times, suspect>>

-----------------------------------------------------------------------------
Init ==
    /\ \E t \in History, b \in Branch :
        /\ refs = [r \in Branch \union {Detached} |-> IF r = b THEN t ELSE None]
        /\ head = b
        /\ index = t /\ disk = t
    /\ mtime = [p \in Path |-> 0]
    /\ etime = [p \in Path |-> IF index[p] # None THEN 0 ELSE Blank]
    /\ itime = 0 /\ now = 0
    /\ suspect = {}
    /\ op = Idle

ResetStep ==
    \/ CheckoutCreated \/ ResetRefuses \/ ResetProceeds
    \/ ResetIndex \/ DiffWorktree \/ SaveIndex \/ Stop
    \/ \E p \in Path : DeleteFile(p) \/ CheckoutChange(p)

Next ==
    \/ \E p \in Path, c \in Content \union {None} : Edit(p, c)
    \/ Tick
    \/ \E p \in Path, skipStatus \in BOOLEAN : Add(p, skipStatus)
    \/ AddAll
    \/ \E p \in Path : Remove(p)
    \/ \E p, q \in Path : Move(p, q)
    \/ Clean
    \/ Commit
    \/ CommitAll
    \/ RemoveEntry \/ MoveEntry \/ CommitIndex
    \/ \E mode \in Modes, to \in Known : Reset(mode, to)
    \/ \E mode \in {"mixed", "hard"}, files \in (SUBSET Path) \ {{}} : Restore(mode, files)
    \/ \E b \in Branch, mode \in {"merge", "hard", "soft"}, to \in Known :
        CreateBranch(b, mode, to)
    \/ \E mode \in {"merge", "hard", "soft"}, to \in Known, at \in Branch \union {Detached} :
        Checkout(mode, to, at)
    \/ \E to \in Known : PullHead(to)
    \/ ResetStep

Spec == Init /\ [][Next]_vars

-----------------------------------------------------------------------------
(* Properties.                                                             *)

\* A file whose time, size and age let Status skip reading it does hold the
\* content its index entry names, after any sequence of edits, staging, moves,
\* resets and stopped calls.  Excepted is a file once it gets another content
\* and the recorded time in one event: an edit within the time unit of its
\* entry, a Move that takes unstaged edits along, or one that stops after
\* renaming onto a path whose entry has the file's time.  The exception ends
\* when the file is written or its entry replaced again.
EditsAreSeen ==
    \A p \in Path \ suspect : index[p] # None /\ MetadataMatches(p) => disk[p] = index[p]

\* The index is used ``while correctly handling the "racy git" condition''
\* (node.go): where Status trusts size and times, the content is the entry's.
MetadataIsEnough ==
    \A p \in Path : index[p] # None /\ MetadataMatches(p) => disk[p] = index[p]

\* A hard reset or forced checkout that returns leaves the tree's content in
\* every file of the tree, drops the files only the old HEAD had, and leaves
\* index and HEAD at the tree, whatever interrupted call or edit came before.
\* Of a suspect file whose entry did not change it cannot see the edit.
HardResetRestores ==
    [][SaveIndex /\ op.mode = "hard" =>
        /\ HeadTree' = op.to
        /\ \A p \in op.files :
            /\ index'[p] = op.to[p]
            /\ op.to[p] # None /\ p \notin suspect => disk'[p] = op.to[p]
            /\ op.to[p] = None /\ op.from[p] # None => disk'[p] = None]_vars

\* Edits that were not added are not lost: a merge reset, checkout or pull
\* removes or overwrites a tracked file only while it holds what the index
\* named when the call began, and a keep reset does so to a tracked file in
\* which the two commits differ only while it holds what HEAD had.  Excepted
\* are the files that were suspect when the call began.
EditsSurvive ==
    [][\A p \in Path \ op.doubt :
        op.start[p] # None /\ disk[p] # None /\ disk'[p] # disk[p] =>
            /\ op.mode = "merge" => disk[p] = op.start[p]
            /\ op.mode = "keep" /\ op.from[p] # op.to[p] => disk[p] = op.from[p]]_vars

\* No reset, checkout or pull touches a file that neither the index, nor the
\* HEAD the call began with, nor the tree it goes to has a name for.
UntrackedSurvive ==
    [][\A p \in Path :
        /\ op # Idle
        /\ op.start[p] = None /\ op.from[p] = None /\ op.to[p] = None
        => disk'[p] = disk[p]]_vars

\* Neither kind of local content is lost: unstaged edits, as far as said above,
\* and files that git knows nothing of.
LocalFilesSurvive == EditsSurvive /\ UntrackedSurvive

\* "KeepReset ... updates files in the working tree that differ between Commit
\* and HEAD ... if a file that differs ... has local modifications (staged or
\* unstaged), the reset is aborted" (options.go): it removes or overwrites a
\* file only while the file has HEAD's content.
KeepLosesNothing ==
    [][\A p \in Path :
        op.mode = "keep" /\ p \notin Ignored /\ disk[p] # None /\ disk'[p] # disk[p]
        => disk[p] = op.from[p]]_vars
=============================================================================
