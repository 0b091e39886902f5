--------------------------- MODULE WorktreeProofs ---------------------------
(***************************************************************************)
(* Proofs about Worktree, for any paths, contents, branches and trees.  A  *)
(* reset, checkout or pull takes many steps and may stop after any; the    *)
(* invariants say what each phase may rely on, and when an unread file is  *)
(* known to hold what its index entry names.                               *)
(***************************************************************************)
EXTENDS Worktree, TLAPS

Resetting == op.pc \in {"index", "delete", "write"}
Checking == op.pc \in {"delete", "write"}

\* The call under way before it writes the index: what it was given is still
\* what HEAD and the index say.
CallBegun ==
    /\ op.pc = "idle" => op = Idle
    /\ op.pc = "head" => op.at \in Branch /\ refs[op.at] = op.to
    /\ op.pc \in {"remove", "move", "commit"} => op.mode = "none"
    /\ op.pc \in {"head", "reset"} => op.mode \in {"merge", "hard", "soft"}
    /\ op.pc \in {"head", "reset", "index"} =>
          op.start = index /\ op.todo = {} /\ op.written = {} /\ op.doubt = suspect

\* From the move of HEAD on, HEAD is the tree the call goes to, and from the
\* write of the index on the entries of its files are those of that tree.
CallFollows ==
    /\ Resetting => HeadTree = op.to
    /\ Checking => /\ \A p \in op.files : index[p] = op.to[p]
                   /\ op.mode = "merge" => \A p \in op.files : op.start[p] # op.to[p]

\* What the two file lists of a reset hold.
CallLists ==
    /\ Checking => op.todo \subseteq op.files
    /\ op.pc = "delete" =>
          /\ op.written = {}
          /\ op.mode = "merge" => op.todo = {}
          /\ \A p \in op.todo : op.from[p] # None /\ op.to[p] = None
    /\ op.pc = "write" =>
          /\ \A p \in op.todo : op.to[p] # None \/ (op.mode = "merge" /\ op.start[p] # None)
          /\ op.written \subseteq op.files
          /\ \A p \in op.written : p \notin op.todo /\ disk[p] = op.to[p]
    /\ Checking /\ op.mode # "merge" =>
          \A p \in op.files : op.from[p] # None /\ op.to[p] = None =>
              p \in op.todo \/ disk[p] = None

CallInv == TypeOK /\ CallBegun /\ CallFollows /\ CallLists

\* A file that has the recorded time holds the content its entry names, unless
\* it is suspect.
StatIsTrue ==
    \A p \in Path \ suspect :
        index[p] # None /\ disk[p] # None /\ mtime[p] = etime[p] => disk[p] = index[p]

\* The files that are not on the list of a reset have their new content.
WritesAccounted ==
    op.pc = "write" =>
        \A p \in op.files \ suspect : op.to[p] # None => p \in op.todo \/ disk[p] = op.to[p]

\* A file that a merge or keep reset may still remove is as the call found it.
Untouched ==
    \A p \in Path \ op.doubt :
        /\ op.mode = "merge" /\ op.start[p] # None =>
              /\ op.pc \in {"index", "delete"} => disk[p] = op.start[p]
              /\ op.pc = "write" /\ p \in op.todo => disk[p] \in {op.start[p], None}
        /\ (/\ op.mode = "keep" /\ op.start[p] # None /\ op.from[p] # op.to[p]
            /\ op.pc = "write" => p \in op.todo) => disk[p] \in {op.from[p], None}

FilesInv == StatIsTrue /\ WritesAccounted /\ Untouched
-----------------------------------------------------------------------------
(* Types.                                                                   *)

CallType ==
    [pc : Phases, mode : Modes \union {"none"}, from : Tree, to : Tree,
     at : Branch \union {Detached}, files : SUBSET Path, todo : SUBSET Path,
     written : SUBSET Path, start : Tree, doubt : SUBSET Path]

\* No call is under way in Idle.
LEMMA IdleType == Idle \in CallType /\ Idle.pc = "idle" /\ Idle.mode = "none"
  BY DEF Idle, CallType, Phases, Empty, Tree

\* Known trees are trees, and so is HEAD's.
LEMMA KnownTypes == ASSUME TypeOK PROVE Known \subseteq Tree /\ HeadTree \in Tree
  BY WorktreeAssumption DEF TypeOK, Known, HeadTree

\* The fields of a call that begins.
LEMMA CallFields ==
    ASSUME TypeOK, NEW pc \in Phases, NEW mode \in Modes \union {"none"}, NEW to \in Tree,
           NEW files \in SUBSET Path
    PROVE  LET call == Call(pc, mode, to, files)
           IN  /\ call \in CallType
               /\ call.pc = pc /\ call.mode = mode /\ call.to = to /\ call.files = files
               /\ call.from = HeadTree /\ call.start = index /\ call.at = Detached
               /\ call.todo = {} /\ call.written = {} /\ call.doubt = suspect
  <1>1. HeadTree \in Tree /\ index \in Tree /\ suspect \subseteq Path
    BY KnownTypes DEF TypeOK
  <1> QED BY <1>1 DEF Call, Idle, CallType, Empty, Tree

FileTypes ==
    /\ index \in Tree /\ disk \in Tree
    /\ mtime \in [Path -> Nat] /\ etime \in [Path -> Nat \union {Blank}]
    /\ itime \in Nat /\ now \in Nat
    /\ suspect \subseteq Path

\* Writing a file keeps the types of what the worktree knows of its files.
LEMMA WriteFileTypes ==
    ASSUME FileTypes, NEW p \in Path, NEW c \in Content \union {None}, WriteFile(p, c),
           UNCHANGED index
    PROVE  FileTypes'
  BY DEF FileTypes, WriteFile, Tree

\* Writing the index keeps them too.
LEMMA SetIndexTypes ==
    ASSUME FileTypes, NEW entries \in Tree, NEW stamped \in SUBSET Path, NEW blank \in SUBSET Path,
           SetIndex(entries, stamped, blank)
    PROVE  FileTypes'
  <1>1. etime' \in [Path -> Nat \union {Blank}]
    BY DEF SetIndex, FileTypes
  <1>2. suspect' \subseteq Path
    BY DEF SetIndex, FileTypes, Doubtful
  <1> QED BY <1>1, <1>2 DEF SetIndex, FileTypes

\* Staging files keeps the types.
LEMMA AddFilesTypes ==
    ASSUME FileTypes, NEW paths \in SUBSET Path, AddFiles(paths)
    PROVE  FileTypes' /\ UNCHANGED disk
  <1> DEFINE entries == [p \in Path |-> IF p \in paths THEN disk[p] ELSE index[p]]
  <1>1. entries \in Tree
    BY DEF FileTypes, Tree
  <1>2. SetIndex(entries, paths \intersect Files, paths \ Files)
    BY DEF AddFiles
  <1> HIDE DEF entries
  <1> QED BY <1>1, <1>2, SetIndexTypes DEF SetIndex

\* The types of the files, of HEAD and of the call make up TypeOK.
LEMMA TypeParts ==
    TypeOK <=> /\ FileTypes
               /\ refs \in [Branch \union {Detached} -> Tree \union {None}]
               /\ head \in Branch \union {Detached} /\ refs[head] # None
               /\ op \in CallType
  BY DEF TypeOK, FileTypes, CallType

\* The calls that return in one step, and what the user does to files.
UserStep ==
    \/ \E p \in Path, c \in Content \union {None} : Edit(p, c)
    \/ \E p \in Path, skipStatus \in BOOLEAN : Add(p, skipStatus)
    \/ AddAll
    \/ Clean
    \/ Commit

\* A step of the user keeps the types and leaves no call under way.
LEMMA UserTypes == ASSUME TypeOK, UserStep PROVE TypeOK' /\ op = Idle /\ op' = Idle
  <1>1. ASSUME NEW p \in Path, NEW c \in Content \union {None}, Edit(p, c)
        PROVE  TypeOK' /\ op = Idle /\ op' = Idle
    <2>1. FileTypes'
      BY <1>1, WriteFileTypes, TypeParts DEF Edit
    <2> QED BY <1>1, <2>1 DEF Edit, TypeOK, FileTypes
  <1>2. ASSUME NEW paths \in SUBSET Path, AddFiles(paths), UNCHANGED <<refs, head, op>>
        PROVE  TypeOK'
    <2>1. FileTypes'
      BY <1>2, AddFilesTypes, TypeParts
    <2> QED BY <1>2, <2>1 DEF TypeOK, FileTypes
  <1>3. ASSUME NEW p \in Path, NEW skipStatus \in BOOLEAN, Add(p, skipStatus)
        PROVE  TypeOK' /\ op = Idle /\ op' = Idle
    BY <1>2, <1>3 DEF Add
  <1>4. CASE AddAll
    BY <1>2, <1>4 DEF AddAll
  <1>5. CASE Clean
    <2> DEFINE untracked == {p \in Path : WorktreeCode(p) = "untracked"}
    <2>1. /\ disk' = [p \in Path |-> IF p \in untracked THEN None ELSE disk[p]]
          /\ mtime' = [p \in Path |-> IF p \in untracked THEN 0 ELSE mtime[p]]
          /\ suspect' = suspect \ untracked
          /\ UNCHANGED <<refs, head, index, etime, itime, now, op>> /\ op = Idle
      BY <1>5 DEF Clean
    <2>2. disk' \in Tree
      BY <2>1 DEF TypeOK, Tree
    <2>3. mtime' \in [Path -> Nat]
      BY <2>1 DEF TypeOK
    <2> QED BY <2>1, <2>2, <2>3 DEF TypeOK
  <1>6. CASE Commit
    BY <1>6, WorktreeAssumption DEF Commit, UpdateHEAD, TypeOK, times
  <1> QED BY <1>1, <1>3, <1>4, <1>5, <1>6 DEF UserStep

\* When a step leaves no call under way the parts about calls hold.
LEMMA NoCallNext ==
    ASSUME op' = Idle
    PROVE  CallBegun' /\ CallFollows' /\ CallLists' /\ WritesAccounted' /\ Untouched'
  BY IdleType DEF CallBegun, CallFollows, CallLists, WritesAccounted, Untouched,
     Resetting, Checking

\* The first steps of the calls that write a file or the index and then the
\* index or HEAD.
BeginStep ==
    \/ \E p \in Path : Remove(p)
    \/ \E p, q \in Path : Move(p, q)
    \/ CommitAll

\* Removing, moving and committing begin with a call under way.
LEMMA BeginInv ==
    ASSUME TypeOK, BeginStep
    PROVE  /\ CallInv' /\ op = Idle
           /\ op'.pc \in {"remove", "move", "commit"} /\ op'.mode = "none"
  <1>1. HeadTree \in Tree /\ FileTypes /\ op \in CallType
    BY KnownTypes, TypeParts
  <1>2. ASSUME NEW pc \in {"remove", "move", "commit"}, NEW files \in SUBSET Path
        PROVE  LET call == Call(pc, "none", HeadTree, files)
               IN  call \in CallType /\ call.pc = pc /\ call.mode = "none"
    BY <1>1, CallFields DEF Phases
  <1>3. ASSUME FileTypes', UNCHANGED <<refs, head>>, op' \in CallType,
               op'.pc \in {"remove", "move", "commit"}, op'.mode = "none"
        PROVE  CallInv'
    <2>1. TypeOK'
      BY <1>3, TypeParts DEF TypeOK, FileTypes, CallType
    <2>2. CallBegun' /\ CallFollows' /\ CallLists'
      BY <1>3 DEF CallBegun, CallFollows, CallLists, Resetting, Checking
    <2> QED BY <2>1, <2>2 DEF CallInv
  <1>4. ASSUME NEW p \in Path, Remove(p)
        PROVE  CallInv' /\ op = Idle /\ op'.pc = "remove" /\ op'.mode = "none"
    <2>1. op' \in CallType /\ op'.pc = "remove" /\ op'.mode = "none"
      BY <1>2, <1>4 DEF Remove
    <2>2. FileTypes'
      BY <1>1, <1>4, WriteFileTypes DEF Remove
    <2> QED BY <1>3, <1>4, <2>1, <2>2 DEF Remove
  <1>5. ASSUME NEW p \in Path, NEW q \in Path, Move(p, q)
        PROVE  CallInv' /\ op = Idle /\ op'.pc = "move" /\ op'.mode = "none"
    <2> DEFINE call == Call("move", "none", HeadTree, {p})
    <2>1. call \in CallType /\ call.pc = "move" /\ call.mode = "none"
      BY <1>2
    <2>2. op' = [call EXCEPT !.todo = {q}]
      BY <1>5 DEF Move
    <2> HIDE DEF call
    <2>3. op' \in CallType /\ op'.pc = "move" /\ op'.mode = "none"
      BY <2>1, <2>2 DEF CallType
    <2>4. FileTypes'
      BY <1>1, <1>5 DEF Move, FileTypes, Tree
    <2> QED BY <1>3, <1>5, <2>3, <2>4 DEF Move
  <1>6. CASE CommitAll
    <2>1. op' \in CallType /\ op'.pc = "commit" /\ op'.mode = "none"
      BY <1>2, <1>6 DEF CommitAll
    <2>2. FileTypes'
      BY <1>1, <1>6, AddFilesTypes DEF CommitAll, Unstaged
    <2> QED BY <1>3, <1>6, <2>1, <2>2 DEF CommitAll
  <1> QED BY <1>4, <1>5, <1>6 DEF BeginStep

\* Their last steps write the index, or HEAD, and return.
EntryStep == RemoveEntry \/ MoveEntry \/ CommitIndex

LEMMA EntryTypes ==
    ASSUME TypeOK, EntryStep
    PROVE  TypeOK' /\ op' = Idle /\ UNCHANGED disk
  <1>1. FileTypes /\ op \in CallType 
    BY TypeParts
  <1>2. ASSUME FileTypes', op' = Idle, UNCHANGED <<refs, head>> PROVE TypeOK'
    BY <1>2, IdleType DEF TypeOK, FileTypes, CallType
  <1>3. CASE RemoveEntry
    <2> DEFINE entries == [p \in Path |-> IF p \in op.files THEN None ELSE index[p]]
    <2>1. entries \in Tree /\ op.files \in SUBSET Path
      BY <1>1 DEF FileTypes, Tree, CallType
    <2>2. SetIndex(entries, {}, op.files) /\ op' = Idle /\ UNCHANGED <<refs, head>>
      BY <1>3 DEF RemoveEntry
    <2> HIDE DEF entries
    <2>3. FileTypes'
      BY <1>1, <2>1, <2>2, SetIndexTypes
    <2> QED BY <1>2, <2>2, <2>3 DEF SetIndex
  <1>4. CASE MoveEntry
    <2>1. PICK p \in op.files, q \in op.todo :
             SetIndex([index EXCEPT ![p] = None, ![q] = index[p]], {q}, {p})
      BY <1>4 DEF MoveEntry
    <2> DEFINE entries == [index EXCEPT ![p] = None, ![q] = index[p]]
    <2>2. p \in Path /\ q \in Path
      BY <1>1 DEF CallType
    <2>3. entries \in Tree
      BY <1>1, <2>2 DEF FileTypes, Tree
    <2>4. SetIndex(entries, {q}, {p}) /\ op' = Idle /\ UNCHANGED <<refs, head>>
      BY <1>4, <2>1 DEF MoveEntry
    <2> HIDE DEF entries
    <2>5. FileTypes'
      BY <1>1, <2>2, <2>3, <2>4, SetIndexTypes
    <2> QED BY <1>2, <2>4, <2>5 DEF SetIndex
  <1>5. CASE CommitIndex
    BY <1>5, IdleType, WorktreeAssumption DEF CommitIndex, UpdateHEAD, TypeOK, CallType, times
  <1> QED BY <1>3, <1>4, <1>5 DEF EntryStep

\* The clock changes nothing a call relies on.
LEMMA TickInv ==
    ASSUME CallInv, Tick
    PROVE  CallInv' /\ UNCHANGED <<index, disk, mtime, etime, suspect, op>>
  <1>1. UNCHANGED <<refs, head, index, disk, mtime, etime, itime, suspect, op>> /\ now' = now + 1
    BY DEF Tick
  <1>2. TypeOK'
    BY <1>1 DEF CallInv, TypeOK
  <1>3. CallBegun' /\ CallFollows' /\ CallLists'
    BY <1>1 DEF CallInv, CallBegun, CallFollows, CallLists, Resetting, Checking, HeadTree
  <1> QED BY <1>1, <1>2, <1>3 DEF CallInv
-----------------------------------------------------------------------------
(* The calls that reset.                                                    *)

\* Moving HEAD: the reset was not refused, and HEAD is its tree.
LEMMA MoveHeadTypes ==
    ASSUME TypeOK, NEW call \in CallType, MoveHead(call),
           call.start = index, call.todo = {}, call.written = {}, call.doubt = suspect
    PROVE  /\ CallInv'
           /\ op' = Idle \/ (op' = [call EXCEPT !.pc = "index"] /\ ~Refused(call.mode, call.from, call.to))
  <1> DEFINE moved == [call EXCEPT !.pc = "index"]
  <1>1. /\ moved \in CallType /\ moved.pc = "index" /\ moved.to = call.to
        /\ moved.start = index /\ moved.todo = {} /\ moved.written = {} /\ moved.doubt = suspect
    BY DEF CallType, Phases
  <1>2. /\ refs' = [refs EXCEPT ![head] = call.to]
        /\ op' = Idle \/ op' = moved
        /\ ~Refused(call.mode, call.from, call.to)
        /\ UNCHANGED <<head, index, disk, times, suspect>>
    BY DEF MoveHead
  <1>3. call.to \in Tree
    BY DEF CallType
  <1> HIDE DEF moved
  <1>4. TypeOK'
    <2>1. op' \in CallType
      BY <1>1, <1>2, IdleType
    <2> QED BY <1>2, <1>3, <2>1, WorktreeAssumption DEF TypeOK, CallType, times
  <1>5. CASE op' = Idle
    BY <1>4, <1>5, NoCallNext DEF CallInv
  <1>6. CASE op' = moved
    <2>1. CallBegun' /\ CallLists'
      BY <1>1, <1>2, <1>6 DEF CallBegun, CallLists, Checking
    <2>2. CallFollows'
      BY <1>1, <1>2, <1>6 DEF CallFollows, Checking, Resetting, HeadTree, TypeOK
    <2> QED BY <1>2, <1>4, <1>6, <2>1, <2>2 DEF CallInv, moved
  <1> QED BY <1>2, <1>5, <1>6 DEF moved

\* Moving HEAD to another branch, or detaching it.
LEMMA SetHEADInv ==
    ASSUME TypeOK, NEW call \in CallType, NEW at \in Branch \union {Detached},
           SetHEAD(call, at),
           at # Detached => refs[at] = call.to,
           call.mode \in {"merge", "hard", "soft"},
           call.start = index, call.todo = {}, call.written = {}, call.doubt = suspect
    PROVE  CallInv' /\ op'.pc = "reset"
  <1> DEFINE next == [call EXCEPT !.pc = "reset", !.at = Detached]
  <1>1. /\ next \in CallType /\ next.pc = "reset" /\ next.mode = call.mode
        /\ next.start = index /\ next.todo = {} /\ next.written = {} /\ next.doubt = suspect
    BY DEF CallType, Phases
  <1>2. /\ head' = at /\ op' = next
        /\ refs' = [refs EXCEPT ![Detached] = IF at = Detached THEN call.to ELSE None]
        /\ UNCHANGED <<index, disk, times, suspect>>
    BY DEF SetHEAD
  <1>3. call.to \in Tree
    BY DEF CallType
  <1> HIDE DEF next
  <1>4. TypeOK'
    BY <1>1, <1>2, <1>3, WorktreeAssumption DEF TypeOK, CallType, times
  <1>5. CallBegun' /\ CallFollows' /\ CallLists'
    BY <1>1, <1>2 DEF CallBegun, CallFollows, CallLists, Resetting, Checking
  <1> QED BY <1>1, <1>2, <1>4, <1>5 DEF CallInv

\* The first steps of Reset, Restore, Checkout and Pull.
CallStep ==
    \/ \E mode \in Modes, to \in Known : Reset(mode, to)
    \/ \E mode \in {"mixed", "hard"}, files \in (SUBSET Path) \ {{}} : Restore(mode, files)
    \/ \E b \in Branch, mode \in {"merge", "hard", "soft"}, to \in Known :
        CreateBranch(b, mode, to)
    \/ \E mode \in {"merge", "hard", "soft"}, to \in Known, at \in Branch \union {Detached} :
        Checkout(mode, to, at)
    \/ \E to \in Known : PullHead(to)

\* A call that begins: it moved HEAD in the state it found, or it has not
\* looked at the files yet.
LEMMA CallBegins ==
    ASSUME TypeOK, CallStep
    PROVE  /\ CallInv' /\ UNCHANGED <<index, disk, times, suspect>>
           /\ \/ op' = Idle
              \/ op'.pc \in {"head", "reset"}
              \/ /\ op'.pc = "index" /\ op'.from = HeadTree /\ op'.start = index /\ op'.doubt = suspect
                 /\ ~Refused(op'.mode, op'.from, op'.to)
  <1>1. ASSUME NEW mode \in Modes, NEW to \in Tree, NEW files \in SUBSET Path,
               MoveHead(Call("reset", mode, to, files))
        PROVE  /\ CallInv' /\ UNCHANGED <<index, disk, times, suspect>>
               /\ \/ op' = Idle
                  \/ /\ op'.pc = "index" /\ op'.from = HeadTree /\ op'.start = index /\ op'.doubt = suspect
                     /\ ~Refused(op'.mode, op'.from, op'.to)
    <2> DEFINE call == Call("reset", mode, to, files)
    <2>1. /\ call \in CallType /\ call.mode = mode /\ call.to = to /\ call.from = HeadTree
          /\ call.start = index /\ call.todo = {} /\ call.written = {} /\ call.doubt = suspect
      BY <1>1, CallFields DEF Phases
    <2>2. MoveHead(call)
      BY <1>1
    <2> HIDE DEF call
    <2>3. /\ CallInv'
          /\ op' = Idle \/ (op' = [call EXCEPT !.pc = "index"] /\ ~Refused(call.mode, call.from, call.to))
      BY <2>1, <2>2, MoveHeadTypes
    <2>4. ASSUME op' = [call EXCEPT !.pc = "index"]
          PROVE  /\ op'.pc = "index" /\ op'.from = HeadTree /\ op'.start = index /\ op'.doubt = suspect
                 /\ op'.mode = call.mode /\ op'.from = call.from /\ op'.to = call.to
      BY <2>1, <2>4 DEF CallType
    <2> QED BY <2>2, <2>3, <2>4 DEF MoveHead
  <1>2. Known \subseteq Tree /\ HeadTree \in Tree
    BY KnownTypes
  <1>3. ASSUME NEW mode \in Modes, NEW to \in Known, Reset(mode, to)
        PROVE  MoveHead(Call("reset", mode, to, Path))
    BY <1>3 DEF Reset
  <1>4. ASSUME NEW mode \in {"mixed", "hard"}, NEW files \in (SUBSET Path) \ {{}},
               Restore(mode, files)
        PROVE  MoveHead(Call("reset", mode, HeadTree, files))
    BY <1>4 DEF Restore
  <1>5. ASSUME NEW b \in Branch, NEW mode \in {"merge", "hard", "soft"}, NEW to \in Known,
               CreateBranch(b, mode, to)
        PROVE  CallInv' /\ UNCHANGED <<index, disk, times, suspect>> /\ op'.pc = "head"
    <2> DEFINE call == Call("head", mode, to, Path)
    <2>1. /\ call \in CallType /\ call.pc = "head" /\ call.mode = mode /\ call.to = to
          /\ call.start = index /\ call.todo = {} /\ call.written = {} /\ call.doubt = suspect
      BY <1>2, CallFields DEF Phases, Modes
    <2>2. op' = [call EXCEPT !.at = b]
      BY <1>5 DEF CreateBranch
    <2> HIDE DEF call
    <2>3. /\ op' \in CallType /\ op'.pc = "head" /\ op'.mode = mode /\ op'.to = to
          /\ op'.at = b /\ op'.start = index /\ op'.todo = {} /\ op'.written = {}
          /\ op'.doubt = suspect
      BY <2>1, <2>2 DEF CallType
    <2>4. /\ refs' = [refs EXCEPT ![b] = to] /\ to \in Tree
          /\ UNCHANGED <<head, index, disk, times, suspect>>
      BY <1>2, <1>5 DEF CreateBranch
    <2>5. TypeOK'
      BY <2>3, <2>4, WorktreeAssumption DEF TypeOK, CallType, times
    <2>6. CallBegun' /\ CallFollows' /\ CallLists'
      BY <2>3, <2>4 DEF CallBegun, CallFollows, CallLists, Resetting, Checking, TypeOK
    <2> QED BY <2>3, <2>4, <2>5, <2>6 DEF CallInv
  <1>6. ASSUME NEW mode \in {"merge", "hard", "soft"}, NEW to \in Known,
               NEW at \in Branch \union {Detached}, Checkout(mode, to, at)
        PROVE  CallInv' /\ UNCHANGED <<index, disk, times, suspect>> /\ op'.pc = "reset"
    <2> DEFINE call == Call("head", mode, to, Path)
    <2>1. /\ call \in CallType /\ call.mode = mode /\ call.to = to
          /\ call.start = index /\ call.todo = {} /\ call.written = {} /\ call.doubt = suspect
      BY <1>2, CallFields DEF Phases, Modes
    <2>2. SetHEAD(call, at) /\ (at # Detached => refs[at] = call.to)
      BY <1>6, <2>1 DEF Checkout
    <2> HIDE DEF call
    <2> QED BY <2>1, <2>2, SetHEADInv DEF SetHEAD
  <1>7. ASSUME NEW to \in Known, PullHead(to)
        PROVE  CallInv' /\ UNCHANGED <<index, disk, times, suspect>> /\ op'.pc = "reset"
    <2> DEFINE call == Call("reset", "merge", to, Path)
    <2>1. /\ call \in CallType /\ call.pc = "reset" /\ call.mode = "merge"
          /\ call.start = index /\ call.todo = {} /\ call.written = {} /\ call.doubt = suspect
      BY <1>2, CallFields DEF Phases, Modes
    <2>2. /\ op' = call /\ refs' = [refs EXCEPT ![head] = to] /\ to \in Tree
          /\ UNCHANGED <<head, index, disk, times, suspect>>
      BY <1>2, <1>7 DEF PullHead
    <2> HIDE DEF call
    <2>3. TypeOK'
      BY <2>1, <2>2, WorktreeAssumption DEF TypeOK, CallType, times
    <2>4. CallBegun' /\ CallFollows' /\ CallLists'
      BY <2>1, <2>2 DEF CallBegun, CallFollows, CallLists, Resetting, Checking
    <2> QED BY <2>1, <2>2, <2>3, <2>4 DEF CallInv
  <1>8. {"mixed", "hard"} \subseteq Modes /\ Path \in SUBSET Path
    BY DEF Modes
  <1> QED BY <1>1, <1>2, <1>3, <1>4, <1>5, <1>6, <1>7, <1>8 DEF CallStep

\* The steps that move HEAD, refuse or give up.
LEMMA HeadStepInv ==
    ASSUME CallInv, CheckoutCreated \/ ResetRefuses \/ ResetProceeds \/ Stop
    PROVE  /\ CallInv' /\ UNCHANGED <<index, disk, times, suspect>>
           /\ \/ op' = Idle
              \/ op'.pc = "reset"
              \/ /\ op'.pc = "index" /\ op'.mode \in {"merge", "hard", "soft"}
                 /\ op'.start = index /\ op'.doubt = suspect /\ ~Refused(op'.mode, op'.from, op'.to)
  <1>1. TypeOK /\ op \in CallType
    BY DEF CallInv, TypeOK, CallType
  <1>2. CASE CheckoutCreated
    <2>1. SetHEAD(op, op.at) /\ op.pc = "head"
      BY <1>2 DEF CheckoutCreated
    <2>2. /\ op.at \in Branch \union {Detached} /\ (op.at # Detached => refs[op.at] = op.to)
          /\ op.mode \in {"merge", "hard", "soft"}
          /\ op.start = index /\ op.todo = {} /\ op.written = {} /\ op.doubt = suspect
      BY <2>1 DEF CallInv, CallBegun
    <2> QED BY <1>1, <2>1, <2>2, SetHEADInv DEF SetHEAD
  <1>3. CASE ResetRefuses \/ Stop
    <2>1. op' = Idle /\ UNCHANGED <<refs, head, index, disk, times, suspect>>
      BY <1>3 DEF ResetRefuses, Stop
    <2>2. TypeOK'
      BY <1>1, <2>1, IdleType DEF TypeOK, CallType, times
    <2> QED BY <2>1, <2>2, NoCallNext DEF CallInv
  <1>4. CASE ResetProceeds
    <2>1. MoveHead(op) /\ op.pc = "reset"
      BY <1>4 DEF ResetProceeds
    <2>2. /\ op.mode \in {"merge", "hard", "soft"}
          /\ op.start = index /\ op.todo = {} /\ op.written = {} /\ op.doubt = suspect
      BY <2>1 DEF CallInv, CallBegun
    <2>3. /\ CallInv'
          /\ op' = Idle \/ (op' = [op EXCEPT !.pc = "index"] /\ ~Refused(op.mode, op.from, op.to))
      BY <1>1, <2>1, <2>2, MoveHeadTypes
    <2>4. ASSUME op' = [op EXCEPT !.pc = "index"]
          PROVE  /\ op'.pc = "index" /\ op'.mode = op.mode /\ op'.start = op.start
                 /\ op'.doubt = op.doubt
                 /\ op'.from = op.from /\ op'.to = op.to
      BY <1>1, <2>4 DEF CallType
    <2> QED BY <2>1, <2>2, <2>3, <2>4 DEF MoveHead
  <1> QED BY <1>2, <1>3, <1>4

\* Writing the index.
LEMMA ResetIndexInv ==
    ASSUME CallInv, ResetIndex
    PROVE  /\ CallInv' /\ UNCHANGED disk /\ op.pc = "index"
           /\ UNCHANGED mtime /\ suspect' \subseteq suspect
           /\ \A p \in Path : \/ etime'[p] = Blank
                             \/ /\ etime'[p] = etime[p] /\ index'[p] = index[p]
                                /\ p \in suspect' <=> p \in suspect
           /\ \/ op' = Idle
              \/ /\ op'.pc = "delete" /\ op'.mode = op.mode /\ op'.doubt = op.doubt
                 /\ op'.from = op.from /\ op'.to = op.to /\ op'.start = op.start
  <1> DEFINE removed == {p \in op.files : index[p] # op.to[p]}
             doomed == {p \in op.files : op.from[p] # None /\ op.to[p] = None}
             entries == [p \in Path |-> IF p \in removed THEN op.to[p] ELSE index[p]]
  <1>1. TypeOK /\ op \in CallType
    BY DEF CallInv, TypeOK, CallType
  <1>2. /\ op.pc = "index" /\ SetIndex(entries, {}, removed)
        /\ \/ op' = Idle
           \/ op.mode = "merge" /\ op' = [op EXCEPT !.pc = "delete", !.files = removed]
           \/ op.mode # "merge" /\ op' = [op EXCEPT !.pc = "delete", !.todo = doomed]
        /\ UNCHANGED <<refs, head, disk, mtime>>
    BY DEF ResetIndex, SetIndex
  <1>3. /\ op.files \in SUBSET Path /\ index \in Tree /\ op.to \in Tree /\ op.from \in Tree
        /\ op.start = index /\ op.todo = {} /\ op.written = {} /\ HeadTree = op.to
    BY <1>1, <1>2 DEF CallInv, CallBegun, CallFollows, Resetting, TypeOK, CallType
  <1>4. /\ removed \subseteq op.files /\ doomed \subseteq op.files
        /\ \A p \in Path : entries[p] = IF p \in removed THEN op.to[p] ELSE index[p]
        /\ \A p \in removed : index[p] # op.to[p]
        /\ \A p \in op.files \ removed : index[p] = op.to[p]
        /\ \A p \in op.files : p \in doomed <=> op.from[p] # None /\ op.to[p] = None
    BY <1>3
  <1>5. entries \in Tree
    BY <1>3 DEF Tree
  <1> HIDE DEF removed, doomed, entries
  <1>6. TypeOK'
    <2>1. op' \in CallType
      <3>1. [op EXCEPT !.pc = "delete", !.files = removed] \in CallType
        BY <1>1, <1>3, <1>4 DEF CallType, Phases
      <3>2. [op EXCEPT !.pc = "delete", !.todo = doomed] \in CallType
        BY <1>1, <1>3, <1>4 DEF CallType, Phases
      <3> QED BY <1>2, <3>1, <3>2, IdleType
    <2>2. FileTypes'
      BY <1>1, <1>2, <1>3, <1>4, <1>5, SetIndexTypes, TypeParts
    <2> QED BY <1>1, <1>2, <2>1, <2>2 DEF TypeOK, CallType, FileTypes
  <1>7. index' = entries
    BY <1>2 DEF SetIndex
  <1>8. /\ suspect' \subseteq suspect
        /\ \A p \in Path : \/ etime'[p] = Blank
                          \/ /\ etime'[p] = etime[p] /\ index'[p] = index[p]
                             /\ p \in suspect' <=> p \in suspect
    <2>1. suspect' = suspect \ removed
      BY <1>2 DEF SetIndex, Doubtful
    <2>2. \A p \in Path : etime'[p] = IF p \in removed THEN Blank ELSE etime[p]
      BY <1>2 DEF SetIndex
    <2> QED BY <1>4, <1>7, <2>1, <2>2
  <1>9. CASE op' = Idle
    BY <1>2, <1>6, <1>8, <1>9, NoCallNext DEF CallInv
  <1>10. CASE op.mode = "merge" /\ op' = [op EXCEPT !.pc = "delete", !.files = removed]
    <2>1. /\ op'.pc = "delete" /\ op'.mode = "merge" /\ op'.files = removed
          /\ op'.from = op.from /\ op'.to = op.to /\ op'.start = index
          /\ op'.doubt = op.doubt /\ op'.todo = {} /\ op'.written = {}
      BY <1>1, <1>3, <1>10 DEF CallType
    <2>2. CallBegun' /\ CallLists'
      BY <2>1 DEF CallBegun, CallLists, Checking
    <2>3. CallFollows'
      BY <1>2, <1>3, <1>4, <1>7, <2>1 DEF CallFollows, Resetting, Checking, HeadTree
    <2> QED BY <1>2, <1>3, <1>6, <1>8, <1>10, <2>1, <2>2, <2>3 DEF CallInv
  <1>11. CASE op.mode # "merge" /\ op' = [op EXCEPT !.pc = "delete", !.todo = doomed]
    <2>1. /\ op'.pc = "delete" /\ op'.mode = op.mode /\ op'.files = op.files
          /\ op'.from = op.from /\ op'.to = op.to /\ op'.start = index
          /\ op'.doubt = op.doubt /\ op'.todo = doomed /\ op'.written = {}
      BY <1>1, <1>3, <1>11 DEF CallType
    <2>2. CallBegun' /\ CallLists'
      BY <1>4, <1>11, <2>1 DEF CallBegun, CallLists, Checking
    <2>3. CallFollows'
      BY <1>2, <1>3, <1>4, <1>7, <1>11, <2>1 DEF CallFollows, Resetting, Checking, HeadTree
    <2> QED BY <1>2, <1>3, <1>6, <1>8, <1>11, <2>1, <2>2, <2>3 DEF CallInv
  <1> QED BY <1>2, <1>9, <1>10, <1>11

\* What a step that does not leave its phase keeps of a call.
SameCall ==
    /\ op'.pc = op.pc /\ op'.mode = op.mode /\ op'.from = op.from /\ op'.to = op.to
    /\ op'.start = op.start /\ op'.files = op.files /\ op'.at = op.at
    /\ op'.doubt = op.doubt

\* Deleting a file only the old tree has.
LEMMA DeleteFileInv ==
    ASSUME CallInv, NEW p \in Path, DeleteFile(p)
    PROVE  /\ CallInv' /\ SameCall /\ op.pc = "delete" /\ UNCHANGED index
           /\ op'.todo \subseteq op.todo /\ p \in op.todo
           /\ suspect' = suspect \ {p} /\ disk' = [disk EXCEPT ![p] = None]
           /\ UNCHANGED etime /\ \A q \in Path \ {p} : mtime'[q] = mtime[q]
  <1>1. TypeOK /\ op \in CallType
    BY DEF CallInv, TypeOK, CallType
  <1>2. /\ op.pc = "delete" /\ p \in op.todo /\ WriteFile(p, None)
        /\ op' = [op EXCEPT !.todo = op.todo \ {p}]
        /\ UNCHANGED <<refs, head, index>>
    BY DEF DeleteFile
  <1>3. SameCall /\ op' \in CallType /\ op'.todo = op.todo \ {p} /\ op'.written = op.written
    BY <1>1, <1>2 DEF CallType, SameCall
  <1>4. TypeOK'
    <2>1. FileTypes'
      BY <1>1, <1>2, WriteFileTypes, TypeParts
    <2> QED BY <1>1, <1>2, <1>3, <2>1 DEF TypeOK, CallType, FileTypes
  <1>5. /\ disk' = [disk EXCEPT ![p] = None] /\ suspect' = suspect \ {p}
        /\ UNCHANGED etime /\ \A q \in Path \ {p} : mtime'[q] = mtime[q]
    BY <1>1, <1>2 DEF WriteFile, TypeOK
  <1>6. CallBegun' /\ CallFollows'
    BY <1>2, <1>3 DEF CallInv, CallBegun, CallFollows, Resetting, Checking, HeadTree, SameCall
  <1>7. CallLists'
    BY <1>1, <1>2, <1>3, <1>5 DEF CallInv, CallLists, Checking, SameCall, TypeOK, Tree, CallType
  <1> QED BY <1>2, <1>3, <1>4, <1>5, <1>6, <1>7 DEF CallInv

\* Comparing the files with the new index.
LEMMA DiffWorktreeInv ==
    ASSUME CallInv, DiffWorktree
    PROVE  /\ CallInv' /\ op.pc = "delete" /\ op'.pc = "write" /\ op'.todo = StaleFiles
           /\ op'.mode = op.mode /\ op'.from = op.from /\ op'.to = op.to
           /\ op'.start = op.start /\ op'.files = op.files /\ op'.doubt = op.doubt
           /\ UNCHANGED <<index, disk, times, suspect>>
  <1>1. TypeOK /\ op \in CallType
    BY DEF CallInv, TypeOK, CallType
  <1>2. /\ op.pc = "delete" /\ op.todo = {} /\ op.written = {}
        /\ op' = [op EXCEPT !.pc = "write", !.todo = StaleFiles]
        /\ UNCHANGED <<refs, head, index, disk, times, suspect>>
    BY DEF DiffWorktree, CallInv, CallLists
  <1>3. StaleFiles \subseteq op.files
    BY DEF StaleFiles
  <1>4. /\ op' \in CallType /\ op'.pc = "write" /\ op'.todo = StaleFiles /\ op'.written = {}
        /\ op'.mode = op.mode /\ op'.from = op.from /\ op'.to = op.to
        /\ op'.start = op.start /\ op'.files = op.files /\ op'.doubt = op.doubt
    BY <1>1, <1>2, <1>3 DEF CallType, Phases
  <1>5. TypeOK'
    BY <1>1, <1>2, <1>4 DEF TypeOK, CallType, times
  <1>6. CallBegun' /\ CallFollows'
    BY <1>2, <1>4 DEF CallInv, CallBegun, CallFollows, Resetting, Checking, HeadTree
  <1>7. ASSUME NEW p \in StaleFiles
        PROVE  op.to[p] # None \/ (op.mode = "merge" /\ op.start[p] # None)
    <2>1. p \in op.files /\ index[p] = op.to[p]
      BY <1>2 DEF StaleFiles, CallInv, CallFollows, Checking
    <2>2. CASE p \in Unstaged
      BY <2>1, <2>2 DEF Unstaged, WorktreeCode
    <2>3. CASE op.mode = "merge" /\ index[p] = None
      BY <1>2, <2>1, <2>3 DEF CallInv, CallFollows, Checking
    <2> QED BY <2>2, <2>3 DEF StaleFiles
  <1>8. CallLists'
    BY <1>2, <1>3, <1>4, <1>7 DEF CallInv, CallLists, Checking
  <1> QED BY <1>2, <1>4, <1>5, <1>6, <1>8 DEF CallInv

\* Removing a file that is to change, or writing its new content.
LEMMA CheckoutChangeInv ==
    ASSUME CallInv, NEW p \in Path, CheckoutChange(p)
    PROVE  /\ CallInv' /\ SameCall /\ op.pc = "write" /\ UNCHANGED index
           /\ p \in op.todo /\ op'.todo \subseteq op.todo /\ op.todo \ {p} \subseteq op'.todo
           /\ \A q \in Path \ {p} : disk'[q] = disk[q] /\ mtime'[q] = mtime[q]
           /\ UNCHANGED etime /\ suspect' = suspect \ {p}
           /\ \/ /\ disk[p] # None /\ disk'[p] = None
                 /\ index[p] # None => op'.todo = op.todo
              \/ disk[p] = None /\ disk'[p] = op.to[p]
  <1>1. TypeOK /\ op \in CallType
    BY DEF CallInv, TypeOK, CallType
  <1>2. /\ op.pc = "write" /\ p \in op.todo /\ UNCHANGED <<refs, head, index>>
        /\ index[p] = op.to[p] /\ op.to[p] \in Content \union {None}
    BY <1>1 DEF CheckoutChange, CallInv, CallLists, CallFollows, Checking, CallType, Tree
  <1>3. CASE disk[p] # None
    <2>1. /\ WriteFile(p, None)
          /\ op' = IF index[p] = None THEN [op EXCEPT !.todo = op.todo \ {p}] ELSE op
      BY <1>3 DEF CheckoutChange
    <2>2. /\ SameCall /\ op' \in CallType /\ op'.written = op.written
          /\ op'.todo = IF index[p] = None THEN op.todo \ {p} ELSE op.todo
      BY <1>1, <2>1 DEF CallType, SameCall
    <2>3. TypeOK'
      <3>1. FileTypes'
        BY <1>1, <1>2, <2>1, WriteFileTypes, TypeParts
      <3> QED BY <1>1, <1>2, <2>2, <3>1 DEF TypeOK, CallType, FileTypes
    <2>4. /\ disk' = [disk EXCEPT ![p] = None] /\ suspect' = suspect \ {p}
          /\ UNCHANGED etime /\ \A q \in Path \ {p} : mtime'[q] = mtime[q]
      BY <1>1, <2>1 DEF WriteFile, TypeOK
    <2>5. CallBegun' /\ CallFollows'
      BY <1>2, <2>2 DEF CallInv, CallBegun, CallFollows, Resetting, Checking, HeadTree, SameCall
    <2>6. CallLists'
      BY <1>1, <1>2, <2>2, <2>4 DEF CallInv, CallLists, Checking, SameCall, TypeOK, Tree, CallType
    <2> QED BY <1>1, <1>2, <1>3, <2>2, <2>3, <2>4, <2>5, <2>6 DEF CallInv, TypeOK, Tree
  <1>4. CASE disk[p] = None
    <2>1. /\ WriteFile(p, op.to[p])
          /\ op' = [op EXCEPT !.todo = op.todo \ {p}, !.written = op.written \union {p}]
      BY <1>4 DEF CheckoutChange
    <2>2. /\ SameCall /\ op' \in CallType /\ op'.written = op.written \union {p}
          /\ op'.todo = op.todo \ {p}
      BY <1>1, <2>1 DEF CallType, SameCall
    <2>3. TypeOK'
      <3>1. FileTypes'
        BY <1>1, <1>2, <2>1, WriteFileTypes, TypeParts
      <3> QED BY <1>1, <1>2, <2>2, <3>1 DEF TypeOK, CallType, FileTypes
    <2>4. /\ disk' = [disk EXCEPT ![p] = op.to[p]] /\ suspect' = suspect \ {p}
          /\ UNCHANGED etime /\ \A q \in Path \ {p} : mtime'[q] = mtime[q]
      BY <1>1, <1>2, <2>1 DEF WriteFile, TypeOK
    <2>5. CallBegun' /\ CallFollows'
      BY <1>2, <2>2 DEF CallInv, CallBegun, CallFollows, Resetting, Checking, HeadTree, SameCall
    <2>6. CallLists'
      BY <1>1, <1>2, <2>2, <2>4 DEF CallInv, CallLists, Checking, SameCall, TypeOK, Tree, CallType
    <2> QED BY <1>1, <1>2, <1>4, <2>2, <2>3, <2>4, <2>5, <2>6 DEF CallInv, TypeOK, Tree
  <1> QED BY <1>3, <1>4

\* The last write of the index.
LEMMA SaveIndexInv ==
    ASSUME CallInv, SaveIndex
    PROVE  /\ CallInv' /\ op' = Idle /\ UNCHANGED <<refs, head, index, disk, mtime>>
           /\ op.pc = "write" /\ op.todo = {}
           /\ \A p \in Path \ op.written :
                 etime'[p] = etime[p] /\ (p \in suspect' <=> p \in suspect)
  <1>1. TypeOK /\ op \in CallType
    BY DEF CallInv, TypeOK, CallType
  <1>2. /\ op.pc = "write" /\ op.todo = {} /\ op' = Idle
        /\ SetIndex(index, op.written, {})
        /\ UNCHANGED <<refs, head, disk, mtime>>
    BY DEF SaveIndex, SetIndex
  <1>3. op.written \in SUBSET Path /\ index \in Tree
    BY <1>1 DEF CallType, TypeOK
  <1>4. FileTypes'
    BY <1>1, <1>2, <1>3, SetIndexTypes, TypeParts
  <1>5. TypeOK'
    BY <1>1, <1>2, <1>4, IdleType DEF TypeOK, CallType, FileTypes
  <1>6. /\ UNCHANGED index
        /\ \A p \in Path \ op.written :
              etime'[p] = etime[p] /\ (p \in suspect' <=> p \in suspect)
    BY <1>2 DEF SetIndex, Doubtful
  <1> QED BY <1>2, <1>5, <1>6, NoCallNext DEF CallInv

\* The steps of the model, grouped as in the lemmas above.
LEMMA NextSplit ==
    Next <=> \/ UserStep \/ Tick
             \/ BeginStep \/ EntryStep
             \/ CallStep
             \/ CheckoutCreated \/ ResetRefuses \/ ResetProceeds \/ Stop
             \/ ResetIndex \/ DiffWorktree \/ SaveIndex
             \/ \E p \in Path : DeleteFile(p) \/ CheckoutChange(p)
  BY Zenon DEF Next, UserStep, BeginStep, EntryStep, CallStep, ResetStep

\* What every call relies on holds in every behaviour.
LEMMA CallInvariant == Spec => []CallInv
  <1>1. Init => CallInv
    <2> SUFFICES ASSUME Init PROVE CallInv
      OBVIOUS
    <2>1. PICK t \in History, b \in Branch :
             /\ refs = [r \in Branch \union {Detached} |-> IF r = b THEN t ELSE None]
             /\ head = b /\ index = t /\ disk = t
      BY DEF Init
    <2>2. t \in Tree /\ t # None
      BY WorktreeAssumption
    <2>3. TypeOK
      BY <2>1, <2>2, IdleType DEF Init, TypeOK, CallType, times
    <2>4. CallBegun /\ CallFollows /\ CallLists
      BY IdleType DEF Init, CallBegun, CallFollows, CallLists, Resetting, Checking
    <2> QED BY <2>3, <2>4 DEF CallInv
  <1>2. CallInv /\ [Next]_vars => CallInv'
    <2>1. CallInv /\ UserStep => CallInv'
      BY UserTypes, NoCallNext DEF CallInv
    <2>2. CallInv /\ CallStep => CallInv'
      BY CallBegins DEF CallInv
    <2>3. CallInv /\ BeginStep => CallInv'
      BY BeginInv DEF CallInv
    <2>4. CallInv /\ EntryStep => CallInv'
      BY EntryTypes, NoCallNext DEF CallInv
    <2>5. CallInv /\ UNCHANGED vars => CallInv'
      BY DEF vars, times, CallInv, TypeOK, CallBegun, CallFollows, CallLists, Resetting,
         Checking, HeadTree
    <2> QED BY <2>1, <2>2, <2>3, <2>4, <2>5, TickInv, NextSplit, HeadStepInv, ResetIndexInv, DiffWorktreeInv,
           SaveIndexInv, DeleteFileInv, CheckoutChangeInv
  <1> QED BY <1>1, <1>2, PTL DEF Spec

\* The state of the working copy keeps its shape.
THEOREM WorktreeTypes == Spec => []TypeOK
  <1>1. CallInv => TypeOK
    BY DEF CallInv
  <1> QED BY CallInvariant, <1>1, PTL
-----------------------------------------------------------------------------
(* What files hold.                                                         *)

\* Writing a file makes it suspect if it gets another content and the time its
\* entry records.
LEMMA WriteFileStat ==
    ASSUME FileTypes, StatIsTrue, NEW p \in Path, NEW c \in Content \union {None},
           WriteFile(p, c), UNCHANGED index
    PROVE  StatIsTrue'
  <1>1. \A q \in Path \ {p} : /\ disk'[q] = disk[q] /\ mtime'[q] = mtime[q]
                              /\ etime'[q] = etime[q] /\ (q \in suspect' <=> q \in suspect)
    BY DEF WriteFile, FileTypes, Tree
  <1>2. /\ disk'[p] = c /\ UNCHANGED etime
        /\ c # None => mtime'[p] = now
        /\ etime[p] = now /\ c # None /\ c # index[p] => p \in suspect'
    BY DEF WriteFile, FileTypes, Tree
  <1> QED BY <1>1, <1>2 DEF StatIsTrue

\* Writing the index makes the files suspect that its new times are about and
\* its hashes are not.
LEMMA SetIndexStat ==
    ASSUME FileTypes, StatIsTrue, NEW entries \in Tree, NEW stamped \in SUBSET Path,
           NEW blank \in SUBSET Path, SetIndex(entries, stamped, blank),
           \A p \in Path \ (stamped \union blank) : entries[p] = index[p]
    PROVE  StatIsTrue'
  <1> SUFFICES ASSUME NEW p \in Path, p \notin suspect', entries[p] # None, disk[p] # None,
                      mtime[p] = etime'[p]
               PROVE  disk[p] = entries[p]
    BY DEF StatIsTrue, SetIndex
  <1>1. CASE p \in stamped
    BY <1>1 DEF SetIndex, Doubtful
  <1>2. CASE p \in blank \ stamped
    <2>1. etime'[p] = Blank
      BY <1>2 DEF SetIndex
    <2> QED BY <2>1 DEF FileTypes, Blank
  <1>3. CASE p \notin stamped \union blank
    <2>1. etime'[p] = etime[p] /\ p \notin suspect /\ entries[p] = index[p]
      BY <1>3 DEF SetIndex
    <2> QED BY <2>1 DEF StatIsTrue
  <1> QED BY <1>1, <1>2, <1>3

\* So does staging, which leaves no file suspect.
LEMMA AddFilesStat ==
    ASSUME FileTypes, StatIsTrue, NEW paths \in SUBSET Path, AddFiles(paths)
    PROVE  StatIsTrue'
  <1> DEFINE entries == [p \in Path |-> IF p \in paths THEN disk[p] ELSE index[p]]
  <1>1. entries \in Tree /\ \A p \in Path \ paths : entries[p] = index[p]
    BY DEF FileTypes, Tree
  <1>2. SetIndex(entries, paths \intersect Files, paths \ Files)
    BY DEF AddFiles
  <1> HIDE DEF entries
  <1> QED BY <1>1, <1>2, SetIndexStat

\* Edits, staging, removals, moves and commits leave every file that has the
\* recorded time with the content its entry names, or make it suspect.
LEMMA UserStat ==
    ASSUME TypeOK, StatIsTrue, UserStep \/ BeginStep \/ EntryStep
    PROVE  StatIsTrue'
  <1>1. FileTypes /\ op \in CallType
    BY TypeParts
  <1>2. ASSUME NEW p \in Path, NEW c \in Content \union {None}, Edit(p, c)
        PROVE  StatIsTrue'
    BY <1>1, <1>2, WriteFileStat DEF Edit
  <1>3. ASSUME NEW p \in Path, NEW skipStatus \in BOOLEAN, Add(p, skipStatus)
        PROVE  StatIsTrue'
    BY <1>1, <1>3, AddFilesStat DEF Add
  <1>4. CASE AddAll
    BY <1>1, <1>4, AddFilesStat DEF AddAll
  <1>5. CASE Clean
    <2> DEFINE untracked == {p \in Path : WorktreeCode(p) = "untracked"}
    <2>1. /\ disk' = [p \in Path |-> IF p \in untracked THEN None ELSE disk[p]]
          /\ mtime' = [p \in Path |-> IF p \in untracked THEN 0 ELSE mtime[p]]
          /\ suspect' = suspect \ untracked /\ UNCHANGED <<index, etime>>
      BY <1>5 DEF Clean
    <2> QED BY <2>1 DEF StatIsTrue
  <1>6. CASE Commit
    BY <1>6 DEF Commit, times, StatIsTrue
  <1>7. ASSUME NEW p \in Path, Remove(p) PROVE StatIsTrue'
    BY <1>1, <1>7, WriteFileStat DEF Remove
  <1>8. ASSUME NEW p \in Path, NEW q \in Path, Move(p, q) PROVE StatIsTrue'
    <2>1. p # q /\ UNCHANGED <<index, etime>>
      BY <1>8 DEF Move
    <2>2. \A r \in Path \ {p, q} : /\ disk'[r] = disk[r] /\ mtime'[r] = mtime[r]
                                   /\ (r \in suspect' <=> r \in suspect)
      BY <1>1, <1>8 DEF Move, FileTypes, Tree
    <2>3. /\ disk'[p] = None /\ disk'[q] = disk[p] /\ mtime'[q] = mtime[p]
          /\ etime[q] = mtime[p] /\ index[q] # disk[p] => q \in suspect'
      BY <1>1, <1>8, <2>1 DEF Move, FileTypes, Tree
    <2> QED BY <2>1, <2>2, <2>3 DEF StatIsTrue
  <1>9. CASE CommitAll
    BY <1>1, <1>9, AddFilesStat DEF CommitAll, Unstaged
  <1>10. CASE RemoveEntry
    <2> DEFINE entries == [p \in Path |-> IF p \in op.files THEN None ELSE index[p]]
    <2>1. /\ entries \in Tree /\ op.files \in SUBSET Path
          /\ \A p \in Path \ op.files : entries[p] = index[p]
      BY <1>1 DEF FileTypes, Tree, CallType
    <2>2. SetIndex(entries, {}, op.files)
      BY <1>10 DEF RemoveEntry
    <2> HIDE DEF entries
    <2> QED BY <1>1, <2>1, <2>2, SetIndexStat
  <1>11. CASE MoveEntry
    <2>1. PICK p \in op.files, q \in op.todo :
             SetIndex([index EXCEPT ![p] = None, ![q] = index[p]], {q}, {p})
      BY <1>11 DEF MoveEntry
    <2> DEFINE entries == [index EXCEPT ![p] = None, ![q] = index[p]]
    <2>2. p \in Path /\ q \in Path
      BY <1>1 DEF CallType
    <2>3. entries \in Tree /\ \A r \in Path \ {p, q} : entries[r] = index[r]
      BY <1>1, <2>2 DEF FileTypes, Tree
    <2>4. SetIndex(entries, {q}, {p})
      BY <2>1
    <2> HIDE DEF entries
    <2> QED BY <1>1, <2>2, <2>3, <2>4, SetIndexStat
  <1>12. CASE CommitIndex
    BY <1>12 DEF CommitIndex, times, StatIsTrue
  <1> QED BY <1>2, <1>3, <1>4, <1>5, <1>6, <1>7, <1>8, <1>9, <1>10, <1>11, <1>12
         DEF UserStep, BeginStep, EntryStep

\* A tracked file Status does not list has the content of its entry.
LEMMA UnlistedIsClean ==
    ASSUME TypeOK, StatIsTrue, NEW p \in Path \ suspect, index[p] # None, p \notin Unstaged
    PROVE  disk[p] = index[p]
  BY DEF StatIsTrue, Unstaged, WorktreeCode, CalculateHash, MetadataMatches

\* A merge or keep reset that is not refused finds the files it may remove as
\* the index, or HEAD, has them.
LEMMA NotRefused ==
    ASSUME TypeOK, StatIsTrue, NEW mode, NEW from, NEW to, ~Refused(mode, from, to),
           NEW p \in Path \ suspect, index[p] # None
    PROVE  /\ mode = "merge" => disk[p] = index[p]
           /\ mode = "keep" /\ from = HeadTree /\ from[p] # to[p] => disk[p] = from[p]
  <1>1. mode = "merge" => disk[p] = index[p]
    BY UnlistedIsClean DEF Refused
  <1>2. ASSUME mode = "keep", from = HeadTree, from[p] # to[p] PROVE disk[p] = from[p]
    <2>1. WorktreeCode(p) # "untracked"
      BY DEF WorktreeCode
    <2>2. ~Staged(p) /\ p \notin Unstaged
      BY <1>2, <2>1 DEF Refused, CheckKeepResetConflicts
    <2> QED BY <1>2, <2>2, UnlistedIsClean DEF Staged
  <1> QED BY <1>1, <1>2

\* A call that begins, moves HEAD, refuses or gives up keeps what files hold.
LEMMA HeadStepFiles ==
    ASSUME CallInv, FilesInv,
           CallStep \/ CheckoutCreated \/ ResetRefuses \/ ResetProceeds \/ Stop
    PROVE  FilesInv'
  <1>1. TypeOK /\ StatIsTrue
    BY DEF CallInv, FilesInv
  <1>2. /\ CallInv' /\ UNCHANGED <<index, disk, times, suspect>>
        /\ \/ op' = Idle
           \/ op'.pc \in {"head", "reset"}
           \/ /\ op'.pc = "index" /\ op'.start = index /\ op'.doubt = suspect
              /\ op'.mode \in {"merge", "hard", "soft"} \/ op'.from = HeadTree
              /\ ~Refused(op'.mode, op'.from, op'.to)
    BY <1>1, CallBegins, HeadStepInv
  <1>3. StatIsTrue'
    BY <1>1, <1>2 DEF StatIsTrue, times
  <1>4. CASE op' = Idle
    BY <1>3, <1>4, NoCallNext DEF FilesInv
  <1>5. CASE op'.pc \in {"head", "reset"}
    <2>1. op'.mode # "keep"
      BY <1>2, <1>5 DEF CallInv, CallBegun
    <2> QED BY <1>3, <1>5, <2>1 DEF FilesInv, WritesAccounted, Untouched
  <1>6. CASE /\ op'.pc = "index" /\ op'.start = index /\ op'.doubt = suspect
             /\ op'.mode \in {"merge", "hard", "soft"} \/ op'.from = HeadTree
             /\ ~Refused(op'.mode, op'.from, op'.to)
    <2>1. ASSUME NEW p \in Path \ suspect, index[p] # None
          PROVE  /\ op'.mode = "merge" => disk[p] = index[p]
                 /\ op'.mode = "keep" /\ op'.from[p] # op'.to[p] => disk[p] = op'.from[p]
      <3> DEFINE mode == op'.mode
                 from == op'.from
                 to == op'.to
      <3>1. ~Refused(mode, from, to) /\ (mode = "keep" => from = HeadTree)
        BY <1>6
      <3> HIDE DEF mode, from, to
      <3>2. /\ mode = "merge" => disk[p] = index[p]
            /\ mode = "keep" /\ from[p] # to[p] => disk[p] = from[p]
        BY <1>1, <2>1, <3>1, NotRefused
      <3> QED BY <3>2 DEF mode, from, to
    <2> QED BY <1>2, <1>3, <1>6, <2>1 DEF FilesInv, WritesAccounted, Untouched
  <1> QED BY <1>2, <1>4, <1>5, <1>6

\* Writing the index blanks the entries it replaces.
LEMMA ResetIndexFiles ==
    ASSUME CallInv, FilesInv, ResetIndex PROVE FilesInv'
  <1>1. /\ CallInv' /\ UNCHANGED disk /\ op.pc = "index"
        /\ UNCHANGED mtime
        /\ \A p \in Path : \/ etime'[p] = Blank
                          \/ /\ etime'[p] = etime[p] /\ index'[p] = index[p]
                             /\ p \in suspect' <=> p \in suspect
        /\ \/ op' = Idle
           \/ /\ op'.pc = "delete" /\ op'.mode = op.mode /\ op'.doubt = op.doubt
              /\ op'.from = op.from /\ op'.to = op.to /\ op'.start = op.start
    BY ResetIndexInv
  <1>2. StatIsTrue'
    <2>1. \A p \in Path : mtime[p] # Blank
      BY DEF CallInv, TypeOK, Blank
    <2> QED BY <1>1, <2>1 DEF FilesInv, StatIsTrue
  <1>3. CASE op' = Idle
    BY <1>2, <1>3, NoCallNext DEF FilesInv
  <1>4. CASE op' # Idle
    BY <1>1, <1>2, <1>4 DEF FilesInv, WritesAccounted, Untouched
  <1> QED BY <1>3, <1>4

\* Deleting a file that is as the call found it.
LEMMA DeleteFileFiles ==
    ASSUME CallInv, FilesInv, NEW p \in Path, DeleteFile(p) PROVE FilesInv'
  <1>1. /\ SameCall /\ op.pc = "delete" /\ UNCHANGED index /\ p \in op.todo
        /\ suspect' = suspect \ {p} /\ disk' = [disk EXCEPT ![p] = None]
        /\ UNCHANGED etime /\ \A q \in Path \ {p} : mtime'[q] = mtime[q]
        /\ TypeOK /\ op.mode # "merge"
    BY DeleteFileInv DEF CallInv, CallLists
  <1>2. \A q \in Path : disk'[q] = IF q = p THEN None ELSE disk[q]
    BY <1>1 DEF TypeOK, Tree
  <1>3. StatIsTrue'
    BY <1>1, <1>2 DEF FilesInv, StatIsTrue
  <1>4. WritesAccounted' /\ Untouched'
    BY <1>1, <1>2 DEF FilesInv, WritesAccounted, Untouched, SameCall
  <1> QED BY <1>3, <1>4 DEF FilesInv

\* The comparison lists every file that does not have its new content.
LEMMA DiffWorktreeFiles ==
    ASSUME CallInv, FilesInv, DiffWorktree PROVE FilesInv'
  <1>1. /\ op.pc = "delete" /\ op'.pc = "write" /\ op'.todo = StaleFiles
        /\ op'.mode = op.mode /\ op'.from = op.from /\ op'.to = op.to
        /\ op'.start = op.start /\ op'.files = op.files /\ op'.doubt = op.doubt
        /\ UNCHANGED <<index, disk, times, suspect>>
    BY DiffWorktreeInv
  <1>2. StatIsTrue'
    BY <1>1 DEF FilesInv, StatIsTrue, times
  <1>3. ASSUME NEW p \in op.files \ suspect, op.to[p] # None, p \notin StaleFiles
        PROVE  disk[p] = op.to[p]
    <2>1. p \in Path /\ index[p] = op.to[p] /\ p \notin Unstaged
      BY <1>1, <1>3 DEF CallInv, CallFollows, Checking, TypeOK, StaleFiles
    <2> QED BY <1>3, <2>1, UnlistedIsClean DEF CallInv, FilesInv
  <1>4. WritesAccounted'
    BY <1>1, <1>3 DEF WritesAccounted
  <1>5. Untouched'
    BY <1>1 DEF FilesInv, Untouched
  <1> QED BY <1>2, <1>4, <1>5 DEF FilesInv

\* A file is written with the content of its entry.
LEMMA CheckoutChangeFiles ==
    ASSUME CallInv, FilesInv, NEW p \in Path, CheckoutChange(p) PROVE FilesInv'
  <1>1. /\ SameCall /\ op.pc = "write" /\ UNCHANGED index
        /\ p \in op.todo /\ op'.todo \subseteq op.todo /\ op.todo \ {p} \subseteq op'.todo
        /\ \A q \in Path \ {p} : disk'[q] = disk[q] /\ mtime'[q] = mtime[q]
        /\ UNCHANGED etime /\ suspect' = suspect \ {p}
        /\ \/ /\ disk[p] # None /\ disk'[p] = None
              /\ index[p] # None => op'.todo = op.todo
           \/ disk[p] = None /\ disk'[p] = op.to[p]
    BY CheckoutChangeInv
  <1>2. /\ TypeOK /\ op.todo \subseteq op.files /\ op.files \subseteq Path
        /\ \A q \in op.files : index[q] = op.to[q]
        /\ p \in op'.todo => disk'[p] = None \/ disk'[p] = op.to[p]
    BY <1>1 DEF CallInv, CallLists, CallFollows, Checking, TypeOK
  <1>3. StatIsTrue'
    <2> SUFFICES ASSUME NEW q \in Path \ suspect', index[q] # None, disk'[q] # None,
                        mtime'[q] = etime[q]
                 PROVE  disk'[q] = index[q]
      BY <1>1 DEF StatIsTrue
    <2>1. CASE q = p
      BY <1>1, <1>2, <2>1
    <2>2. CASE q # p
      BY <1>1, <1>2, <2>2 DEF FilesInv, StatIsTrue
    <2> QED BY <2>1, <2>2
  <1>4. WritesAccounted'
    <2> SUFFICES ASSUME NEW q \in op.files \ suspect', op.to[q] # None
                 PROVE  q \in op'.todo \/ disk'[q] = op.to[q]
      BY <1>1 DEF WritesAccounted, SameCall
    <2>1. CASE q = p
      BY <1>1, <1>2, <2>1
    <2>2. CASE q # p
      BY <1>1, <1>2, <2>2 DEF FilesInv, WritesAccounted
    <2> QED BY <2>1, <2>2
  <1>5. Untouched'
    <2>1. p \in op'.todo => disk'[p] = None
      <3>1. CASE disk[p] # None
        BY <1>1, <3>1
      <3>2. CASE disk[p] = None
        <4>1. op'.todo = op.todo \ {p}
          BY <1>1, <3>2 DEF CheckoutChange, CallInv, TypeOK
        <4> QED BY <4>1
      <3> QED BY <3>1, <3>2
    <2> QED BY <1>1, <2>1 DEF FilesInv, Untouched, SameCall
  <1> QED BY <1>3, <1>4, <1>5 DEF FilesInv

\* The entries stamped at the end are those of the files just written.
LEMMA SaveIndexFiles ==
    ASSUME CallInv, FilesInv, SaveIndex PROVE FilesInv'
  <1>1. /\ op' = Idle /\ UNCHANGED <<index, disk, mtime>> /\ op.pc = "write"
        /\ \A p \in Path \ op.written :
              etime'[p] = etime[p] /\ (p \in suspect' <=> p \in suspect)
    BY SaveIndexInv
  <1>2. \A p \in op.written : disk[p] = index[p]
    BY <1>1 DEF CallInv, CallLists, CallFollows, Checking
  <1>3. StatIsTrue'
    BY <1>1, <1>2 DEF FilesInv, StatIsTrue
  <1> QED BY <1>1, <1>3, NoCallNext DEF FilesInv

\* What files hold, in every behaviour.
LEMMA FilesInvariant == Spec => []FilesInv
  <1>1. Init => FilesInv
    BY IdleType DEF Init, FilesInv, StatIsTrue, WritesAccounted, Untouched
  <1>2. CallInv /\ FilesInv /\ [Next]_vars => FilesInv'
    <2>1. CallInv /\ FilesInv /\ (UserStep \/ EntryStep) => FilesInv'
      BY UserTypes, EntryTypes, UserStat, NoCallNext DEF CallInv, FilesInv
    <2>2. CallInv /\ FilesInv /\ BeginStep => FilesInv'
      <3> SUFFICES ASSUME CallInv, FilesInv, BeginStep PROVE FilesInv'
        OBVIOUS
      <3>1. op'.pc \in {"remove", "move", "commit"} /\ op'.mode = "none"
        BY BeginInv DEF CallInv
      <3>2. StatIsTrue'
        BY UserStat DEF CallInv, FilesInv
      <3> QED BY <3>1, <3>2 DEF FilesInv, WritesAccounted, Untouched
    <2>3. CallInv /\ FilesInv /\ Tick => FilesInv'
      BY TickInv DEF FilesInv, StatIsTrue, WritesAccounted, Untouched
    <2>4. FilesInv /\ UNCHANGED vars => FilesInv'
      BY DEF vars, times, FilesInv, StatIsTrue, WritesAccounted, Untouched
    <2> QED BY <2>1, <2>2, <2>3, <2>4, NextSplit, HeadStepFiles, ResetIndexFiles, DeleteFileFiles,
           DiffWorktreeFiles, CheckoutChangeFiles, SaveIndexFiles
  <1> QED BY <1>1, <1>2, CallInvariant, PTL DEF Spec
-----------------------------------------------------------------------------
(***************************************************************************)
(* Status never takes an edited file for unmodified, whatever sequence of  *)
(* edits, staging, moves, resets and stopped calls came before, unless the *)
(* file got its content and the time its entry records in one event (an    *)
(* edit within the time unit of the entry, a Move of unstaged edits, a     *)
(* Move stopped before its second write) and neither was written since.    *)
(* The exception is real, as MCHiddenEdit.cfg shows.                       *)
(***************************************************************************)
THEOREM NoEditIsHidden == Spec => []EditsAreSeen
  <1>1. FilesInv => EditsAreSeen
    BY DEF FilesInv, StatIsTrue, EditsAreSeen, MetadataMatches
  <1> QED BY FilesInvariant, <1>1, PTL

(***************************************************************************)
(* A hard reset or forced checkout that returns leaves HEAD, the index and *)
(* every file of either tree at the tree it was given, whatever came       *)
(* before: resetIndex, resetWorktreeToTree and the metadata shortcut miss  *)
(* no file that is not suspect.                                            *)
(***************************************************************************)
THEOREM HardResetIsComplete == Spec => HardResetRestores
  <1> DEFINE Restores ==
        SaveIndex /\ op.mode = "hard" =>
            /\ HeadTree' = op.to
            /\ \A p \in op.files :
                /\ index'[p] = op.to[p]
                /\ op.to[p] # None /\ p \notin suspect => disk'[p] = op.to[p]
                /\ op.to[p] = None /\ op.from[p] # None => disk'[p] = None
  <1>1. CallInv /\ FilesInv /\ [Next]_vars => [Restores]_vars
    <2> SUFFICES ASSUME CallInv, FilesInv, SaveIndex, op.mode = "hard"
                 PROVE  /\ HeadTree' = op.to
                        /\ \A p \in op.files :
                            /\ index'[p] = op.to[p]
                            /\ op.to[p] # None /\ p \notin suspect => disk'[p] = op.to[p]
                            /\ op.to[p] = None /\ op.from[p] # None => disk'[p] = None
      OBVIOUS
    <2>1. /\ UNCHANGED <<refs, head, index, disk>> /\ op.pc = "write" /\ op.todo = {}
      BY SaveIndexInv
    <2>2. HeadTree' = op.to
      BY <2>1 DEF HeadTree, CallInv, CallFollows, Resetting
    <2>3. ASSUME NEW p \in op.files
          PROVE  /\ index[p] = op.to[p]
                 /\ op.to[p] # None /\ p \notin suspect => disk[p] = op.to[p]
                 /\ op.to[p] = None /\ op.from[p] # None => disk[p] = None
      BY <2>1 DEF CallInv, CallFollows, CallLists, Checking, FilesInv, WritesAccounted
    <2> QED BY <2>1, <2>2, <2>3
  <1> QED BY CallInvariant, FilesInvariant, <1>1, PTL DEF Spec, HardResetRestores

\* Which steps of a call under way change a file.
LEMMA FileChanges ==
    ASSUME CallInv, [Next]_vars, op # Idle, NEW p \in Path, disk'[p] # disk[p]
    PROVE  DeleteFile(p) \/ CheckoutChange(p)
  <1>1. ~UserStep /\ ~BeginStep /\ ~CallStep
    BY UserTypes, BeginInv DEF CallInv, CallStep, Reset, Restore, CreateBranch, Checkout, PullHead
  <1>2. ASSUME NEW q \in Path, DeleteFile(q) PROVE q = p
    BY <1>2, DeleteFileInv DEF CallInv, TypeOK, Tree
  <1>3. ASSUME NEW q \in Path, CheckoutChange(q) PROVE q = p
    BY <1>3, CheckoutChangeInv
  <1>4. disk' # disk
    OBVIOUS
  <1>5. \E q \in Path : DeleteFile(q) \/ CheckoutChange(q)
    BY <1>1, <1>4, NextSplit, TickInv, EntryTypes, HeadStepInv, ResetIndexInv,
       DiffWorktreeInv, SaveIndexInv
       DEF vars, CallInv
  <1> QED BY <1>2, <1>3, <1>5

(***************************************************************************)
(* Edits that were not added are not lost by a merge reset, checkout or    *)
(* pull, nor by a keep reset in a file the two commits disagree on, unless *)
(* the file was suspect when the call began.                               *)
(***************************************************************************)
THEOREM EditsAreNotLost == Spec => EditsSurvive
  <1> DEFINE Survive ==
        \A p \in Path \ op.doubt :
            op.start[p] # None /\ disk[p] # None /\ disk'[p] # disk[p] =>
                /\ op.mode = "merge" => disk[p] = op.start[p]
                /\ op.mode = "keep" /\ op.from[p] # op.to[p] => disk[p] = op.from[p]
  <1>1. CallInv /\ FilesInv /\ [Next]_vars => [Survive]_vars
    <2> SUFFICES ASSUME CallInv, FilesInv, [Next]_vars, NEW p \in Path \ op.doubt,
                        op.start[p] # None, disk[p] # None, disk'[p] # disk[p],
                        op.mode \in {"merge", "keep"}
                 PROVE  /\ op.mode = "merge" => disk[p] = op.start[p]
                        /\ op.mode = "keep" /\ op.from[p] # op.to[p] => disk[p] = op.from[p]
      OBVIOUS
    <2>1. op # Idle
      BY IdleType
    <2>2. CASE DeleteFile(p)
      <3>1. op.pc = "delete" /\ p \in op.todo
        BY <2>2 DEF DeleteFile
      <3> QED BY <3>1 DEF CallInv, CallLists, FilesInv, Untouched
    <2>3. CASE CheckoutChange(p)
      <3>1. op.pc = "write" /\ p \in op.todo
        BY <2>3 DEF CheckoutChange
      <3> QED BY <3>1 DEF FilesInv, Untouched
    <2> QED BY <2>1, <2>2, <2>3, FileChanges
  <1> QED BY CallInvariant, FilesInvariant, <1>1, PTL DEF Spec, EditsSurvive

(***************************************************************************)
(* No reset, checkout or pull touches a file that the index, the HEAD it   *)
(* began with and the tree it goes to all have no name for, however racy   *)
(* the time stamps are.                                                    *)
(***************************************************************************)
THEOREM UntrackedFilesSurvive == Spec => UntrackedSurvive
  <1> DEFINE Survive ==
        \A p \in Path :
            /\ op # Idle
            /\ op.start[p] = None /\ op.from[p] = None /\ op.to[p] = None
            => disk'[p] = disk[p]
  <1>1. CallInv /\ [Next]_vars => [Survive]_vars
    <2> SUFFICES ASSUME CallInv, [Next]_vars, NEW p \in Path, op # Idle,
                        op.start[p] = None, op.from[p] = None, op.to[p] = None,
                        disk'[p] # disk[p]
                 PROVE  FALSE
      OBVIOUS
    <2>1. CASE DeleteFile(p)
      BY <2>1 DEF DeleteFile, CallInv, CallLists
    <2>2. CASE CheckoutChange(p)
      BY <2>2 DEF CheckoutChange, CallInv, CallLists
    <2> QED BY <2>1, <2>2, FileChanges
  <1> QED BY CallInvariant, <1>1, PTL DEF Spec, UntrackedSurvive

\* No reset, checkout or pull loses unstaged edits, as far as EditsSurvive goes,
\* or files that git knows nothing of.
THEOREM NoLocalFileIsLost == Spec => LocalFilesSurvive
BY EditsAreNotLost, UntrackedFilesSurvive, PTL DEF LocalFilesSurvive

=============================================================================
