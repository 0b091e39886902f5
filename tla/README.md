# A TLA+ development of go-git

This directory specifies the parts of go-git v6 whose correctness depends on
interleavings, interruptions or graph algorithms: descriptors and references on
disk, receiving, publishing and finding packs, fetch and push, transactional
storage, the worktree, tree differences and history walks. Every module is
translated from the Go source; `PROJECT.json` maps each definition to the lines it
stands for and lists, under "hazards", what is hard to test in this code.

## The system and its parts

| component | state | operations | hard behaviour | what makes it correct |
|---|---|---|---|---|
| `internal/sharedfile`, `x/fdpool`, `internal/packhandle` | descriptor, refcount, generation, timer, latch; LRU list, handles, mutex | Acquire, Release, Close, ReleaseNow; Touch, Forget | callbacks that fired before Stop; eviction drops the mutex before it calls the victim | pinned descriptors stay open, idle ones are closed, the budget is kept |
| `storage/filesystem/dotgit` references | loose files, `packed-refs`, advisory locks | SetRef, compare-and-set, Ref, RemoveRef, PackRefs | other processes, crashes, locks on replaced inodes | a reference changes only by a call about it; compare-and-set is atomic |
| `dotgit` pack writer | temporary file, counters and channels shared with a parser, sidecar files | Write, Close, save | reader catches up with writer, lost wake-ups, retry after a crash | the saved file is the pack; a visible pack is complete |
| `storage/filesystem` objects | index map and pack list, handles, alternates, loose objects | lookups, Reindex, Notify, iteration, repack, pack deletion | the index is published while readers run; packs vanish | what is stored is found, what is reachable is not deleted |
| `dotgit` listings under ExclusiveAccess | packBases, packList, objectMap, no mutex | list, look up, clean | a clean or another goroutine between check, scan, store and read | the caches say what the directory says |
| `plumbing/revlist` | paints, queue, missing commits | Objects | early stop by committer time, cut histories | the objects complete the wants |
| `plumbing/object` walks | stacks, queues, heaps, counts | Log orders, MergeBase, IsAncestor, topological walk | clock skew, criss-cross merges, partial commit-graph | equal to their set definitions |
| `utils/merkletrie`, rename detection | two stacks of frames, lists of changes | DiffTree, DetectRenames | iterators that leave directories at different times, greedy matching | each change once, none lost |
| `remote.go` push, `receive_pack.go` | advertisement, commands, session status | push modes; unpack, check, write, report | sessions between check and write, partial failure | fast-forward and lease rules, complete histories |
| `remote.go` fetch, `negotiate.go`, `upload_pack.go` | haves, wants, rounds, shallow file | negotiation over three protocols, storing | rounds, moving server, deepening, interruption | terminates; histories complete down to the boundary |
| `storage/memory`, `storage/transactional` | maps; base and overlay | the storer interfaces, Commit | any call fails half done; Commit stops half way and is repeated | overlay reads as one storer; base never dangling |
| `worktree*.go`, `merkletrie/filesystem` | HEAD, index, files, time stamps | add, commit, reset, checkout, pull | several stores updated in turn, racy time stamps | no edit hidden or lost, resets restore |
| formats, HTTP/SSH, blame, archive, signing | — | encoding and I/O | — | not modelled |

How they interact: object storage reads packs through pack handles, learns of a
new pack from PackWriter's Notify, and shares the directory with other processes.
Receive-pack and fetch write a pack through PackWriter and then change references
through the reference store. Push, upload-pack and repack send what revlist finds.
Status, reset and checkout act on what the tree difference reports.

## Modules

**SharedFile** (+ **SharedFileProofs**). Goroutines `Proc` use SharedFiles `File`
wired to one pool or none. `mu` is the holder of the pool's mutex and `smu` of each
file's: an Acquire that has to open the file holds `s.mu` over several steps, the eviction walk
holds the pool's mutex and needs `s.mu` of the member it looks at (Pinned), and the other
sections under `s.mu`, which wait for nothing, are single steps that need it free. Each call into the
pool is a sequence of its own (`touch`, `walk`, `evict`, `relock`, `forget`), because
SharedFile releases `s.mu` first; its Fault, an Acquire that keeps `s.mu`, deadlocks against a walk. A pending timer (`timer`) and callbacks that wait for the mutex
(`fired`) are separate, since Stop recalls only the former.

**RefStore** (+ **RefStoreProofs**, MC: MCRefStore). Processes act on loose files and `packed-refs` by system
call. `AtPath` is the inode a path names now; an inode unlinked or renamed over
while open becomes an `Orphan` with its own contents and lock. A call may be aborted
before any step. `start`, `calm`, `result` and `stale` are history. Two assumptions the
code states are kept: PackRefs excludes set and remove calls (`MayStart`), and two
versions of packed-refs have different modification times. PackRefs' walk, its read of
packed-refs and the writing of the temporary file are one step (`Collect`): the calls that
overlap are reads and other PackRefs, whose deletions the walk tolerates.

**PackStream** (+ **ReceiveProofs**). The caller's Write and Close against the
parsing goroutine; each atomic access, system call and channel meeting is a step.
Bytes are counted; Parse is what it asks of its reader: more, a seek back, or an end.

**PackSave** (+ **ReceiveProofs**). Several writers save the same pack; existence checks, creation, contents
and rename are separate steps and each may be the last. `mixed` records that two saves
met on one sidecar file. Creating over a finished, read-only file may fail (`Fail`).

**PackWriter** (+ **ReceiveProofs**). The two together: one writer, `Own`, is followed from its first Write,
its save begins when the stream has handed the file over, and other writers save the same pack at any
time. The parts share no variable, so a behaviour of the whole is one of each part.

**ObjectStorage** (+ **ObjectStorageProofs**, MC: MCObjectStorage). Goroutines of one process look up (get, has,
size, delta), iterate, rescan, fetch, write loose objects and repack; another process
adds and removes packs. A pack is the set of its objects. A section under a mutex, one
listing, one open and one read are single steps. The listings cached under ExclusiveAccess are
not guarded by a mutex, so in that mode calls take turns (`Turn`) and module Listings has
their interleavings; in shared access calls overlap freely. `flight` is the singleflight of
requireIndex and Reindex, `wlock` is muIWriters, `packList` and `objList` are the listings
cached under ExclusiveAccess. History: `steady` (the object was in a place the
storage knows since the call began), `upset` (something took it away), `avail`, `published`,
`overlap`.

**Listings**. What DotGit caches under ExclusiveAccess, with nothing left atomic: the check for nil,
the scan of the directory, each of the two assignments of genPackList, the empty map that
genObjectList publishes and fills directory by directory, the read that follows, and the cleans
of the calls that add and delete. An assignment to a map that was set to nil, or that the
runtime finds another access at, panics (`FillPanics`); a directory that cannot be read leaves the
map as it is (`ListFails`). `spoiled` records that a clean and a listing overlapped and is taken back
by a clean that nothing overlaps.

**CommitGraph**. Parents, reachability and reference tables, shared by Push and Fetch.

**RevList** (+ **WalkProofs**, MC: MCRevList). The painting walk of `objectWalk`: one turn of the loop is one
step, a turn takes any of the newest commits; the graph, the committer times, the
shallow and the missing commits are chosen in Init.

**CommitWalk** and **History**. The iterators of `plumbing/object` and the walkers over the
commit-graph are sequential, so each is a recursive operator that returns the commits in
the order of Next and whether it ended without error. History applies them to every
graph RevList starts from and compares them with set definitions.

**TreeDiff** (+ **WalkProofs**, MC: MCTreeDiff). The loop of DiffTreeContext, one turn per step, on two stacks
of frames; then rename detection, one hash (exact) or one pair (content) per step. Trees
are tree objects, whose directories have hashes, or an index and a filesystem, whose
directories have none. `nameSimilarityScore` and the content score are constants.

**Push** (+ **PushProofs**, MC: MCPush). Clients with full or shallow clones push to one server: advertisement,
`plan` (commands and their fast-forward rule, leases by tracking reference for all or one reference
or by a named hash, prune, delete, objects to send),
then the server's session: unpack, hook, a check and a later write per command, the
report. Sessions interleave unless `serial`.

**Fetch** (+ **ReceiveProofs**, MC: MCFetch). Wants and haves, rounds of protocol v0 over a stream and over HTTP
and of v2, the server's acknowledgments and its plan of commits and shallow boundary, then
pack, shallow file and references stored one after the other. The server's references
move between the steps; the client commits locally and may be interrupted.

**Storer**, **Transaction** (+ **TransactionProofs**, MC: MCTransaction). Storer is the
abstract specification, taken from the in-memory storage. Transaction is
`storage/transactional`: writes go to the temporal storage, reads overlay it on the base,
Commit copies item by item and may stop anywhere and be repeated. Any call may fail; the marks
it made before it failed stay, as in the code (SetReference drops the removal mark, RemoveReference
and the reflog calls set theirs, before the temporal storage is asked). `call` and `out` are the
last call and its outcome, so that the refinement is about answers as well as contents. `Promise`
is the refinement mapping (INSTANCE Storer WITH the overlay reads). `Departs` spells out the three
calls after which the code differs from a plain storage, and what they then do: a failed set of a
removed reference (`Uncovers`), a check of one (`ChecksHidden`), an empty SetShallow
(`EmptiesShallow`).

**Worktree** (+ **WorktreeProofs**, MC: MCWorktree). HEAD, branches, index and files; each call that writes takes
one step per reference, index file or file (Remove, Move and Commit with All are two) and may stop
after any. `mtime`, `etime` and `itime` are the times of the files, of the entries and of the index
file; the clock `now` moves by `Tick`, also in the middle of a call, and may stand still between
any two writes. All contents have one size, the case in which the time decides. The history variable `suspect`
holds the files whose recorded time says less than it should: edited in the time unit of their entry,
taken along by Move with unstaged edits, or renamed onto an entry with the same time by a Move that
stopped there; `op.doubt` is what was suspect when the call in progress began.

Operators commented "Fault" or "Mutant" are plausible bugs of the operation defined after
them. No specification uses one; substituting it must break the property `PROJECT.json`
pairs with it.

## Runs

| run | instance | result |
|---|---|---|
| `shared_file` | 2 goroutines, 2 files, no pool or capacity 0 or 1, generations up to 3 | readers keep descriptors, none escapes the budget, calls return, idle files close |
| `ref_store` | 2 processes, 2 names, 2 hashes, crashes, all starting packed-refs | isolated calls are correct, compare-and-set is not torn, a rewrite changes no other name |
| `ref_lock` | 2 processes, 1 name | **violated**: a process can hold the lock of a replaced packed-refs |
| `pack_writer` | pack of 2 bytes, streams up to 3, all splits; 2 writers save it, 2 attempts each | Write and Close return; the visible pack is the pack that was sent, with its index and its promisor marker |
| `object_storage` | 2 goroutines, 2 objects, 2 packs, both access modes (taking turns in the exclusive one), 2 calls, 1 external change, up to 2 alternates | lookups find what is stored and nothing else, nothing reachable is lost, no lock outlives its call |
| `listings` | 3 goroutines, 1 pack, 1 loose object, 4 calls | caches agree with the directory and reads are right unless a clean overlapped |
| `revlist` | every graph of 4 commits with up to 2 parents, every order of times, up to 2 wants and haves, one cut | the result completes the wants, the walk ends, with monotone times it is exact; walks and merge bases equal their definitions |
| `tree_diff` | pairs of trees of two names, two levels, three kinds of file; index or tree objects; one skip-worktree entry; all options | each change once; renames only group |
| `push` | 2 clients (full, shallow), 2 references, 5 commits, 7 modes, 2 pushes, 1 fault | server complete, ok means applied, tracking was true, no unasked loss, leases hold at the write |
| `fetch` | 5 commits with a merge, 3 protocols, depths 0, 1, 2, infinite, 2 fetches, a moving server, 1 interruption | histories complete, depths served, fetch returns |
| `transaction` | 2 names, 2 objects, 4 calls, 1 fault | it implements Storer but for `Departs`, the base never dangles, a successful Commit publishes |
| `worktree` | 2 paths, 2 contents, 2 branches, the trees of the history, one ignored path, 3 time units | only suspects hide edits, hard reset restores, merge resets, checkouts and pulls keep unstaged edits, keep resets those in files the commits differ on, untracked files survive |

Bounds. *shared_file*: capacity 1 with two files makes every third Touch evict, pinned or
not; three generations let a stale callback survive a full Acquire/Release cycle.
*ref_store*: two names let a rewrite for one meet any call about the other; an orphan per
process suffices because a process has one file open. *pack_writer*: two bytes
split into writes and reads, empty ones too, and one of junk; the second attempt meets what the first,
or the other writer, left (PackStream alone, `StreamFairSpec`, has also been run with three bytes and two of junk). *listings*: three goroutines let two listings and a clean meet; with four calls a spoiled listing is mended and used again. *object_storage*: two calls race each
other in every pairing, with one external change in between; an object may be in both
packs, in one, loose, or nowhere. *revlist*: four commits are the smallest history with a
criss-cross merge, with a boundary crossed late and with a commit reached by both sides
after the early stop; the third commit reverts to the first one's tree. *tree_diff*: two names
and two levels give files replaced by directories and back, empty directories, equal hashes
in several places and iterators at different depths. *push*: two diverging lines let the
second session overtake the first between its check and write. *fetch*: the two fetches make
old and new boundary cross, and InitialFlush 1 with MaxInVain 2 makes negotiation take several
rounds and give up. *transaction*: four calls allow write, failed Commit, another write
and Commit again. *worktree*: with three time units a file, its entry and the index file have three
different times or share one, and an edit may come before, within or after any of them; calls are
unbounded; `MaxNew` 0 keeps commits to the trees of the history (`MaxNew` 1 has been run with two
time units).
Bounds appear only in guards of actions the environment starts.

`shared_file` does not check deadlock: once every file is closed or the bound on generations
is reached nothing remains to be done. All other passing runs do; where a bound is used up
and every call has returned, a `Quiet` (or `Returned`) step stands for the idle program.

Fairness. A goroutine or process inside a call keeps running; a mutex or flock that is
released again and again is eventually granted (strong fairness; Go's mutex has a starvation
mode and kernels queue flocks); the runtime fires timers; the clock reaches the 15 s limit of a
loop that keeps starting over; Parse seeks back finitely often; in Fetch, weak fairness of
`Step`, the client's own control flow, each step of which ends with the server's answer or an
error. Nothing obliges anybody to start a call, to release what it holds, or to die.

Conditions. Some properties are stated up to an event that a companion configuration (below)
exhibits:
`~stale` in RefStore (a process fooled about the inode it locked), `~mixed` in PackSave (two
saves on one sidecar), `steady`/`upset` and `overlap` in ObjectStorage (another process or a
deletion took the copy; a repack overlapping a fetch), `Monotone` in RevList and History (times
agree with the history), `~Collides` and `~Lossy` in TreeDiff, `Unserialised` in Push (creates
and deletes have no compare-and-set), `spoiled` in Fetch, `HalfRemoved` and `Departs` in Transaction,
`spoiled` and `trust` in Listings, `suspect` and `op.doubt` in Worktree. ObjectStorage's properties
say nothing about overlapping calls under ExclusiveAccess (`Turn`): for those see Listings.
HardResetRestores speaks of the files that the call's own HEAD or target has; a file that only the
HEAD before an interrupted call had stays behind.

Further configurations kept beside the runs. Each of these is violated and shows one finding:

| configuration | module | property |
|---|---|---|
| MCNoopPool | SharedFile | NoopPoolGraceCloses: the idle descriptor is never closed |
| MCRefEmpty | RefStore | FailedSetLeavesNothing: a failed comparison leaves an empty file |
| MCPackRace | PackStream | NoEarlyEOF: a complete pack is reported as truncated |
| MCPackIndex | PackSave | IndexBeforePack: a pack visible with part of its index |
| MCObjectRace | Listings | ObjectIfExists: an object is missed while the map is filled |
| MCPackListRace | Listings | ObjectPacksListed: no packs are listed |
| MCAlternates | MCObjectStorage | HasIsExact: an absent object is reported |
| MCLostRename | MCTreeDiff | RenamesLoseNothing: an insertion is lost |
| MCHiddenEdit | MCWorktree | MetadataIsEnough: a racily edited file looks unmodified |
| MCKeepReset | MCWorktree | KeepLosesNothing: an unstaged edit is overwritten |
| MCShallowPush | MCPush | OnlyForceDrops |
| MCShallowFetch | MCFetch | HistoryComplete |
| MCObjectStorage with `Modes = {TRUE}` | MCObjectStorage | CachedListingIsCurrent |
| MCRevList | MCRevList | TopoOrderKept, LogAllIsComplete, MergeBaseAnswersOrFails |
| MCTreeDiff | MCTreeDiff | SparseDiffIsExact |

For the last three, put one property of the last column in place of those in the file.

MCRefLive (module RefStore, two processes, one name, hash and symbolic values) passes: every
call returns under fair locks and the 15 s limit.

## Findings

Shown by a run or by one of the configurations above:

1. `openAndLockPackedRefs` compares two modification times looked up by path after the open; a
   rename between open and first lookup goes unnoticed. Two RemoveReference calls about
   different names, or two PackRefs, then rewrite from outdated contents (`ref_lock`).
2. `fdpool.New(0)` does not restore the grace-period close (`sharedfile.go:159` against
   `storage/filesystem/storage.go:112`; MCNoopPool).
3. A CheckAndSetReference whose comparison fails on a reference without a loose file leaves an
   empty one; IterReferences and PackRefs fail from then on (MCRefEmpty).
4. `syncedReader.Read` looks at `done` after it met the end of the file: a wake-up for bytes
   already read, then the last Write and Close, make it report a complete pack as truncated
   (MCPackRace).
5. An index left partial by a crash is taken as complete by the next save (MCPackIndex).
6. With several alternates and an object in none of them, HasEncodedObject and EncodedObjectSize report
   it as present (`object.go:221` returns the zero value without error; MCAlternates).
7. Under ExclusiveAccess the listings have no mutex. A lookup that meets a half-filled `objectMap` misses a loose object
   (MCObjectRace; the map also stays partial after an error, and an assignment to it can panic when a
   clean sets it to nil); a clean between the check of `packBases` and the read of `packList` makes
   ObjectPacks return nothing, and a Reindex then publishes an index without packs (MCPackListRace).
   Without any overlap, a listing cached between NewObjectPack and the rename stays stale.
8. `isFastForward` answers yes when a shallow history is cut off, so a push from a shallow clone
   can drop commits without Force.
9. A shallow repository that fetches without a depth does not send its shallow commits
   (`remote.go`, where UpShallows is filled only for a depth) and may end with commits whose
   parents it lacks; so may a call interrupted between pack and shallow file.
10. A file edited within the time unit of its entry looks unchanged once any later call has rewritten the
    index (MCHiddenEdit; `merkletrie/filesystem/node.go:34` speaks of correctly handling this). Move records
    the time of a modified file with the old hash, and a Move that stops between Rename and SetIndex,
    onto a path whose entry has the file's time, leaves another content behind matching metadata.
    A keep reset checks only the paths on which HEAD and the target differ and then checks out whatever
    differs from the index (`worktree.go:739-773` against `options.go:445-449`): it overwrites unstaged edits of
    tracked files on which the two commits agree (MCKeepReset), and untracked or staged content.
11. The topological walker emits parents before children, or commits twice, for commits outside
    the commit-graph file when committer times are equal or skewed, against the comment of
    `NewCommitNodeIterTopoOrder`.
12. Log with All leaves out one side of a merge: `addReference` stops at the first known commit.
13. MergeBase drops the error of the walk from the older commit and answers "no base" in an
    incomplete repository.
14. `detectExactRenames` loses an insertion that has several identical deletions and matches none
    (no branch puts it into `addedLeft`; MCLostRename).
15. Skipped (sparse) nodes are compared by last name and passed over out of step, so DiffTree
    misses changes or reports a file as deleted and inserted.
16. In a transaction a SetReference or CheckAndSetReference of a removed reference that fails leaves the
    base's value visible: the removal mark is dropped first (`transactional/reference.go:33`). `Departs` in the
    refinement says so.

Met while translating, and built into the models as the code has them: under ExclusiveAccess
HasEncodedObject does not consult alternates; a deletion between the save of a pack and its
Notify leaves a stale entry, and a failed one keeps its entry; an object that moves from loose to
packed during a lookup can be missed, and in-memory entries of externally removed packs stay;
a repack that overlaps a fetch can delete the fetched pack; `PushOptions.Atomic` is not sent;
with `ForceWithLease.RefName` other references skip the fast-forward check; a v0 HTTP round after
"ready" sends no haves; receive-pack creates references without compare-and-set; revlist resends
commits or fails under clock skew; in a transaction CheckAndSetReference ignores a removal,
SetShallow with no commits is dropped by Commit, RawObjectWriter writes to the base, a failed
removal comes back, a repeated Commit repeats reflog entries; a refused Checkout or Pull has
moved HEAD, a plain Checkout overwrites an untracked file at a path of its target, updateHEAD
does not compare. Seen but outside the models: doUpdateFileToIndex mutates entries
shared with the cached index, a Touch after Close wastes a pool slot, `buildSimilarityMatrix`
returns the error it meant to tolerate for a large destination file.

## What is proved

`SharedFileProofs`, for any finite sets of goroutines and files and any integer capacity, from the
named assumptions of SharedFile: type correctness, that refcounts are the holders, and
`PinnedStaysOpen`, `OpenIsGoverned`, `IdleWithinCapacity` with the invariants they rest on. None is
inductive alone. `LockOrder` states the order of the locks: nobody is inside the pool while holding `s.mu`.
`IndInv` adds what each stage of a pool call knows (the mutex is held exactly
during a walk, the walk's position is within the list, the caller's member is at its front) and,
for the budget, that every open unpinned descriptor outside an eviction is linked, so that
they number at most the length of the list. Per-file facts are proved one action at a time; the
pool's facts rest on lemmas about removing from and prepending to a sequence without repetitions.

`ReceiveProofs` follows what a fetch brings in from the negotiation to the published pack: Fetch,
PackStream, PackSave and PackWriter, whose specifications therefore have names of their own
(`StreamSpec`, `SaveSpec`, `WriterSpec`).

*PackStream*, for packs and streams of every length: type correctness, `EOFOnlyWhenDone`,
`SendHasReceiver` and `SavedPackIsExact`. The invariant ties `read` to the position of the
descriptor and `written` to the size of the file, `blocked` to the goroutine's receive, `done` and
`closed` to the stages of Close.

*PackSave*, for any finite set of writers and number of attempts: `VisibleIsComplete`,
`PromisorMarked`, that a save that returned nil left pack and index in place, and that a save no
other overlaps leaves a duplicate pack unmarked. `SaveInv` gives each stage of save what the stages
before it have made true of the sidecar files, for every writer at once, since the others may
create or truncate the same files in between.

*PackWriter*: it implements both parts, so their theorems hold of it, and `PlacedIsExact`: once `Own` has
begun to save, the stream stays where it handed the file over (`HandedOver`), and what is renamed
into place is what the stream vouched for. `PublishedIsWhole` joins `VisibleIsComplete` and `PromisorMarked`.

*Fetch*, for every finite history, any references and depths, any sequence of fetches over the
three protocols, a moving server and calls that stop anywhere: type correctness, `FetchCompletes`
and `DepthServed`, both up to `spoiled` (finding 9). `FetchInv` says that the server's commits are
closed under parents; that the client offers only what it has; that the client's commits together
with the response are closed down to the shallow file as it will be, and from the moment the pack
is stored on by themselves (`WholeOK`); and that no commit nearer than the depth is, or is about to
be, in the shallow file (`DeepOK`). What the server sends is a difference of two reachable sets, so
the proof needs of `Reach` and of the balls around the wants that they are the least sets closed
under a step; it comes from the finiteness of the history (`FiniteAssumption`).

`RefStoreProofs`, for any finite sets of processes and names, any values, calls stopping anywhere,
from `RefAssumption`: type correctness, `CheckStaysValid`, `OnlyWritersChange`, `IsolatedCalls` and, as a
stepping stone worth stating, that at most one process rewrites packed-refs and works on the file
at the path (`OneRewriter`); the last three up to `stale` (finding 1). `CallInv` ties
descriptors and locks to the stages of a call; `FileInv` says that processes share an inode only if
they opened the same path and that one of them has its lock, also when the inode is no longer at the
path; `RewriteInv` that the temporary file of a rewrite is still what the files as they are now
should be rewritten to, and that what PackRefs is about to prune is in packed-refs; `AloneInv` what
a call no other write overlaps knows at each stage about its reference, in terms of the value the
reference had when the call began.

`TransactionProofs`, for any names, objects, values and numbers of calls and faults: type
correctness; `BaseComplete`, from the invariant that the temporal storage's references name
objects of either storage and that Commit reaches references only when all objects are copied; and
`ImplementsStorer`: initial states map to initial states and every step, Commit's included, is a
step of Storer, a stutter, or one of the three calls in `Departs`, with exactly the effect stated there.
Nothing is assumed about callers beyond storing an object before its name.

`CommitHasPublished` is `CommitPublishes`: the base alone reads like the transaction after a Commit
that succeeds. `PublishInv` says of each part of Commit that what it has settled agrees in the base
and that no later part disturbs it; an attempt that stopped half way leaves that true, because a
repeated part starts over.

`WalkProofs` has the two walks, RevList and TreeDiff. *RevList*, for every finite history, choice of committer times, wants, haves, shallow and
missing commits: `ResultCompletes` (`CompleteInv`: a commit painted "want" is queued, held by the peer,
new, or recorded as missing with its child; the loop stops only on a stale queue); with times that
increase along the history `NothingResent` and `ErrorsAreReal` (`ExactInv`: what can be traced from
the haves is painted "have" or older than a queued have, and nothing queued is newer than a
commit already taken); and `EveryTurnCounts`: each turn lowers a natural number, so the walk ends.
Reachability is the least closed set; the few facts about it come from closure under parents, and
"the newest wrong commit" from the well-foundedness of strict inclusion on finite sets.

*TreeDiff* (`DiffSpec`), for every pair of finite trees of any depth, tree objects or an index and a
filesystem, any options and scores: type correctness, `DiffIsExact` (up to `Collides`, finding 15)
and `RenamesKeepChanges` (up to `Lossy`, finding 14). An iterator stands for the set of its pending
nodes, whatever the frames they are in. `WalkInv` says that each stack holds nodes of its tree in order, that a
path both trees have is pending on both sides or on neither (`InStep`, although the iterators leave
directories at different times), and that the changes listed are, without repetition, the expected
ones outside the pending part (`Progress`). `RenameInv` says that deletions are shared out between
`deleted` and the sources of `renamed`, insertions between `added` and the targets, one to one, and
that the files of a hash not looked at yet are untouched. The greedy choice of the best name is a
recursive function on sets of pairs; that it is defined, and pairs nothing twice, follows from
the existence of exactly one function with its equation, by the well-foundedness of strict inclusion.
From `TreesAssumption` (a tree has the directories of its files) and `ScoreAssumption`.

`PushProofs`, for any clients, references, acyclic numbered history and interleaving of sessions:
type correctness, `ServerComplete`, `OkMeansApplied`, `TrackingWasTrue`, `LeaseHolds` and
`PushKeepsHistory`. `PushInv` says that the server's commits are closed under parents and include
its references; that a session's pack and the server together are closed, although the
references may have moved since the advertisement; that there is one command for each name,
allowed by the mode of the push; that each command is still to do, being written, applied or in
error; and that on a serialising server what the check of a create or delete saw still holds.

`WorktreeProofs`, for any paths, contents, branches, trees and times, calls stopping after any write: type
correctness, `EditsAreSeen`, `HardResetRestores`, `EditsSurvive` and `UntrackedSurvive` (together
`LocalFilesSurvive`). None has a condition on
the edits or on the callers; the first three except the files that `suspect` names, one event of one of
three kinds each, and finding 10 shows that these exceptions are needed.
`CallInv` says how the lists of a call under way follow from its trees and the index it
began with, `FilesInv` that a file whose time is the recorded one holds what its entry names unless suspect,
that a file no longer on a reset's list has its new content, and that a file a merge or keep reset may
still remove is as the call found it.

`ObjectStorageProofs`, for any finite sets of goroutines and objects, any packs, calls, external
changes and alternates, with calls that overlap in shared access and take turns under ExclusiveAccess:

* `LocksAreReleased` from `LockInv` (who is in which section of muIWriters and the singleflights);
* `IndexKeepsPacks` and that the slice the lookups walk holds each pack of the map once, from `IndexInv`
  (the index covers what was published; a rescan in progress covers what was published before its
  listing, and publications wait for it);
* `AbsentIsNotFound` from `FoundInv` (what a lookup has in hand was there at some point of the call);
* `NothingLost` from `KeepInv` (from the walk of a repack on, everything needed is loose or in its pack,
  and the pack being deleted is not that one);
* `PresentIsFound` from `PresentInv`: while a lookup is owed its object, the object is in a place the
  lookup has not passed yet (index, published packs, loose, alternates), no index entry that leads
  to it is stale, and a pack being read is on disk. Each step of another goroutine either disturbs
  nothing the lookup relies on or marks it `upset`.

What the proofs changed in the models. `PresentIsFound` failed for index entries that an iteration or
a rescan installs although the cached listing lacks the pack: `Publish` and `InstallIdx` now count
them as stale. Two definitions of ObjectStorage and one of Worktree chose by CASE with arms that
overlap, whose meaning TLA+ leaves open; they now say which condition comes first, as the code does.
Some assumptions on constants became explicit (`None` is no member of the sets it is told apart
from; `TreesAssumption`, `ScoreAssumption`, `FiniteAssumption`). `DepthServed` measures distances up to
the number of commits, beyond which nothing new is reached, instead of up to the depth itself, and
TreeDiff sorts the children of a node by `InOrder`, their one order by name, in place of a library
sort that the prover cannot see into.

Only model-checked: the properties of Listings; the liveness properties `CallsReturn` (of SharedFile, PackStream and, in MCRefLive,
RefStore), `GraceCloses` and `FetchReturns`, since fairness and ENABLED are beyond the prover; and
`MergeBaseIsBest` and `LogIsExact`, which say what the recursive walkers of CommitWalk compute: an
induction over data, and over RECURSIVE operators. Every other property of a passing run is a
theorem.

## Not modelled

Byte-level formats (packfiles, deltas, pkt-lines, idx, config, index encodings), HTTP, SSH and git
transports, blame, archive, submodules and signing: data transformation and I/O without the
state that TLC explores; `PROJECT.json` gives the reason for each. Within modelled parts:
filesystems without locks, rename or read-write files (`setRefNorwfs`, `copyNewFile`), reference
name validation, tags, filters and deepen-since/not, symbolic links, modes, submodules and sparse
checkouts in the worktree, limits and ignore lists of Log, the author-date order, similarity scores,
the cached decoded index, the sorted `objectList` and the prefix search on it, DotGit.Close, leases that
name a hash for every reference at once. Most of the repository's remaining lines are such code, so the
mapped share is well below a third of it.

## Plan

1. Proofs about merge bases and Log orders: they need the walkers of CommitWalk as state machines, one
   Next per step, as RevList has its walk, in place of recursive operators.
2. Composition of RefStore's isolated behaviour with Storer as its abstract specification.
3. Proofs of Listings' invariants.
4. Index encoding caches and reflog files; CherryPick and submodule updates in Worktree.
