--------------------------- MODULE ObjectStorage ---------------------------
(***************************************************************************)
(* ObjectStorage (storage/filesystem/object.go) with the pack and object    *)
(* listings of DotGit: goroutines look objects up, iterate, rescan, fetch   *)
(* packs, write loose objects and repack, and share the in-memory index of  *)
(* packs, the handles of open packs and, under ExclusiveAccess, the cached  *)
(* listings.  Other processes may add and remove packs in between.          *)
(*                                                                          *)
(* Packs are content addressed: a pack is the set of objects in it.  A      *)
(* section under a mutex without I/O is one step; so is one directory       *)
(* listing, one open and one read.                                          *)
(*                                                                          *)
(* The listings DotGit caches under ExclusiveAccess have no mutex.  With    *)
(* the option the calls of this model take turns (Turn), and nothing here   *)
(* says what overlapping ones do: module Listings does.  Without it they    *)
(* interleave freely.                                                       *)
(***************************************************************************)
EXTENDS Naturals, Sequences, FiniteSets, SequencesExt

CONSTANTS
    Proc,        \* goroutines of one process
    Object,      \* object ids
    Packs,       \* packs that may exist at the start, be fetched or come from outside
    Op,          \* operations the goroutines may call
    AltChoices,  \* contents of objects/info/alternates: sequences of object sets
    AltExtra,    \* the alternate AddAlternate appends
    Modes,       \* values of Options.ExclusiveAccess
    MaxCalls,    \* bound: calls of the goroutines together
    MaxExternal, \* bound: packs other processes add or remove
    MaxAlts,     \* bound: alternates AddAlternate fills the file up to
    None         \* no value

Pack == (SUBSET Object) \ {{}}

Lookups == {"get", "has", "size", "delta"}
Writes  == {"fetch", "repack"}
Others  == {"commit", "reindex", "iter", "addalt"}

ASSUME StorageAssumption ==
    /\ IsFiniteSet(Proc) /\ IsFiniteSet(Object) /\ Proc # {}
    /\ Packs \subseteq Pack
    /\ Op \subseteq Lookups \cup Writes \cup Others
    /\ Modes \subseteq BOOLEAN /\ Modes # {}
    /\ AltExtra \subseteq Object /\ MaxCalls \in Nat /\ MaxExternal \in Nat
    /\ MaxAlts \in Nat
    /\ \A s \in AltChoices : s \in Seq(SUBSET Object)
    /\ None \notin Proc \cup Object \cup Lookups \cup Writes \cup Others \cup {"found", "open"}
    /\ \A S \in SUBSET Pack : S # None

VARIABLES
    exclusive,  \* Options.ExclusiveAccess
    files,      \* the packs in objects/pack that have an .idx
    loose,      \* the loose objects
    needed,     \* the objects the references reach
    index,      \* ObjectStorage.index, None until it is loaded
    packs,      \* ObjectStorage.packs
    hint,       \* ObjectStorage.lastHitPackIdx
    wlock,      \* holder of muIWriters
    flight,     \* leader of the singleflight of each key
    packList,   \* DotGit.packBases, None when it must be listed
    objList,    \* DotGit.objectMap, None when it must be listed
    handles,    \* DotGit.packHandles
    altFile,    \* objects/info/alternates
    alts,       \* ObjectStorage.alternates, None until initAlternates
    pc, op,     \* where a goroutine is and in which call
    obj,        \* the object a lookup or a commit is about
    pack,       \* the pack a call writes, reads, loads or deletes
    snap,       \* packs a lookup took, or the listing of a load
    held,       \* the goroutine's pack handle: None, "open", "closed"
    todo,       \* packs an iteration or a repack has before it
    idxErr,     \* requireIndex failed
    res,        \* what the call returned
    steady,     \* history: obj was in a place the storage knows since the start
    upset,      \* history: something took that place away during the call
    avail,      \* history: obj was stored, or indexed, at some point of the call
    published,  \* history: packs whose publication is complete, not deleted since
    calls,      \* calls left
    external,   \* changes other processes may still make
    overlap     \* history: a repack overlapped a fetch, or a removal failed

disk    == <<files, loose, needed, altFile>>
memory  == <<index, packs, hint>>
locks   == <<wlock, flight>>
caches  == <<packList, objList, handles, alts>>
locals  == <<op, obj, pack, snap, todo, idxErr>>
history == <<steady, upset, avail, published, overlap>>
bounds  == <<calls, external>>
vars    == <<exclusive, disk, memory, locks, caches, pc, locals, held, res, history,
             bounds>>

InSome(o, S) == \E k \in S : o \in k
Stored == loose \cup UNION files
AltObjects == UNION {altFile[i] : i \in DOMAIN altFile}

Init ==
    /\ exclusive \in Modes
    /\ files \in {{}} \cup {{k} : k \in Packs} /\ loose \in {{}, Object}
    /\ needed \in {{}, Stored} /\ altFile \in AltChoices
    /\ index = None /\ packs = <<>> /\ hint = 0
    /\ wlock = None /\ flight = [k \in {"populate", "reindex"} |-> None]
    /\ packList = None /\ objList = None /\ handles = {} /\ alts = None
    /\ pc = [p \in Proc |-> "idle"] /\ op = [p \in Proc |-> None]
    /\ obj = [p \in Proc |-> None] /\ pack = [p \in Proc |-> {}]
    /\ snap = [p \in Proc |-> <<>>] /\ held = [p \in Proc |-> None]
    /\ todo = [p \in Proc |-> {}] /\ idxErr = [p \in Proc |-> FALSE]
    /\ res = [p \in Proc |-> None]
    /\ steady = [p \in Proc |-> FALSE] /\ upset = [p \in Proc |-> FALSE]
    /\ avail = [p \in Proc |-> FALSE] /\ published = files /\ overlap = FALSE
    /\ calls = MaxCalls /\ external = MaxExternal

GoTo(p, stage) == pc' = [pc EXCEPT ![p] = stage]

Return(p, r) ==
    /\ GoTo(p, "done")
    /\ res' = [res EXCEPT ![p] = r]

-----------------------------------------------------------------------------
(* DotGit: listings and handles.                                            *)

\* packCatalog: a fresh directory listing, or the cached one.
Catalog == IF exclusive /\ packList # None THEN packList ELSE files
GenPackList == packList' = IF exclusive THEN Catalog ELSE packList

\* hasObject: under ExclusiveAccess a loose object must be in the cached listing.
ObjectList == IF objList # None THEN objList ELSE loose
GenObjectList == objList' = IF exclusive THEN ObjectList ELSE objList

\* Readers whose handle is closed fail with fs.ErrClosed from then on.
CloseHandles(S) ==
    /\ handles' = handles \ S
    /\ held' = [p \in Proc |-> IF held[p] = "open" /\ pack[p] \in S
                               THEN "closed" ELSE held[p]]

\* cleanPackList: the listing is dropped and every handle is closed.
CleanPackList ==
    /\ packList' = None
    /\ CloseHandles(Pack)

\* The lookups that CleanPackList, or the removal of the packs S, may fail.
Reading(S) == {p \in Proc : op[p] \in Lookups /\ pc[p] # "done"
                              /\ (obj[p] \in UNION S \/ held[p] # None)}
Disturb(S) == upset' = [p \in Proc |-> upset[p] \/ p \in Reading(S)]

\* What a lookup that starts now must find unless something takes it away: an
\* object in a pack whose publication is complete, a loose one, or one in an
\* alternate whose AddAlternate has returned.  A pack the index has and the disk
\* or the cached listing lacks hides the other copies: reads do not fall back.
\* DeltaObject never asks the alternates, nor does HasEncodedObject under
\* ExclusiveAccess.
Known(f, o) ==
    /\ \A k \in IF index = None THEN {} ELSE index :
          o \in k => k \in files \cap Catalog
    /\ \/ InSome(o, published)
       \/ o \in loose /\ (exclusive => o \in ObjectList)
       \/ /\ o \in AltObjects /\ \A q \in Proc : pc[q] # "resetAlts"
          /\ f # "delta" /\ (exclusive => f # "has")

\* Objects that come to exist while a lookup runs: it may find them.
Appear(S) == avail' = [p \in Proc |-> avail[p] \/ obj[p] \in S]

-----------------------------------------------------------------------------
(* Calls.                                                                   *)

Call(p, o, stage) ==
    /\ pc[p] = "idle" /\ o \in Op /\ calls > 0
    /\ calls' = calls - 1
    /\ op' = [op EXCEPT ![p] = o]
    /\ GoTo(p, stage)

Lookup(p, o, x) ==
    /\ o \in Lookups /\ Call(p, o, IF o = "delta" THEN "loose" ELSE "index")
    /\ obj' = [obj EXCEPT ![p] = x]
    /\ steady' = [steady EXCEPT ![p] = Known(o, x)]
    /\ avail' = [avail EXCEPT ![p] = \/ x \in Stored \cup AltObjects
                                     \/ index # None /\ InSome(x, index)]
    /\ UNCHANGED <<external, exclusive, disk, memory, locks, caches, pack, snap,
                   todo, idxErr, held, res, upset, published, overlap>>

\* SetEncodedObject, RawObjectWriter, LazyWriter: NewObject drops the listing
\* before the object is there.
Commit(p, x) ==
    /\ Call(p, "commit", "saveObject")
    /\ obj' = [obj EXCEPT ![p] = x]
    /\ objList' = None
    /\ UNCHANGED <<external, exclusive, disk, memory, locks, packList, handles, alts,
                   pack, snap, todo, idxErr, held, res, history>>

Fetch(p, k) ==
    /\ Call(p, "fetch", "index")
    /\ pack' = [pack EXCEPT ![p] = k]
    /\ overlap' = (overlap \/ \E q \in Proc : op[q] = "repack")
    /\ UNCHANGED <<external, exclusive, disk, memory, locks, caches, obj, snap, todo,
                   idxErr, held, res, steady, upset, avail, published>>

\* RepackObjects lists the packs it will delete, then walks the references.
Repack(p) ==
    /\ Call(p, "repack", "walk")
    /\ todo' = [todo EXCEPT ![p] = Catalog]
    /\ GenPackList
    /\ overlap' = (overlap \/ \E q \in Proc : op[q] \in Writes)
    /\ UNCHANGED <<external, exclusive, disk, memory, locks, objList, handles, alts,
                   obj, pack, snap, idxErr, held, res, steady, upset, avail,
                   published>>

Reindex(p) ==
    /\ Call(p, "reindex", "index")
    /\ UNCHANGED <<external, exclusive, disk, memory, locks, caches, obj, pack, snap,
                   todo, idxErr, held, res, history>>

Iterate(p) ==
    /\ Call(p, "iter", "index")
    /\ UNCHANGED <<external, exclusive, disk, memory, locks, caches, obj, pack, snap,
                   todo, idxErr, held, res, history>>

\* Storage.AddAlternate: append to the file, then resetAlternates.
AddAlternate(p) ==
    /\ Call(p, "addalt", "resetAlts")
    /\ Len(altFile) < MaxAlts
    /\ altFile' = Append(altFile, AltExtra)
    /\ Appear(AltExtra)
    /\ UNCHANGED <<external, exclusive, files, loose, needed, memory, locks, caches,
                   obj, pack, snap, todo, idxErr, held, res, steady, upset,
                   published, overlap>>

ResetAlternates(p) ==
    /\ pc[p] = "resetAlts"
    /\ alts' = None
    /\ Return(p, "ok")
    /\ UNCHANGED <<bounds, exclusive, disk, memory, locks, packList, objList,
                   handles, locals, held, history>>

\* The caller has the answer; the goroutine may call again.
Finish(p) ==
    /\ pc[p] = "done"
    /\ GoTo(p, "idle")
    /\ op' = [op EXCEPT ![p] = None] /\ obj' = [obj EXCEPT ![p] = None]
    /\ pack' = [pack EXCEPT ![p] = {}] /\ snap' = [snap EXCEPT ![p] = <<>>]
    /\ todo' = [todo EXCEPT ![p] = {}] /\ idxErr' = [idxErr EXCEPT ![p] = FALSE]
    /\ held' = [held EXCEPT ![p] = None] /\ res' = [res EXCEPT ![p] = None]
    /\ steady' = [steady EXCEPT ![p] = FALSE] /\ upset' = [upset EXCEPT ![p] = FALSE]
    /\ avail' = [avail EXCEPT ![p] = FALSE]
    /\ UNCHANGED <<bounds, exclusive, disk, memory, locks, caches, published,
                   overlap>>

-----------------------------------------------------------------------------
(* requireIndex and Reindex.                                                *)

Key(p) == IF op[p] = "reindex" THEN "reindex" ELSE "populate"

AfterIndex(p) ==
    CASE op[p] \in Lookups   -> "snapshot"
      [] op[p] \in Writes    -> "newPack"
      [] op[p] = "iter"      -> "list"
      [] op[p] = "reindex"   -> "done"

\* get, has and size degrade to loose objects and alternates.
AfterIndexError(p) == IF op[p] \in {"get", "has", "size"} THEN "loose" ELSE "done"

\* The leader's outcome is the outcome of everybody who waits for the key.  The
\* packs in stale were removed while their indexes were loaded, or the cached
\* listing lacks them.
EndFlight(p, ok, stale) ==
    LET told == {q \in Proc : q = p \/ (pc[q] = "join" /\ Key(q) = Key(p))}
        next(q) == IF ok THEN AfterIndex(q) ELSE AfterIndexError(q)
    IN  /\ flight' = [flight EXCEPT ![Key(p)] = None]
        /\ pc' = [q \in Proc |-> IF q \in told THEN next(q) ELSE pc[q]]
        /\ idxErr' = [q \in Proc |-> idxErr[q] \/ (q \in told /\ ~ok)]
        /\ res' = [q \in Proc |-> IF q \in told /\ next(q) = "done"
                                  THEN IF ok THEN "ok" ELSE "error" ELSE res[q]]
        /\ upset' = [q \in Proc |-> upset[q] \/ (q \in told /\ ~ok) \/ InSome(obj[q], stale)]

IndexReady(p) ==
    /\ pc[p] = "index" /\ op[p] # "reindex" /\ index # None
    /\ GoTo(p, AfterIndex(p))
    /\ UNCHANGED <<bounds, exclusive, disk, memory, locks, caches, locals, held, res,
                   history>>

Join(p) ==
    /\ pc[p] = "index" /\ (op[p] = "reindex" \/ index = None)
    /\ flight[Key(p)] # None
    /\ GoTo(p, "join")
    /\ UNCHANGED <<bounds, exclusive, disk, memory, locks, caches, locals, held, res,
                   history>>

Lead(p) ==
    /\ pc[p] = "index" /\ (op[p] = "reindex" \/ index = None)
    /\ flight[Key(p)] = None
    /\ flight' = [flight EXCEPT ![Key(p)] = p]
    /\ GoTo(p, "recheck")
    /\ UNCHANGED <<bounds, exclusive, disk, memory, wlock, caches, locals, held, res,
                   history>>

\* "a racing winner may have already published"
Recheck(p) ==
    /\ pc[p] = "recheck"
    /\ IF op[p] = "reindex" \/ index = None
       THEN GoTo(p, "lock") /\ UNCHANGED <<flight, idxErr, res, upset>>
       ELSE EndFlight(p, TRUE, {})
    /\ UNCHANGED <<bounds, exclusive, disk, memory, wlock, caches, op, obj, pack,
                   snap, todo, held, steady, avail, published, overlap>>

\* Fault: a rescan does not wait for the other writers of the index.
UnlockedLockWriters(p) ==
    /\ pc[p] = "lock"
    /\ GoTo(p, "scan")
    /\ UNCHANGED <<bounds, exclusive, disk, memory, locks, caches, locals, held, res,
                   history>>

LockWriters(p) ==
    /\ pc[p] = "lock" /\ wlock = None
    /\ wlock' = p
    /\ GoTo(p, "scan")
    /\ UNCHANGED <<bounds, exclusive, disk, memory, flight, caches, locals, held,
                   res, history>>

\* populateIndex: list the packs, then load their indexes.
ScanPacks(p) ==
    /\ pc[p] = "scan"
    /\ snap' = [snap EXCEPT ![p] = SetToSeq(Catalog)]
    /\ GenPackList
    /\ GoTo(p, "load")
    /\ UNCHANGED <<bounds, exclusive, disk, memory, locks, objList, handles, alts,
                   op, obj, pack, todo, idxErr, held, res, history>>

LoadIndexes(p) ==
    /\ pc[p] = "load" /\ Range(snap[p]) \subseteq files
    /\ GoTo(p, "publish")
    /\ UNCHANGED <<bounds, exclusive, disk, memory, locks, caches, locals, held, res,
                   history>>

\* Fault: the error path forgets muIWriters.
LockedLoadFails(p) ==
    /\ pc[p] = "load"
    /\ EndFlight(p, FALSE, {})
    /\ UNCHANGED <<bounds, exclusive, disk, memory, wlock, caches, op, obj, pack,
                   snap, todo, held, steady, avail, published, overlap>>

\* A damaged .idx, an I/O error, or a pack that is gone since the listing.
LoadFails(p) ==
    /\ pc[p] = "load"
    /\ wlock' = None
    /\ EndFlight(p, FALSE, {})
    /\ UNCHANGED <<bounds, exclusive, disk, memory, caches, op, obj, pack, snap,
                   todo, held, steady, avail, published, overlap>>

\* A cold load yields to an index published meanwhile; Reindex replaces it.
Publish(p) ==
    /\ pc[p] = "publish"
    /\ IF op[p] = "reindex" \/ index = None
       THEN /\ index' = Range(snap[p]) /\ packs' = snap[p]
            /\ hint' = IF op[p] = "reindex" THEN 0 ELSE hint
       ELSE UNCHANGED memory
    /\ wlock' = None
    /\ EndFlight(p, TRUE, Range(snap[p]) \ (files \cap Catalog))
    /\ Appear(UNION Range(snap[p]))
    /\ UNCHANGED <<bounds, exclusive, disk, caches, op, obj, pack, snap, todo, held,
                   steady, published, overlap>>

-----------------------------------------------------------------------------
(* Lookups.                                                                 *)

\* findObjectInPackfile takes packs under the read lock and releases it.
Snapshot(p) ==
    /\ pc[p] = "snapshot"
    /\ snap' = [snap EXCEPT ![p] = packs]
    /\ GoTo(p, "probe")
    /\ UNCHANGED <<bounds, exclusive, disk, memory, locks, caches, op, obj, pack,
                   todo, idxErr, held, res, history>>

\* The pack of the last hit is tried first, then the others in order.  The
\* index of a pack that was removed may answer (an open descriptor) or not.
Hits(p, answers) ==
    {i \in DOMAIN snap[p] : obj[p] \in snap[p][i] /\ snap[p][i] \in files \cup answers}

ProbeHit(p) == \E answers \in SUBSET (Range(snap[p]) \ files) :
    LET hits == Hits(p, answers)
        hit  == IF hint \in hits THEN hint ELSE Min(hits)
    IN  /\ pc[p] = "probe" /\ hits # {}
        /\ hint' = hit
        /\ pack' = [pack EXCEPT ![p] = snap[p][hit]]
        /\ IF op[p] = "has" THEN Return(p, "found")
           ELSE GoTo(p, "route") /\ UNCHANGED res
        /\ UNCHANGED <<bounds, exclusive, disk, index, packs, locks, caches, op, obj,
                       snap, todo, idxErr, held, history>>

ProbeMiss(p) == \E answers \in SUBSET (Range(snap[p]) \ files) :
    /\ pc[p] = "probe" /\ Hits(p, answers) = {}
    /\ IF op[p] = "delta" THEN Return(p, "missing")
       ELSE GoTo(p, "loose") /\ UNCHANGED res
    /\ UNCHANGED <<bounds, exclusive, disk, memory, locks, caches, locals, held,
                   history>>

\* The shared object cache, asked only after the index claimed the object.
CacheHit(p) ==
    /\ pc[p] = "route" /\ op[p] \in {"get", "size"}
    /\ Return(p, "found")
    /\ UNCHANGED <<bounds, exclusive, disk, memory, locks, caches, locals, held,
                   history>>

\* PackHandle: an existing handle, or a new one for a pack the listing has.
GetHandle(p) ==
    /\ pc[p] = "route"
    /\ IF pack[p] \in handles \/ ~exclusive \/ pack[p] \in Catalog
       THEN /\ handles' = handles \cup {pack[p]}
            /\ held' = [held EXCEPT ![p] = "open"]
            /\ GoTo(p, "open") /\ UNCHANGED res
       ELSE Return(p, "error") /\ UNCHANGED <<handles, held>>
    /\ IF pack[p] \in handles THEN UNCHANGED packList ELSE GenPackList
    /\ UNCHANGED <<bounds, exclusive, disk, memory, locks, objList, alts, locals,
                   history>>

\* OpenPackReader.  A pack that was removed can be open already.
OpenPack(p) ==
    /\ pc[p] = "open"
    /\ \/ held[p] = "open" /\ GoTo(p, "read") /\ UNCHANGED res
       \/ (held[p] = "closed" \/ pack[p] \notin files) /\ Return(p, "error")
    /\ UNCHANGED <<bounds, exclusive, disk, memory, locks, caches, locals, held,
                   history>>

\* cursorReader.Read checks on every call whether the handle was closed.
ReadPack(p) ==
    /\ pc[p] = "read"
    /\ IF held[p] = "closed" THEN Return(p, "error")
       ELSE IF op[p] = "iter" THEN GoTo(p, "install") /\ UNCHANGED res
       ELSE Return(p, "found")
    /\ UNCHANGED <<bounds, exclusive, disk, memory, locks, caches, locals, held,
                   history>>

\* Object or ObjectStat.  Under ExclusiveAccess an object the listing lacks is
\* ErrObjectNotFound rather than a missing file: has returns it at once.
LooseHit(p) ==
    /\ pc[p] = "loose"
    /\ (exclusive => obj[p] \in ObjectList) /\ obj[p] \in loose
    /\ GenObjectList
    /\ Return(p, "found")
    /\ UNCHANGED <<bounds, exclusive, disk, memory, locks, packList, handles, alts,
                   locals, held, history>>

LooseMiss(p) ==
    /\ pc[p] = "loose"
    /\ (exclusive /\ obj[p] \notin ObjectList) \/ obj[p] \notin loose
    /\ GenObjectList
    /\ IF op[p] = "delta" THEN GoTo(p, "index") /\ UNCHANGED res
       ELSE IF op[p] = "has" /\ exclusive /\ obj[p] \notin ObjectList
            THEN Return(p, "missing")
       ELSE IF op[p] \in {"has", "size"} /\ idxErr[p] THEN Return(p, "error")
       ELSE GoTo(p, "alternates") /\ UNCHANGED res
    /\ UNCHANGED <<bounds, exclusive, disk, memory, locks, packList, handles, alts,
                   locals, held, history>>

\* genObjectList: a directory that cannot be read ends the listing, and the part
\* that was listed stays: it is the listing of the calls that follow.
ListFails(p) ==
    /\ pc[p] = "loose" /\ exclusive /\ objList = None
    /\ \E part \in SUBSET loose :
          /\ objList' = part
          /\ upset' = [q \in Proc |-> upset[q] \/ q = p \/ q \in Reading({loose \ part})]
    /\ Return(p, "error")
    /\ UNCHANGED <<bounds, exclusive, disk, memory, locks, packList, handles, alts,
                   locals, held, steady, avail, published, overlap>>

\* Fault: without alternates the zero value is a success too.
EmptyInAlternates(p, list, bad) ==
    LET holders == {i \in DOMAIN list \ bad : obj[p] \in list[i]}
    IN  IF holders # {} THEN "found" ELSE IF bad # {} THEN "error" ELSE "found"

\* findInAlternates, with initAlternates: the alternates in bad fail.  With
\* several alternates and neither a hit nor an error the zero value is returned
\* without an error: has and size succeed, get sees a nil object.
InAlternates(p, list, bad) ==
    LET holders == {i \in DOMAIN list \ bad : obj[p] \in list[i]}
    IN  IF holders # {} THEN "found" ELSE IF bad # {} THEN "error"
        ELSE IF Len(list) < 2 \/ op[p] = "get" THEN "missing" ELSE "found"

FindInAlternates(p) ==
    LET list == IF alts = None THEN altFile ELSE alts
    IN  /\ pc[p] = "alternates"
        /\ alts' = list
        /\ \E bad \in SUBSET DOMAIN list :
              LET r == InAlternates(p, list, bad)
              IN  /\ Return(p, IF r = "missing" /\ idxErr[p] THEN "error" ELSE r)
                  /\ upset' = [upset EXCEPT ![p] = @ \/ bad # {}]
        /\ UNCHANGED <<bounds, exclusive, disk, memory, locks, packList, objList,
                       handles, locals, held, steady, avail, published, overlap>>


-----------------------------------------------------------------------------
(* Writing loose objects and packs.                                         *)

\* ObjectWriter.Close renames the temporary file into place.
SaveObject(p) ==
    /\ pc[p] = "saveObject"
    /\ loose' = loose \cup {obj[p]}
    /\ Appear({obj[p]})
    /\ GoTo(p, "setRef")
    /\ UNCHANGED <<bounds, exclusive, files, needed, altFile, memory, locks, caches,
                   locals, held, res, steady, upset, published, overlap>>

\* The caller points a reference at what it stored.
SetReference(p) ==
    /\ pc[p] = "setRef"
    /\ needed' = needed \cup (IF op[p] = "commit" THEN {obj[p]} ELSE pack[p])
    /\ Return(p, "ok")
    /\ UNCHANGED <<bounds, exclusive, files, loose, altFile, memory, locks, caches,
                   locals, held, history>>

\* createNewObjectPack: the objects the references reach, if they are present.
WalkAllRefs(p) ==
    /\ pc[p] = "walk"
    /\ pack' = [pack EXCEPT ![p] = needed \cap Stored]
    /\ GoTo(p, "index")
    /\ UNCHANGED <<bounds, exclusive, disk, memory, locks, caches, op, obj, snap,
                   todo, idxErr, held, res, history>>

NewObjectPack(p) ==
    /\ pc[p] = "newPack"
    /\ CleanPackList
    /\ Disturb({})
    /\ GoTo(p, "savePack")
    /\ UNCHANGED <<bounds, exclusive, disk, memory, locks, objList, alts, locals,
                   res, steady, avail, published, overlap>>

\* PackWriter.Close: a pack without objects leaves nothing behind.
SavePack(p) ==
    /\ pc[p] = "savePack"
    /\ files' = files \cup ({pack[p]} \ {{}})
    /\ Appear(pack[p])
    /\ GoTo(p, IF pack[p] # {} THEN "notify" ELSE "prune")
    /\ UNCHANGED <<bounds, exclusive, loose, needed, altFile, memory, locks, caches,
                   locals, held, res, steady, upset, published, overlap>>

\* Fault: the error of Close is dropped (#2370).
IgnoredSaveFails(p) ==
    /\ pc[p] = "savePack"
    /\ GoTo(p, IF op[p] = "repack" THEN "prune" ELSE "setRef")
    /\ UNCHANGED <<bounds, exclusive, disk, memory, locks, caches, locals, held, res,
                   history>>

SaveFails(p) ==
    /\ pc[p] = "savePack"
    /\ Return(p, "error")
    /\ UNCHANGED <<bounds, exclusive, disk, memory, locks, caches, locals, held,
                   history>>

\* Fault: the slice is not extended.
MapOnlyAddEntry(k) ==
    /\ index' = index \cup {k}
    /\ Appear(k)
    /\ UNCHANGED packs

AddEntry(k) ==
    /\ packs' = IF k \in index THEN packs ELSE Append(packs, k)
    /\ index' = index \cup {k}
    /\ Appear(k)

\* PackWriter.Notify, called once the files of the pack are in place.  Under
\* ExclusiveAccess a listing made since NewObjectPack lacks the pack.
Notify(p) ==
    /\ pc[p] = "notify" /\ wlock = None
    /\ AddEntry(pack[p])
    /\ published' = published \cup ({pack[p]} \cap files \cap Catalog)
    /\ GoTo(p, IF op[p] = "fetch" THEN "setRef" ELSE "prune")
    /\ Disturb({pack[p]} \ (files \cap Catalog))
    /\ UNCHANGED <<bounds, exclusive, disk, hint, locks, caches, locals, held, res,
                   steady, overlap>>

\* The loose copies of what was packed go; ObjectDelete drops the listing.
PruneLoose(p) ==
    /\ pc[p] = "prune"
    /\ loose' = loose \ pack[p]
    /\ objList' = IF loose \cap pack[p] = {} THEN objList ELSE None
    /\ Disturb({loose \cap pack[p]})
    /\ GoTo(p, "deleteNext")
    /\ UNCHANGED <<bounds, exclusive, files, needed, altFile, memory, locks,
                   packList, handles, alts, locals, held, res, steady, avail,
                   published, overlap>>

-----------------------------------------------------------------------------
(* DeleteOldObjectPackAndIndex, for each pack of the first listing.         *)

\* The pack under deletion is the last element of snap[p].
Victim(p) == Last(snap[p])

LockDelete(p) ==
    /\ pc[p] = "deleteNext" /\ wlock = None
    /\ \E k \in todo[p] \ {pack[p]} :
          /\ snap' = [snap EXCEPT ![p] = <<k>>]
          /\ todo' = [todo EXCEPT ![p] = @ \ {k}]
    /\ wlock' = p
    /\ GoTo(p, "delete")
    /\ UNCHANGED <<bounds, exclusive, disk, memory, flight, caches, op, obj, pack,
                   idxErr, held, res, history>>

DeleteDone(p) ==
    /\ pc[p] = "deleteNext" /\ todo[p] \subseteq {pack[p]}
    /\ Return(p, "ok")
    /\ UNCHANGED <<bounds, exclusive, disk, memory, locks, caches, locals, held,
                   history>>

\* DotGit drops the listing and the handles first, then the files.  A pack that
\* is gone already is an error; a failing removal may still take the pack away.
\* On an error the entry stays.
DeletePack(p) ==
    /\ pc[p] = "delete"
    /\ CleanPackList
    /\ GoTo(p, "unlink")
    /\ Disturb({})
    /\ UNCHANGED <<bounds, exclusive, disk, memory, locks, objList, alts, locals,
                   res, steady, avail, published, overlap>>

Unlink(p) ==
    /\ pc[p] = "unlink" /\ Victim(p) \in files
    /\ files' = files \ {Victim(p)}
    /\ published' = published \ {Victim(p)}
    /\ CloseHandles({Victim(p)}) /\ Disturb({Victim(p)})
    /\ GoTo(p, "drop")
    /\ UNCHANGED <<bounds, exclusive, loose, needed, altFile, memory, locks,
                   packList, objList, alts, locals, res, steady, avail, overlap>>

\* OnlyDeletePacksOlderThan spares the pack.
TooNew(p) ==
    /\ pc[p] = "unlink" /\ Victim(p) \in files
    /\ GoTo(p, "drop")
    /\ UNCHANGED <<bounds, exclusive, disk, memory, locks, caches, locals, held, res,
                   history>>

UnlinkFails(p) ==
    /\ pc[p] = "unlink"
    /\ \E gone \in {{}, {Victim(p)}} :
          /\ files' = files \ gone /\ published' = published \ gone
          /\ Disturb(gone)
    /\ wlock' = None
    /\ Return(p, "error")
    /\ UNCHANGED <<bounds, exclusive, loose, needed, altFile, memory, flight, caches,
                   locals, held, steady, avail, overlap>>

\* The entry goes unless the pack is still listed; the hint goes with it.
DropEntry(p) ==
    /\ pc[p] = "drop"
    /\ GenPackList
    /\ IF Victim(p) \in Catalog \/ Victim(p) \notin index THEN UNCHANGED memory
       ELSE /\ index' = index \ {Victim(p)}
            /\ packs' = RemoveFirst(packs, Victim(p))
            /\ hint' = IF hint # 0 /\ hint <= Len(packs) /\ packs[hint] = Victim(p)
                       THEN 0 ELSE hint
    /\ wlock' = None
    /\ GoTo(p, "deleteNext")
    /\ UNCHANGED <<bounds, exclusive, disk, flight, objList, handles, alts, locals,
                   held, res, history>>

-----------------------------------------------------------------------------
(* IterEncodedObjects: packs it meets that the index lacks are installed.   *)

ListPacks(p) ==
    /\ pc[p] = "list"
    /\ todo' = [todo EXCEPT ![p] = Catalog]
    /\ GenPackList
    /\ GoTo(p, "nextPack")
    /\ UNCHANGED <<bounds, exclusive, disk, memory, locks, objList, handles, alts,
                   op, obj, pack, snap, idxErr, held, res, history>>

NextPack(p) ==
    /\ pc[p] = "nextPack"
    /\ \/ \E k \in todo[p] :
             /\ pack' = [pack EXCEPT ![p] = k] /\ todo' = [todo EXCEPT ![p] = @ \ {k}]
             /\ GoTo(p, "route") /\ UNCHANGED res
       \/ todo[p] = {} /\ Return(p, "ok") /\ UNCHANGED <<pack, todo>>
    /\ UNCHANGED <<bounds, exclusive, disk, memory, locks, caches, op, obj, snap,
                   idxErr, held, history>>

InstallKnown(p) ==
    /\ pc[p] = "install" /\ pack[p] \in index
    /\ GoTo(p, "nextPack")
    /\ UNCHANGED <<bounds, exclusive, disk, memory, locks, caches, locals, held, res,
                   history>>

InstallLock(p) ==
    /\ pc[p] = "install" /\ pack[p] \notin index /\ wlock = None
    /\ wlock' = p
    /\ GoTo(p, "installIdx")
    /\ UNCHANGED <<bounds, exclusive, disk, memory, flight, caches, locals, held,
                   res, history>>

InstallIdx(p) ==
    /\ pc[p] = "installIdx"
    /\ \/ /\ AddEntry(pack[p]) /\ pack[p] \in index \cup files
          /\ Disturb({pack[p]} \ (files \cap Catalog))
          /\ GoTo(p, "nextPack") /\ UNCHANGED res
       \/ /\ pack[p] \notin index
          /\ Return(p, "error") /\ UNCHANGED <<index, packs, avail, upset>>
    /\ wlock' = None
    /\ UNCHANGED <<bounds, exclusive, disk, hint, flight, caches, locals, held,
                   steady, published, overlap>>

-----------------------------------------------------------------------------
(* Other processes, which ExclusiveAccess rules out.                        *)

ExternalAdd(k) ==
    /\ ~exclusive /\ external > 0 /\ external' = external - 1
    /\ k \notin files
    /\ files' = files \cup {k}
    /\ Appear(k)
    /\ UNCHANGED <<calls, exclusive, loose, needed, altFile, memory, locks, caches,
                   pc, locals, held, res, steady, upset, published, overlap>>

\* Another process repacks: what the references reach stays stored.
ExternalRemove(k) ==
    /\ ~exclusive /\ external > 0 /\ external' = external - 1
    /\ k \in files
    /\ \A p \in Proc : op[p] \notin Writes
    /\ needed \subseteq loose \cup UNION (files \ {k})
    /\ files' = files \ {k} /\ published' = published \ {k}
    /\ Disturb({k})
    /\ UNCHANGED <<calls, exclusive, loose, needed, altFile, memory, locks, caches,
                   pc, locals, held, res, steady, avail, overlap>>

-----------------------------------------------------------------------------

Start(p) ==
    \/ \E o \in Lookups, x \in Object : Lookup(p, o, x)
    \/ \E x \in Object : Commit(p, x)
    \/ \E k \in Packs : Fetch(p, k)
    \/ Repack(p) \/ Reindex(p) \/ Iterate(p) \/ AddAlternate(p)

Step(p) ==
    \/ Finish(p) \/ ResetAlternates(p)
    \/ IndexReady(p) \/ Join(p) \/ Lead(p) \/ Recheck(p)
    \/ LockWriters(p) \/ ScanPacks(p) \/ LoadIndexes(p) \/ LoadFails(p) \/ Publish(p)
    \/ Snapshot(p) \/ ProbeHit(p) \/ ProbeMiss(p)
    \/ CacheHit(p) \/ GetHandle(p) \/ OpenPack(p) \/ ReadPack(p)
    \/ LooseHit(p) \/ LooseMiss(p) \/ ListFails(p) \/ FindInAlternates(p)
    \/ SaveObject(p) \/ SetReference(p) \/ WalkAllRefs(p)
    \/ NewObjectPack(p) \/ SavePack(p) \/ SaveFails(p) \/ Notify(p) \/ PruneLoose(p)
    \/ LockDelete(p) \/ DeleteDone(p) \/ DeletePack(p) \/ Unlink(p) \/ TooNew(p)
    \/ UnlinkFails(p) \/ DropEntry(p)
    \/ ListPacks(p) \/ NextPack(p) \/ InstallKnown(p) \/ InstallLock(p) \/ InstallIdx(p)

\* All calls are over.
Quiet ==
    /\ calls = 0 /\ \A p \in Proc : pc[p] = "idle"
    /\ UNCHANGED vars

\* Under ExclusiveAccess p moves only while the others are outside the storage:
\* between calls, with a writer open, or in RepackObjects' and the iterator's
\* callers.
Outside == {"idle", "done", "walk", "saveObject", "savePack", "setRef", "prune",
            "deleteNext", "nextPack"}
Turn(p) == exclusive => \A q \in Proc \ {p} : pc[q] \in Outside

Next ==
    \/ \E p \in Proc : Turn(p) /\ (Start(p) \/ Step(p))
    \/ \E k \in Packs : ExternalAdd(k) \/ ExternalRemove(k)
    \/ Quiet

Spec == Init /\ [][Next]_vars

-----------------------------------------------------------------------------
(* Properties.                                                              *)

\* Every variable has its type.
TypeOK ==
    /\ exclusive \in BOOLEAN /\ files \subseteq Pack /\ loose \subseteq Object
    /\ index = None \/ index \subseteq Pack
    /\ packs \in Seq(Pack) /\ hint \in Nat
    /\ wlock \in Proc \cup {None}
    /\ packList = None \/ packList \subseteq Pack
    /\ handles \subseteq Pack
    /\ res \in [Proc -> {None, "found", "missing", "ok", "error"}]

\* A lookup finds an object that was stored when it started, whatever loads,
\* rescans, publications and deletions of packs run meanwhile, unless one of
\* them took that copy away or closed the handle it read through.  Under
\* ExclusiveAccess this is about calls that take turns.
PresentIsFound == \A p \in Proc :
    op[p] \in Lookups /\ pc[p] = "done" /\ steady[p] /\ ~upset[p] => res[p] = "found"

\* A lookup never reports an object that was nowhere during the call; only with
\* several alternates HasEncodedObject and EncodedObjectSize do.
AbsentIsNotFound == \A p \in Proc :
    res[p] = "found" /\ ~avail[p] => op[p] \in {"has", "size"} /\ Len(altFile) > 1

\* The same without the exception, as storer.EncodedObjectStorer documents it.
HasIsExact == \A p \in Proc : res[p] = "found" => avail[p]

\* "a Reindex can't undo a concurrent change": a published pack stays in the
\* loaded index until it is deleted.  Under ExclusiveAccess this is about calls
\* that take turns.
IndexKeepsPacks == index # None => published \subseteq index

\* The packs slice mirrors the index map and holds no pack twice.
IndexMirrorsPacks ==
    /\ index # None => Range(packs) = index /\ Len(packs) = Cardinality(index)
    /\ index = None => packs = <<>>

\* RepackObjects removes a pack only when everything the references reach is
\* stored elsewhere, as long as no fetch overlaps it.
NothingLost == ~overlap => needed \subseteq Stored

\* Every error path gives back what it holds: muIWriters and the singleflight
\* keys belong to goroutines inside the section they guard, so nobody waits for
\* a lock whose holder has returned.
LocksAreReleased ==
    /\ wlock # None => pc[wlock] \in {"scan", "load", "publish", "delete", "unlink",
                                      "drop", "installIdx"}
    /\ \A k \in DOMAIN flight : flight[k] # None =>
          /\ Key(flight[k]) = k
          /\ pc[flight[k]] \in {"recheck", "lock", "scan", "load", "publish"}
    /\ \A p \in Proc : pc[p] = "join" => flight[Key(p)] # None

\* Under ExclusiveAccess "the result is cached until the pack set changes": with
\* no pack being written or deleted the cached listing is the directory.
CachedListingIsCurrent ==
    exclusive /\ packList # None /\ (\A p \in Proc : op[p] \notin Writes)
        => packList = files
=============================================================================
