------------------------------ MODULE Listings ------------------------------
(***************************************************************************)
(* The listings DotGit caches under ExclusiveAccess                         *)
(* (storage/filesystem/dotgit/dotgit.go): packBases and packList, made by   *)
(* genPackList and dropped by cleanPackList, and objectMap, made by         *)
(* genObjectList and dropped by cleanObjectList.  No mutex guards them.     *)
(* Goroutines list and open packs, open loose objects, and add and delete   *)
(* both.                                                                    *)
(*                                                                          *)
(* Every read and every write of a cache is one step, and so is every       *)
(* directory that is read; the writes of one goroutine are seen in program  *)
(* order.  A nil packList reads as an empty one.                            *)
(***************************************************************************)
EXTENDS Naturals, FiniteSets, TLC

CONSTANTS
    Proc,      \* goroutines
    Pack,      \* packs
    Object,    \* loose objects, each in a directory of its own
    MaxCalls,  \* bound: calls of the goroutines together
    Nil        \* a nil map

ASSUME ListingsAssumption ==
    /\ IsFiniteSet(Proc) /\ Pack \cap Object = {}
    /\ MaxCalls \in Nat
    /\ \A S \in SUBSET (Pack \cup Object) : S # Nil

VARIABLES
    disk,       \* the packs and the loose objects that are there
    packBases,  \* DotGit.packBases
    packList,   \* DotGit.packList
    objectMap,  \* DotGit.objectMap
    pc, op,     \* where a goroutine is and in which call
    arg,        \* what it asks for, adds or deletes
    scan,       \* the packs it has listed, or the directories it has yet to read
    ans,        \* what it got, Nil for an error or a panic
    due,        \* history: what it asks for and was there all the time
    seen,       \* history: what it asks for and was there at some time
    spoiled,    \* history: listings that a clean and a listing overlapped on
    trust,      \* history: nothing of the kind touched the call
    calls       \* calls left

caches  == <<packBases, packList, objectMap>>
history == <<due, seen, spoiled, trust>>
vars    == <<disk, caches, pc, op, arg, scan, ans, history, calls>>

Reads   == {"catalog", "open", "object"}
Changes == {"newPack", "deletePack", "newObject", "deleteObject"}

\* The listing a call works on.
Listing(o) == IF o \in {"object", "newObject", "deleteObject"} THEN "objects" ELSE "packs"

\* Goroutines that have begun to use a listing, and those that have begun to drop
\* it and have yet to change the directory.
Using(l) == {q \in Proc : Listing(op[q]) = l
                /\ pc[q] \in {"scan", "storeList", "storeBases", "read", "make", "list",
                              "fill", "look"}}
Changing(l) == {q \in Proc : Listing(op[q]) = l /\ pc[q] \in {"dropList", "change"}}
Filling == {q \in Proc : pc[q] \in {"list", "fill"}}

Init ==
    /\ disk \in SUBSET (Pack \cup Object)
    /\ packBases = Nil /\ packList = {} /\ objectMap = Nil
    /\ pc = [p \in Proc |-> "idle"] /\ op = [p \in Proc |-> "catalog"]
    /\ arg = [p \in Proc |-> {}] /\ scan = [p \in Proc |-> {}]
    /\ ans = [p \in Proc |-> {}]
    /\ due = [p \in Proc |-> {}] /\ seen = [p \in Proc |-> {}]
    /\ spoiled = {} /\ trust = [p \in Proc |-> FALSE] /\ calls = MaxCalls

GoTo(p, stage) == pc' = [pc EXCEPT ![p] = stage]

\* Marks the listing l when some of S are at it.
Spoil(l, S) == spoiled' = IF S = {} THEN spoiled ELSE spoiled \cup {l}

Call(p, o, S) ==
    /\ pc[p] = "idle" /\ calls > 0
    /\ calls' = calls - 1
    /\ op' = [op EXCEPT ![p] = o] /\ arg' = [arg EXCEPT ![p] = S]
    /\ due' = [due EXCEPT ![p] = S \cap disk] /\ seen' = [seen EXCEPT ![p] = S \cap disk]
    /\ GoTo(p, IF o \in Reads THEN "check" ELSE "clean")
    /\ UNCHANGED <<disk, caches, scan, ans, spoiled, trust>>

\* ObjectPacks, cachedPackBase, Object, NewObjectPack, DeleteOldObjectPackAndIndex,
\* NewObject and ObjectDelete.
Start(p) ==
    \/ Call(p, "catalog", Pack)
    \/ \E k \in Pack, o \in {"open", "newPack", "deletePack"} : Call(p, o, {k})
    \/ \E x \in Object, o \in {"object", "newObject", "deleteObject"} : Call(p, o, {x})

Done(p, S) ==
    /\ GoTo(p, "done")
    /\ ans' = [ans EXCEPT ![p] = S]
    /\ UNCHANGED <<op, arg, scan, due, seen, calls>>

Finish(p) ==
    /\ pc[p] = "done"
    /\ GoTo(p, "idle")
    /\ op' = [op EXCEPT ![p] = "catalog"]
    /\ arg' = [arg EXCEPT ![p] = {}] /\ scan' = [scan EXCEPT ![p] = {}]
    /\ ans' = [ans EXCEPT ![p] = {}] /\ trust' = [trust EXCEPT ![p] = FALSE]
    /\ due' = [due EXCEPT ![p] = {}] /\ seen' = [seen EXCEPT ![p] = {}]
    /\ UNCHANGED <<disk, caches, spoiled, calls>>

-----------------------------------------------------------------------------
(* genPackList, and the read that follows it.                               *)

CheckPacks(p) ==
    /\ pc[p] = "check" /\ Listing(op[p]) = "packs"
    /\ GoTo(p, IF packBases = Nil THEN "scan" ELSE "read")
    /\ Spoil("packs", Changing("packs"))
    /\ UNCHANGED <<disk, caches, op, arg, scan, ans, due, seen, trust, calls>>

ScanPacks(p) ==
    /\ pc[p] = "scan"
    /\ scan' = [scan EXCEPT ![p] = disk \cap Pack]
    /\ GoTo(p, "storeList")
    /\ UNCHANGED <<disk, caches, op, arg, ans, history, calls>>

ScanFails(p) ==
    /\ pc[p] = "scan"
    /\ Done(p, Nil)
    /\ UNCHANGED <<disk, caches, spoiled, trust>>

\* Fault: packBases, which the others test, is set before packList.
BasesFirst(p) ==
    /\ pc[p] = "storeList"
    /\ packBases' = scan[p]
    /\ GoTo(p, "storeBases")
    /\ UNCHANGED <<disk, packList, objectMap, op, arg, scan, ans, history, calls>>

StoreList(p) ==
    /\ pc[p] = "storeList"
    /\ packList' = scan[p]
    /\ GoTo(p, "storeBases")
    /\ UNCHANGED <<disk, packBases, objectMap, op, arg, scan, ans, history, calls>>

StoreBases(p) ==
    /\ pc[p] = "storeBases"
    /\ packBases' = scan[p]
    /\ GoTo(p, "read")
    /\ UNCHANGED <<disk, packList, objectMap, op, arg, scan, ans, history, calls>>

\* Fault: a pack that is not listed is taken to be stored as pack-<hash>.
UnlistedReadPacks(p) ==
    /\ pc[p] = "read"
    /\ Done(p, IF op[p] = "catalog" THEN packList ELSE arg[p])
    /\ trust' = [trust EXCEPT ![p] = "packs" \notin spoiled]
    /\ UNCHANGED <<disk, caches, spoiled>>

\* packCatalog returns packList; cachedPackBase looks the pack up in packBases.
ReadPacks(p) ==
    LET got == IF op[p] = "catalog" THEN packList
               ELSE IF packBases = Nil THEN {} ELSE packBases
    IN  /\ pc[p] = "read"
        /\ Done(p, arg[p] \cap got)
        /\ trust' = [trust EXCEPT ![p] = "packs" \notin spoiled]
        /\ UNCHANGED <<disk, caches, spoiled>>

-----------------------------------------------------------------------------
(* genObjectList, and the read that follows it.                             *)

CheckObjects(p) ==
    /\ pc[p] = "check" /\ Listing(op[p]) = "objects"
    /\ GoTo(p, IF objectMap = Nil THEN "make" ELSE "look")
    /\ Spoil("objects", Changing("objects"))
    /\ UNCHANGED <<disk, caches, op, arg, scan, ans, due, seen, trust, calls>>

MakeMap(p) ==
    /\ pc[p] = "make"
    /\ objectMap' = {}
    /\ GoTo(p, "list")
    /\ UNCHANGED <<disk, packBases, packList, op, arg, scan, ans, history, calls>>

\* forEachObjectHash: the directories under objects/, some of them empty.
ListDirectories(p) ==
    /\ pc[p] = "list"
    /\ \E dirs \in SUBSET Object :
          /\ disk \cap Object \subseteq dirs
          /\ scan' = [scan EXCEPT ![p] = dirs]
    /\ GoTo(p, "fill")
    /\ UNCHANGED <<disk, caches, op, arg, ans, history, calls>>

Fill(p) == \E x \in scan[p] :
    /\ pc[p] = "fill" /\ (x \in disk => objectMap # Nil)
    /\ scan' = [scan EXCEPT ![p] = @ \ {x}]
    /\ objectMap' = IF x \in disk THEN objectMap \cup {x} ELSE objectMap
    /\ UNCHANGED <<disk, packBases, packList, pc, op, arg, ans, history, calls>>

\* An assignment to a nil map, or one the runtime finds another map access at.
FillPanics(p) ==
    /\ pc[p] = "fill" /\ scan[p] \cap disk # {}
    /\ objectMap = Nil \/ \E q \in Proc \ {p} : pc[q] \in {"fill", "look"}
    /\ Done(p, Nil)
    /\ spoiled' = spoiled \cup {"objects"}
    /\ UNCHANGED <<disk, caches, trust>>

\* A directory that cannot be read: the map stays as it is.
ListFails(p) ==
    /\ pc[p] \in {"list", "fill"}
    /\ Done(p, Nil)
    /\ spoiled' = spoiled \cup {"objects"}
    /\ UNCHANGED <<disk, caches, trust>>

Filled(p) ==
    /\ pc[p] = "fill" /\ scan[p] = {}
    /\ GoTo(p, "look")
    /\ UNCHANGED <<disk, caches, op, arg, scan, ans, history, calls>>

\* hasObject.  A nil map has nothing.
Look(p) ==
    /\ pc[p] = "look"
    /\ IF objectMap # Nil /\ arg[p] \subseteq objectMap
       THEN GoTo(p, "openObject") /\ UNCHANGED <<op, arg, scan, ans, due, seen, calls>>
       ELSE Done(p, {})
    /\ trust' = [trust EXCEPT ![p] = "objects" \notin spoiled /\ Filling = {}]
    /\ UNCHANGED <<disk, caches, spoiled>>

OpenObject(p) ==
    /\ pc[p] = "openObject"
    /\ Done(p, arg[p] \cap disk)
    /\ UNCHANGED <<disk, caches, spoiled, trust>>

-----------------------------------------------------------------------------
(* Changes drop the listing first.                                          *)

\* cleanPackList
DropBases(p) ==
    /\ pc[p] = "clean" /\ Listing(op[p]) = "packs"
    /\ packBases' = Nil
    /\ Spoil("packs", Using("packs"))
    /\ GoTo(p, "dropList")
    /\ UNCHANGED <<disk, packList, objectMap, op, arg, scan, ans, due, seen, trust, calls>>

\* A clean that nothing overlaps mends the listing.
DropList(p) ==
    /\ pc[p] = "dropList"
    /\ packList' = {}
    /\ spoiled' = IF packBases = Nil /\ Using("packs") = {}
                  THEN spoiled \ {"packs"} ELSE spoiled \cup {"packs"}
    /\ GoTo(p, "change")
    /\ UNCHANGED <<disk, packBases, objectMap, op, arg, scan, ans, due, seen, trust, calls>>

\* cleanObjectList
CleanObjectList(p) ==
    /\ pc[p] = "clean" /\ Listing(op[p]) = "objects"
    /\ objectMap' = Nil
    /\ spoiled' = IF Using("objects") = {}
                  THEN spoiled \ {"objects"} ELSE spoiled \cup {"objects"}
    /\ GoTo(p, "change")
    /\ UNCHANGED <<disk, packBases, packList, op, arg, scan, ans, due, seen, trust, calls>>

\* PackWriter.Close and ObjectWriter.Close rename into place.
Add(p) ==
    /\ pc[p] = "change" /\ op[p] \in {"newPack", "newObject"}
    /\ disk' = disk \cup arg[p]
    /\ seen' = [q \in Proc |-> IF pc[q] \in {"idle", "done"} THEN seen[q]
                               ELSE seen[q] \cup (arg[q] \cap arg[p])]
    /\ GoTo(p, "done")
    /\ UNCHANGED <<caches, op, arg, scan, ans, due, spoiled, trust, calls>>

Delete(p) ==
    /\ pc[p] = "change" /\ op[p] \in {"deletePack", "deleteObject"}
    /\ disk' = disk \ arg[p]
    /\ due' = [q \in Proc |-> IF pc[q] = "done" THEN due[q] ELSE due[q] \ arg[p]]
    /\ GoTo(p, "done")
    /\ UNCHANGED <<caches, op, arg, scan, ans, seen, spoiled, trust, calls>>

ChangeFails(p) ==
    /\ pc[p] = "change"
    /\ Done(p, Nil)
    /\ UNCHANGED <<disk, caches, spoiled, trust>>

-----------------------------------------------------------------------------

Step(p) ==
    \/ Finish(p)
    \/ CheckPacks(p) \/ ScanPacks(p) \/ ScanFails(p) \/ StoreList(p) \/ StoreBases(p)
    \/ ReadPacks(p)
    \/ CheckObjects(p) \/ MakeMap(p) \/ ListDirectories(p) \/ Fill(p) \/ FillPanics(p)
    \/ ListFails(p) \/ Filled(p) \/ Look(p) \/ OpenObject(p)
    \/ DropBases(p) \/ DropList(p) \/ CleanObjectList(p)
    \/ Add(p) \/ Delete(p) \/ ChangeFails(p)

\* All calls are over.
Quiet ==
    /\ calls = 0 /\ \A p \in Proc : pc[p] = "idle"
    /\ UNCHANGED vars

Next == (\E p \in Proc : Start(p) \/ Step(p)) \/ Quiet

Spec == Init /\ [][Next]_vars

\* For TLC: goroutines are interchangeable.
Symmetry == Permutations(Proc)

-----------------------------------------------------------------------------
(* Properties.                                                              *)

\* Every variable has its type.
TypeOK ==
    /\ disk \subseteq Pack \cup Object
    /\ packBases = Nil \/ packBases \subseteq Pack
    /\ packList \subseteq Pack
    /\ objectMap = Nil \/ objectMap \subseteq Object
    /\ spoiled \subseteq {"packs", "objects"}

\* Any number of goroutines may make the pack listing at once, and packs may come
\* and go: the two caches agree with each other and with the directory as long as
\* no clean overlapped a listing, and again after the next clean nothing overlaps.
PackListingHolds ==
    "packs" \notin spoiled /\ packBases # Nil =>
        packList = packBases /\ packBases = disk \cap Pack

\* The same of the map of loose objects, once nobody is filling it; a listing
\* that failed half way lasts until the next clean, too.
ObjectListingHolds ==
    "objects" \notin spoiled /\ Filling = {} /\ objectMap # Nil =>
        objectMap = disk \cap Object

\* Both caches hold what their directories do, as said above of each.
ListingsHold == PackListingHolds /\ ObjectListingHolds

\* A read that no clean overlapped, on a listing none spoiled before it, finds
\* what was there all the time and nothing that never was; a read of a loose
\* object also needs nobody else to be filling the map.
UndisturbedReads == \A p \in Proc :
    pc[p] = "done" /\ op[p] \in Reads /\ trust[p] =>
        due[p] \subseteq ans[p] /\ ans[p] \subseteq seen[p]

\* "Object returns a fs.File pointing the object file, if exists": an object
\* that exists during the whole call is found.
ObjectIfExists == \A p \in Proc :
    pc[p] = "done" /\ op[p] = "object" /\ ans[p] # Nil => due[p] \subseteq ans[p]

\* "ObjectPacks returns the hashes of packfiles that have corresponding index
\* files": a pack that is there during the whole call is listed.
ObjectPacksListed == \A p \in Proc :
    pc[p] = "done" /\ op[p] = "catalog" /\ ans[p] # Nil => due[p] \subseteq ans[p]
=============================================================================
