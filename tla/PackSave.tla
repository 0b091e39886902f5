------------------------------ MODULE PackSave ------------------------------
(***************************************************************************)
(* PackWriter.save (storage/filesystem/dotgit, writers.go): a finished pack *)
(* is put in objects/pack next to its index, its reverse index and, for a   *)
(* pack from a promisor remote, a marker.                                   *)
(*                                                                          *)
(* Several PackWriters may save the same pack: the file names come from its *)
(* checksum.  They share only the directory, each looks at and writes each  *)
(* file on its own, and any of them may die or fail between two steps; the  *)
(* same pack is then fetched again.                                         *)
(***************************************************************************)
EXTENDS Naturals, FiniteSets

CONSTANTS
    Writer,      \* PackWriters of one pack, in whatever processes
    WriteRev,    \* whether this repository writes reverse indexes
    MaxTries     \* bound: saves each writer may begin

ASSUME SaveAssumption ==
    /\ IsFiniteSet(Writer) /\ WriteRev \in BOOLEAN /\ MaxTries \in Nat

VARIABLES
    idx, rev, marker,  \* the sidecar files: "none", "partial", "full"
    pack,              \* the .pack file is in place
    temp,              \* the writers whose temporary file exists
    at,                \* where each writer is in Close
    promisor,          \* the writers that were given promisor contents
    found,             \* the writers that saw the .pack file in place
    placedBy,          \* history: the writers that renamed a pack into place
    alone,             \* history: the writers whose save no other save overlapped
    mixed,             \* history: a writer relied on, or truncated, another's index
    tries              \* saves each writer began

files    == <<idx, rev, marker, pack>>
history  == <<placedBy, alone>>
saveVars == <<files, temp, at, promisor, found, history, mixed, tries>>

SaveInit ==
    /\ idx = "none" /\ rev = "none" /\ marker = "none" /\ pack = FALSE
    /\ temp = {} /\ promisor = {} /\ found = {}
    /\ at = [w \in Writer |-> "idle"]
    /\ placedBy = {} /\ alone = {} /\ mixed = FALSE
    /\ tries = [w \in Writer |-> 0]

GoTo(w, stage) == at' = [at EXCEPT ![w] = stage]
Active == {w \in Writer : at[w] \notin {"idle", "saved", "failed"}}

\* Close was told by the parser that the pack is complete and calls save.
Begin(w) ==
    /\ at[w] \in {"idle", "failed"} /\ tries[w] < MaxTries
    /\ tries' = [tries EXCEPT ![w] = @ + 1]
    /\ temp' = temp \cup {w}
    /\ found' = found \ {w}
    /\ promisor' \in {promisor \cup {w}, promisor \ {w}}
    /\ GoTo(w, "idx")
    /\ alone' = IF Active = {} THEN {w} ELSE {}
    /\ UNCHANGED <<files, placedBy, mixed>>

-----------------------------------------------------------------------------
(* save, file by file.  fileExists and Create are separate system calls.    *)

NextAfterIdx == IF WriteRev THEN "rev" ELSE "pack"

\* An index that is there is taken as it is.
CheckIdx(w) ==
    /\ at[w] = "idx"
    /\ mixed' = (mixed \/ idx = "partial")
    /\ GoTo(w, IF idx = "none" THEN "createIdx" ELSE NextAfterIdx)
    /\ UNCHANGED <<files, temp, promisor, found, history, tries>>

\* Create truncates: another writer may have created the file meanwhile.
CreateIdx(w) ==
    /\ at[w] = "createIdx"
    /\ mixed' = (mixed \/ idx # "none")
    /\ idx' = "partial"
    /\ GoTo(w, "encodeIdx")
    /\ UNCHANGED <<rev, marker, pack, temp, promisor, found, history, tries>>

EncodeIdx(w) ==
    /\ at[w] = "encodeIdx"
    /\ idx' = "full"
    /\ GoTo(w, NextAfterIdx)
    /\ UNCHANGED <<rev, marker, pack, temp, promisor, found, history, mixed, tries>>

CheckRev(w) ==
    /\ at[w] = "rev"
    /\ mixed' = (mixed \/ rev = "partial")
    /\ GoTo(w, IF rev = "none" THEN "createRev" ELSE "pack")
    /\ UNCHANGED <<files, temp, promisor, found, history, tries>>

CreateRev(w) ==
    /\ at[w] = "createRev"
    /\ mixed' = (mixed \/ rev # "none")
    /\ rev' = "partial"
    /\ GoTo(w, "encodeRev")
    /\ UNCHANGED <<idx, marker, pack, temp, promisor, found, history, tries>>

EncodeRev(w) ==
    /\ at[w] = "encodeRev"
    /\ rev' = "full"
    /\ GoTo(w, "pack")
    /\ UNCHANGED <<idx, marker, pack, temp, promisor, found, history, mixed, tries>>

\* Fault: the marker is left for after the rename.
PackFirst(w) ==
    /\ at[w] = "pack"
    /\ found' = IF pack THEN found \cup {w} ELSE found \ {w}
    /\ GoTo(w, "rename")
    /\ UNCHANGED <<files, temp, promisor, history, mixed, tries>>

\* Is the pack there?  Only a pack this writer will place gets a marker.
CheckPack(w) ==
    /\ at[w] = "pack"
    /\ found' = IF pack THEN found \cup {w} ELSE found \ {w}
    /\ GoTo(w, IF w \in promisor /\ ~pack THEN "marker" ELSE "rename")
    /\ UNCHANGED <<files, temp, promisor, history, mixed, tries>>

CheckMarker(w) ==
    /\ at[w] = "marker"
    /\ GoTo(w, IF marker = "none" THEN "createMarker" ELSE "rename")
    /\ UNCHANGED <<files, temp, promisor, found, history, mixed, tries>>

CreateMarker(w) ==
    /\ at[w] = "createMarker"
    /\ marker' = "partial"
    /\ GoTo(w, "writeMarker")
    /\ UNCHANGED <<idx, rev, pack, temp, promisor, found, history, mixed, tries>>

WriteMarker(w) ==
    /\ at[w] = "writeMarker"
    /\ marker' = "full"
    /\ GoTo(w, "rename")
    /\ UNCHANGED <<idx, rev, pack, temp, promisor, found, history, mixed, tries>>

\* The pack exists: remove the temporary file.
CleanTemp(w) ==
    /\ at[w] = "rename" /\ w \in found
    /\ temp' = temp \ {w}
    /\ GoTo(w, "saved")
    /\ UNCHANGED <<files, promisor, found, history, mixed, tries>>

\* Move the temporary file into place.
RenamePack(w) ==
    /\ at[w] = "rename" /\ w \notin found
    /\ pack' = TRUE
    /\ temp' = temp \ {w}
    /\ placedBy' = placedBy \cup {w}
    /\ GoTo(w, "saved")
    /\ UNCHANGED <<idx, rev, marker, promisor, found, alone, mixed, tries>>

\* An I/O error makes save return, or the process dies.  Files stay as they
\* are, partial or not.
Fail(w) ==
    /\ w \in Active
    /\ GoTo(w, "failed")
    /\ UNCHANGED <<files, temp, promisor, found, history, mixed, tries>>

Done == Active = {} /\ UNCHANGED saveVars

-----------------------------------------------------------------------------
SaveStep(w) ==
    \/ CheckIdx(w) \/ CreateIdx(w) \/ EncodeIdx(w)
    \/ CheckRev(w) \/ CreateRev(w) \/ EncodeRev(w)
    \/ CheckPack(w) \/ CheckMarker(w) \/ CreateMarker(w) \/ WriteMarker(w)
    \/ CleanTemp(w) \/ RenamePack(w)

SaveNext == Done \/ \E w \in Writer : Begin(w) \/ SaveStep(w) \/ Fail(w)

SaveSpec == SaveInit /\ [][SaveNext]_saveVars

-----------------------------------------------------------------------------
(* Properties.                                                              *)

\* A pack that scanPacks can see has a complete index and reverse index, at
\* every step and after every crash, as long as no two saves met on the same
\* sidecar file.
VisibleIsComplete ==
    pack /\ ~mixed => idx = "full" /\ (WriteRev => rev = "full")

\* A pack placed by a promisor writer has its marker at every moment it is
\* visible: "crashing in that window must not be able to produce a repository
\* git refuses to gc".
PromisorMarked == (placedBy \cap promisor) # {} => marker # "none"

\* "An identical pack already on disk is left exactly as it is, marked or not":
\* a save that no other overlaps creates no marker for a pack in place.
DuplicateUnmarked ==
    [][pack /\ marker' # marker => \E w \in Active : w \notin alone]_saveVars

\* A save that returned nil leaves the pack in place and no temporary file.
SavedIsVisible ==
    \A w \in Writer : at[w] = "saved" => pack /\ idx # "none" /\ w \notin temp

\* "PackWriter publishes each index before making its pack visible" (ObjectPacks).
IndexBeforePack == pack => idx = "full"

=============================================================================
