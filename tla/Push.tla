-------------------------------- MODULE Push --------------------------------
(***************************************************************************)
(* Push: clients (remote.go, plumbing/transport/push.go) against one       *)
(* server (plumbing/transport/receive_pack.go).                            *)
(*                                                                         *)
(* A client reads the server's references, decides from that advertisement *)
(* which commands to send, packs the missing commits and waits for the     *)
(* report.  The server unpacks, asks the pre-receive hook and then applies *)
(* the commands one by one, each as a check and a later write.  Sessions   *)
(* of several clients interleave; ReceivePack asks callers to serialise    *)
(* writers that need more, so "serial" says whether this server does.      *)
(* Requests may arrive cut off, storage writes may fail, and the report    *)
(* may get lost.                                                           *)
(*                                                                         *)
(* Left out: tags (checkTagUpdate, FollowTags), refspecs that rename or    *)
(* repeat a destination (the server refuses duplicates), symbolic and      *)
(* invalid names, servers without report-status, a lease that names a hash *)
(* and no reference.                                                       *)
(***************************************************************************)
EXTENDS CommitGraph

CONSTANTS
    Client, Name,
    Leased,      \* the reference a "leaseOne" or "leaseAt" push names
    LeaseHash,   \* the value a "leaseAt" push expects of it
    Modes,       \* the kinds of push to consider
    Serial,      \* the values of "serial" to consider
    Base,        \* the commit everybody starts from
    Kinds,       \* the kinds of clone to consider: "full", "shallow"
    MaxMoves,    \* bound on the local changes of all clients together
    MaxPushes,   \* bound on the pushes of all clients together
    MaxFaults    \* bound on lost or failed steps

ASSUME NamesAssumption ==
    Leased \in Name /\ {LeaseHash, Base} \subseteq Commit /\ Serial \subseteq BOOLEAN

VARIABLES
    sRefs, sObjs,      \* the server's references and commits
    serial,            \* whether the server serialises its sessions
    cRefs, cObjs,      \* each client's branches and commits
    track,             \* refs/remotes/origin/* of each client
    shallow,           \* the shallow commits of each client
    pc,                \* what the push of each client does next
    mode, adv,         \* its options and the advertisement it works from
    cmds, pack,        \* the commands and the commits it sends
    todo, busy,        \* the session: commands left, command being written
    status,            \* cmdStatus: the names that went wrong
    applied,           \* (history) the names the session has written
    was,               \* (history) every value each server reference had
    moves, pushes, faults

client == <<cRefs, cObjs, track, shallow>>
request == <<mode, adv, cmds, pack>>
session == <<todo, busy, status, applied>>
server == <<sRefs, sObjs, was>>
bounds == <<moves, pushes, faults>>
vars == <<server, serial, client, pc, request, session, bounds>>

Value == Commit \cup {None}
Command == [name : Name, old : Value, new : Value]
NoCommand == [name |-> Leased, old |-> None, new |-> None]

\* Command.Action; Command.validate refuses an invalid one on either side.
Action(cmd) ==
    CASE cmd.old = None /\ cmd.new = None -> "invalid"
      [] cmd.old = None /\ cmd.new # None -> "create"
      [] cmd.old # None /\ cmd.new = None -> "delete"
      [] OTHER -> "update"

\* No reference at all.
NoRefs == [n \in Name |-> None]

\* The push of client c returns and its local state is gone.
Return(c) ==
    /\ pc' = [pc EXCEPT ![c] = "idle"]
    /\ mode' = [mode EXCEPT ![c] = "none"]
    /\ adv' = [adv EXCEPT ![c] = NoRefs]
    /\ cmds' = [cmds EXCEPT ![c] = {}] /\ pack' = [pack EXCEPT ![c] = {}]
    /\ todo' = [todo EXCEPT ![c] = {}] /\ status' = [status EXCEPT ![c] = {}]
    /\ applied' = [applied EXCEPT ![c] = {}]
    /\ UNCHANGED busy

InSession == {"receive", "apply", "report"}
----------------------------------------------------------------------------
\* A full clone holds the history of Base; a shallow one (depth 1) the commit.
Init ==
    /\ sRefs = [n \in Name |-> IF n = Leased THEN Base ELSE None]
    /\ sObjs = History({Base})
    /\ serial \in Serial
    /\ cRefs = [c \in Client |-> sRefs]
    /\ track = [c \in Client |-> sRefs]
    /\ \E kind \in [Client -> Kinds] :
          /\ shallow = [c \in Client |-> IF kind[c] = "full" THEN {} ELSE {Base}]
          /\ cObjs = [c \in Client |-> Reach({Base}, shallow[c])]
    /\ pc = [c \in Client |-> "idle"]
    /\ mode = [c \in Client |-> "none"]
    /\ adv = [c \in Client |-> NoRefs]
    /\ cmds = [c \in Client |-> {}] /\ pack = [c \in Client |-> {}]
    /\ todo = [c \in Client |-> {}] /\ busy = [c \in Client |-> NoCommand]
    /\ status = [c \in Client |-> {}] /\ applied = [c \in Client |-> {}]
    /\ was = [n \in Name |-> {sRefs[n]}]
    /\ moves = 0 /\ pushes = 0
    /\ faults = 0

\* The user commits on, resets or deletes a branch.
Move(c, n, x) ==
    /\ pc[c] = "idle"
    /\ moves < MaxMoves
    /\ x # cRefs[c][n]
    /\ x \in Commit => x \in cObjs[c] \/ (Parents[x] # {} /\ Parents[x] \subseteq cObjs[c])
    /\ cRefs' = [cRefs EXCEPT ![c][n] = x]
    /\ cObjs' = [cObjs EXCEPT ![c] = @ \cup ({x} \ {None})]
    /\ moves' = moves + 1
    /\ UNCHANGED <<server, serial, track, shallow, pc, request, session, pushes, faults>>

\* A fetch between two pushes, taken whole (module Fetch looks inside).
Fetch(c) ==
    /\ pc[c] = "idle"
    /\ track[c] # sRefs
    /\ track' = [track EXCEPT ![c] = sRefs]
    /\ cObjs' = [cObjs EXCEPT ![c] = @ \cup Reach(Tips(sRefs), shallow[c])]
    /\ UNCHANGED <<server, serial, cRefs, shallow, pc, request, session, bounds>>

\* PushContext: GetRemoteRefs.
Advertise(c) ==
    /\ pc[c] = "idle"
    /\ pushes < MaxPushes
    /\ pushes' = pushes + 1
    /\ \E m \in Modes : mode' = [mode EXCEPT ![c] = m]
    /\ adv' = [adv EXCEPT ![c] = sRefs]
    /\ pc' = [pc EXCEPT ![c] = "plan"]
    /\ UNCHANGED <<server, serial, client, cmds, pack, session, moves, faults>>
----------------------------------------------------------------------------
(* The client decides what to send. *)

\* The preorder walk of isFastForward: the parents of shallow commits are
\* marked as seen and never visited.
Visited(c, new) ==
    LET ignored == UNION {Parents[s] : s \in shallow[c]}
        V[x \in Commit] ==
            IF x \in ignored THEN {} ELSE {x} \cup UNION {V[p] : p \in Parents[x]}
    IN V[new]

\* isFastForward: history cut by a shallow commit cannot disprove it.
IsFastForward(c, old, new) ==
    \/ old \in Visited(c, new)
    \/ Visited(c, new) \cap shallow[c] # {}

\* checkFastForwardUpdate
CheckFastForwardUpdate(c, cmd) ==
    cmd.old # None => IsFastForward(c, cmd.old, cmd.new)

\* Mutant of CheckForceWithLease: a tracking reference is enough.
LooseCheckForceWithLease(c, cmd) == track[c][cmd.name] # None

\* ForceWithLease.RefName: the lease is on every reference or on one.
LeaseOn(c, n) == mode[c] = "lease" \/ (mode[c] \in {"leaseOne", "leaseAt"} /\ n = Leased)

\* expectedOID: ForceWithLease.Hash when it is given, else the tracking reference.
Expected(c, n) == IF mode[c] = "leaseAt" THEN LeaseHash ELSE track[c][n]

\* checkForceWithLease: the tracking reference must exist even when it is not
\* what is expected, and the advertised value must be the expected one.
CheckForceWithLease(c, cmd) ==
    /\ track[c][cmd.name] # None
    /\ LeaseOn(c, cmd.name) => cmd.old = Expected(c, cmd.name)

\* addReferenceIfRefSpecMatches, after the command is built.
Allowed(c, cmd) ==
    CASE mode[c] \in {"lease", "leaseOne", "leaseAt"} -> CheckForceWithLease(c, cmd)
      [] mode[c] = "force" -> TRUE
      [] OTHER -> CheckFastForwardUpdate(c, cmd)

\* addOrUpdateReferences for the refspec refs/heads/*:refs/heads/*.
Updates(c) ==
    {[name |-> n, old |-> adv[c][n], new |-> cRefs[c][n]] :
        n \in {m \in Name : cRefs[c][m] # None /\ cRefs[c][m] # adv[c][m]}}

\* deleteReferences, for a prune or for the refspec ":<name>".
Deletes(c) ==
    {[name |-> n, old |-> adv[c][n], new |-> None] :
        n \in {m \in Name : /\ adv[c][m] # None
                            /\ \/ mode[c] = "prune" /\ cRefs[c][m] = None
                               \/ mode[c] = "delete" /\ m = Leased}}

\* addReferencesToUpdate
Commands(c) == IF mode[c] = "delete" THEN Deletes(c) ELSE Updates(c) \cup Deletes(c)

\* Mutant of ObjectsToPush: the commits behind the tips are left out.
TipObjectsToPush(c) == {cmd.new : cmd \in Commands(c)} \ ({None} \cup Tips(adv[c]))

\* revlist.Objects for the commands: the haves are the advertised references
\* the client knows and its shallow commits.
ObjectsToPush(c) ==
    LET objects == {cmd.new : cmd \in Commands(c)} \ {None}
        haves == (Tips(adv[c]) \cap cObjs[c]) \cup shallow[c]
    IN Reach(objects, shallow[c]) \ Reach(haves, shallow[c])

\* sendPack up to the request: one refused reference fails the whole push.
SendPack(c) ==
    /\ pc[c] = "plan"
    /\ LET refused == \E cmd \in Updates(c) : mode[c] # "delete" /\ ~ Allowed(c, cmd)
       IN IF refused \/ Commands(c) = {}
          THEN Return(c)
          ELSE /\ pc' = [pc EXCEPT ![c] = "receive"]
               /\ cmds' = [cmds EXCEPT ![c] = Commands(c)]
               /\ pack' = [pack EXCEPT ![c] = ObjectsToPush(c)]
               /\ todo' = [todo EXCEPT ![c] = Commands(c)]
               /\ UNCHANGED <<mode, adv, busy, status, applied>>
    /\ UNCHANGED <<server, serial, client, bounds>>
----------------------------------------------------------------------------
(* The server handles the request. *)

\* A server that serialises its writers runs one session at a time.
MayApply(c) == serial => \A d \in Client \ {c} : pc[d] # "apply"

\* The pack is stored and the pre-receive hook accepts or refuses the push.
\* A request without new objects carries no pack.
Receive(c) ==
    /\ pc[c] = "receive"
    /\ sObjs' = sObjs \cup pack[c]
    /\ \/ /\ MayApply(c)
          /\ pc' = [pc EXCEPT ![c] = "apply"]
          /\ UNCHANGED <<status, faults>>
       \/ /\ faults < MaxFaults
          /\ faults' = faults + 1
          /\ status' = [status EXCEPT ![c] = {cmd.name : cmd \in cmds[c]}]
          /\ pc' = [pc EXCEPT ![c] = "report"]
    /\ UNCHANGED <<sRefs, was, serial, client, request, todo, busy, applied, moves, pushes>>

\* The pack does not arrive whole: the report says so and nothing is applied.
UnpackFails(c) ==
    /\ pc[c] = "receive"
    /\ \E cmd \in cmds[c] : Action(cmd) # "delete"
    /\ faults < MaxFaults
    /\ faults' = faults + 1
    /\ status' = [status EXCEPT ![c] = {cmd.name : cmd \in cmds[c]}]
    /\ pc' = [pc EXCEPT ![c] = "report"]
    /\ UNCHANGED <<server, serial, client, request, todo, busy, applied, moves, pushes>>

\* The checks of updateReferences before it writes.
Refuses(cmd) ==
    LET current == sRefs[cmd.name]
    IN \/ Action(cmd) # "delete" /\ cmd.new \notin sObjs
       \/ Action(cmd) = "create" /\ current # None
       \/ Action(cmd) # "create" /\ current = None
       \/ Action(cmd) = "delete" /\ current # cmd.old /\ cmd.old \in sObjs

\* Mutant of Check: a refused command leaves no status.
SilentCheck(c, cmd) ==
    /\ pc[c] = "apply" /\ busy[c] = NoCommand
    /\ cmd \in todo[c]
    /\ todo' = [todo EXCEPT ![c] = @ \ {cmd}]
    /\ busy' = [busy EXCEPT ![c] = IF Refuses(cmd) THEN @ ELSE cmd]
    /\ UNCHANGED <<server, serial, client, pc, request, status, applied, bounds>>

\* updateReferences takes the next command and checks it.
Check(c, cmd) ==
    /\ pc[c] = "apply" /\ busy[c] = NoCommand
    /\ cmd \in todo[c]
    /\ todo' = [todo EXCEPT ![c] = @ \ {cmd}]
    /\ IF Refuses(cmd)
       THEN /\ status' = [status EXCEPT ![c] = @ \cup {cmd.name}]
            /\ UNCHANGED busy
       ELSE /\ busy' = [busy EXCEPT ![c] = cmd]
            /\ UNCHANGED status
    /\ UNCHANGED <<server, serial, client, pc, request, applied, bounds>>

\* Mutant of WriteSucceeds: an update does not compare either.
BlindWriteSucceeds(cmd) == TRUE

\* What the storer does with a checked command: only an update compares again.
WriteSucceeds(cmd) == Action(cmd) = "update" => sRefs[cmd.name] = cmd.old

\* updateReferences writes: SetReference, CheckAndSetReference, RemoveReference.
Write(c) ==
    LET cmd == busy[c]
    IN /\ pc[c] = "apply" /\ cmd # NoCommand
       /\ busy' = [busy EXCEPT ![c] = NoCommand]
       /\ \/ /\ WriteSucceeds(cmd)
             /\ sRefs' = [sRefs EXCEPT ![cmd.name] = cmd.new]
             /\ was' = [was EXCEPT ![cmd.name] = @ \cup {cmd.new}]
             /\ applied' = [applied EXCEPT ![c] = @ \cup {cmd.name}]
             /\ UNCHANGED <<status, faults>>
          \/ /\ \/ ~ WriteSucceeds(cmd) /\ UNCHANGED faults
                \/ faults < MaxFaults /\ faults' = faults + 1
             /\ status' = [status EXCEPT ![c] = @ \cup {cmd.name}]
             /\ UNCHANGED <<sRefs, was, applied>>
       /\ UNCHANGED <<sObjs, serial, client, pc, request, todo, moves, pushes>>

\* updateReferences is through.
Applied(c) ==
    /\ pc[c] = "apply" /\ busy[c] = NoCommand /\ todo[c] = {}
    /\ pc' = [pc EXCEPT ![c] = "report"]
    /\ UNCHANGED <<server, serial, client, request, session, bounds>>
----------------------------------------------------------------------------
(* The client reads the report. *)

\* updateRemoteReferenceStorage
TrackCommands(c) ==
    [n \in Name |-> IF \E cmd \in cmds[c] : cmd.name = n
                    THEN (CHOOSE cmd \in cmds[c] : cmd.name = n).new
                    ELSE track[c][n]]

\* Mutant of Report: the commands are recorded whatever the report says.
BlindReport(c) ==
    /\ pc[c] = "report"
    /\ track' = [track EXCEPT ![c] = TrackCommands(c)]
    /\ Return(c)
    /\ UNCHANGED <<server, serial, cRefs, cObjs, shallow, bounds>>

\* SendPack returns the first error of the report; only without one does the
\* client record what it pushed.
Report(c) ==
    /\ pc[c] = "report"
    /\ track' = [track EXCEPT ![c] = IF status[c] = {} THEN TrackCommands(c) ELSE @]
    /\ Return(c)
    /\ UNCHANGED <<server, serial, cRefs, cObjs, shallow, bounds>>

\* The report is lost: the push fails although the server may have applied it.
ReportLost(c) ==
    /\ pc[c] = "report"
    /\ faults < MaxFaults
    /\ faults' = faults + 1
    /\ Return(c)
    /\ UNCHANGED <<server, serial, client, moves, pushes>>

\* Every client has used up its pushes and moves.
Quiet ==
    /\ \A c \in Client : pc[c] = "idle"
    /\ UNCHANGED vars

Step(c) ==
    \/ SendPack(c) \/ Receive(c) \/ UnpackFails(c)
    \/ \E cmd \in todo[c] : Check(c, cmd)
    \/ Write(c) \/ Applied(c) \/ Report(c) \/ ReportLost(c)

Next ==
    \/ \E c \in Client :
          \/ \E n \in Name, x \in Value : Move(c, n, x)
          \/ Fetch(c) \/ Advertise(c) \/ Step(c)
    \/ Quiet

Spec == Init /\ [][Next]_vars
----------------------------------------------------------------------------
\* The shape of the state of the server and of every push.
TypeOK ==
    /\ sRefs \in [Name -> Value] /\ sObjs \subseteq Commit
    /\ serial \in BOOLEAN
    /\ cRefs \in [Client -> [Name -> Value]] /\ cObjs \in [Client -> SUBSET Commit]
    /\ track \in [Client -> [Name -> Value]] /\ shallow \in [Client -> SUBSET Commit]
    /\ pc \in [Client -> {"idle", "plan"} \cup InSession]
    /\ adv \in [Client -> [Name -> Value]]
    /\ \A c \in Client :
          /\ todo[c] \subseteq cmds[c] /\ cmds[c] \subseteq Command
          /\ pack[c] \subseteq cObjs[c]
          /\ busy[c] \in cmds[c] \cup {NoCommand}
          /\ pc[c] = "apply" \/ busy[c] = NoCommand

(***************************************************************************)
(* The server never has a reference whose history it lacks, although       *)
(* updateReferences only looks for the commit itself: what the client      *)
(* leaves out of the pack is behind a reference the server advertised or   *)
(* behind the client's shallow commits, whatever other sessions did to     *)
(* these references meanwhile.                                             *)
(***************************************************************************)
ServerComplete == History(Tips(sRefs)) \subseteq sObjs

\* The step is the write of client c to reference n.
Writes(c, n) == busy[c] # NoCommand /\ busy[c].name = n /\ busy'[c] = NoCommand

\* The client asked to replace or remove the value that reference n has.
Deliberate(c, n) ==
    /\ sRefs[n] = busy[c].old
    /\ \/ mode[c] \in {"force", "lease", "leaseOne", "leaseAt"}
       \/ mode[c] \in {"delete", "prune"} /\ busy[c].new = None

\* The step takes commits out of reference n that its client did not ask for.
Drops(c, n) ==
    /\ Writes(c, n) /\ ~ Deliberate(c, n)
    /\ ~ (History({sRefs[n]} \ {None}) \subseteq History({sRefs'[n]} \ {None}))

\* SetReference and RemoveReference do not compare: ReceivePack leaves it to
\* its callers to serialise writers.
Unserialised(c) == ~ serial /\ Action(busy[c]) # "update"

(***************************************************************************)
(* No push takes commits out of a branch unless its user asked for it, and *)
(* then only the value it was shown, however sessions interleave between   *)
(* the advertisement and the write: a full clone's plain update is a       *)
(* fast-forward of the very value it replaces, and a forced one replaces   *)
(* the advertised value.  Creates and deletes need a server that           *)
(* serialises its writers, as ReceivePack documents.                       *)
(***************************************************************************)
PushKeepsHistory ==
    [][\A c \in Client, n \in Name :
          Drops(c, n) => shallow[c] # {} \/ Unserialised(c)]_vars

(***************************************************************************)
(* ForceWithLease: the value a leased push replaces is the one its user    *)
(* expects, that is the hash it names or else the tracking reference, at   *)
(* the moment of the write and not only at the advertisement.              *)
(***************************************************************************)
LeaseHolds ==
    [][\A c \in Client, n \in Name :
          Writes(c, n) /\ sRefs'[n] # sRefs[n] /\ LeaseOn(c, n)
          => sRefs[n] = Expected(c, n)]_vars

(***************************************************************************)
(* A push that returns without an error has been applied in full: every    *)
(* command that was refused or failed, in any of its steps, shows in the   *)
(* report.                                                                 *)
(***************************************************************************)
OkMeansApplied ==
    \A c \in Client :
        (pc[c] = "report" /\ status[c] = {}) =>
            applied[c] = {cmd.name : cmd \in cmds[c]}

(***************************************************************************)
(* The client's picture of the remote was true at some time: a tracking    *)
(* reference never holds a value the server's reference did not have, even *)
(* when commands fail one by one or the report is lost.                    *)
(***************************************************************************)
TrackingWasTrue == \A c \in Client, n \in Name : track[c][n] \in was[n]

(***************************************************************************)
(* What PushOptions.Force promises by its name and comment: only a forced  *)
(* push updates a branch the pushed commit does not descend from.  It does *)
(* not hold for a shallow clone, for which isFastForward answers yes when  *)
(* its history is cut off.                                                 *)
(***************************************************************************)
OnlyForceDrops ==
    [][\A c \in Client, n \in Name :
          Drops(c, n) => Unserialised(c)]_vars
=============================================================================
