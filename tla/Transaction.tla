---------------------------- MODULE Transaction ----------------------------
(***************************************************************************)
(* storage/transactional: a storage laid over another one.  Writes go to a *)
(* temporal storage, reads see the temporal storage over the base, and     *)
(* Commit copies the former into the latter, one store after the other,    *)
(* one item at a time, stopping at the first error.  Commit may be called  *)
(* again, after an error or after more calls.  Any call may fail; the      *)
(* storage below then did not change, but marks made here stay.            *)
(*                                                                         *)
(* Nobody else writes to the base meanwhile.  Left out: submodule storages *)
(* (Module), alternates, and Close.                                        *)
(***************************************************************************)
EXTENDS Integers, Sequences

CONSTANTS
    Name, Object, Cell, Value, None,   \* as in module Storer
    Blank,         \* the value of an index or config nobody wrote
    Shallows,      \* the arguments of SetShallow to consider
    MaxCalls,      \* bound on the calls
    MaxFaults      \* bound on the calls that fail

ASSUME CellAssumption == Cell = {"index", "config"} /\ Blank \in Value
ASSUME BoundAssumption == MaxCalls \in Nat /\ MaxFaults \in Nat
ASSUME ObjectAssumption == None \notin Object /\ Shallows \subseteq SUBSET Object

VARIABLES
    base, temporal,  \* the two storages
    deleted,         \* ReferenceStorage.deleted
    set,             \* IndexStorage.set, ConfigStorage.set: the cells written
    gone, appended,  \* ReflogStorage.deleted and appended
    stage, done,     \* Commit: where it is, and the items done there
    call, out,       \* the last call that returned, and its outcome
    calls, faults

vars == <<base, temporal, deleted, set, gone, appended, stage, done, call, out, calls,
          faults>>

Storage ==
    [objects : SUBSET Object, refs : [Name -> Object \cup {None}],
     shallow : SUBSET Object, cells : [Cell -> Value], logs : [Name -> Seq(Object)]]
----------------------------------------------------------------------------
(* Reading. *)

\* Mutant of Reference: references removed here show through again.
UndeletedReference(n) ==
    IF temporal.refs[n] # None THEN temporal.refs[n] ELSE base.refs[n]

\* ReferenceStorage.Reference, and what IterReferences yields for this name.
Reference(n) ==
    IF n \in deleted THEN None
    ELSE IF temporal.refs[n] # None THEN temporal.refs[n]
    ELSE base.refs[n]

\* HasEncodedObject, EncodedObject, IterEncodedObjects
Objects == base.objects \cup temporal.objects

\* ShallowStorage.Shallow
Shallow == IF temporal.shallow # {} THEN temporal.shallow ELSE base.shallow

\* Index and Config
Contents(c) == IF c \in set THEN temporal.cells[c] ELSE base.cells[c]

\* ReflogStorage.Reflog
Reflog(n) == IF n \in gone THEN temporal.logs[n] ELSE base.logs[n] \o temporal.logs[n]
----------------------------------------------------------------------------
\* A new temporal storage over a base that is complete: its references name
\* objects it has.
Init ==
    /\ \E os \in SUBSET Object, s \in Shallows \cup {{}} :
       \E rs \in [Name -> os \cup {None}] :
          base = [objects |-> os, refs |-> rs, shallow |-> s,
                  cells |-> [c \in Cell |-> Blank],
                  logs |-> [n \in Name |-> IF rs[n] = None THEN <<>> ELSE <<rs[n]>>]]
    /\ temporal = [objects |-> {}, refs |-> [n \in Name |-> None], shallow |-> {},
                   cells |-> [c \in Cell |-> Blank], logs |-> [n \in Name |-> <<>>]]
    /\ deleted = {} /\ set = {} /\ gone = {} /\ appended = {}
    /\ stage = 0 /\ done = {} /\ call = <<"none">> /\ out = "ok" /\ calls = 0 /\ faults = 0

\* A call, named with its arguments, that returns with this outcome.
Call(name, outcome) ==
    /\ stage = 0
    /\ calls < MaxCalls
    /\ calls' = calls + 1
    /\ outcome = "error" => faults < MaxFaults
    /\ faults' = IF outcome = "error" THEN faults + 1 ELSE faults
    /\ call' = name /\ out' = outcome
    /\ UNCHANGED <<stage, done>>

Outcomes == {"ok", "error"}

\* What a storage holds after a write that may have failed.
Written(outcome, after, before) == IF outcome = "ok" THEN after ELSE before

\* SetEncodedObject, RawObjectWriter, SetShallow, SetIndex or SetConfig that
\* fails: nothing changes, here or below.
FailedWrite ==
    /\ Call(<<"failed">>, "error")
    /\ UNCHANGED <<base, temporal, deleted, set, gone, appended>>

SetEncodedObject(o) ==
    /\ Call(<<"object", o>>, "ok")
    /\ temporal' = [temporal EXCEPT !.objects = @ \cup {o}]
    /\ UNCHANGED <<base, deleted, set, gone, appended>>

\* RawObjectWriter is the base's own, which the object storage embeds.
RawObjectWriter(o) ==
    /\ Call(<<"object", o>>, "ok")
    /\ base' = [base EXCEPT !.objects = @ \cup {o}]
    /\ UNCHANGED <<temporal, deleted, set, gone, appended>>

\* The removal mark goes first, whether the temporal storage then fails or not.
Store(n, o, outcome) ==
    /\ deleted' = deleted \ {n}
    /\ temporal' = Written(outcome, [temporal EXCEPT !.refs[n] = o], temporal)
    /\ UNCHANGED <<base, set, gone, appended>>

\* ReferenceStorage.SetReference, and CheckAndSetReference without an old
\* value.  Callers store an object before its name.
SetReference(n, o, outcome) ==
    /\ o \in Objects
    /\ Call(<<"set", n, o>>, outcome)
    /\ Store(n, o, outcome)

\* What CheckAndSetReference compares: the removal is not looked at.
Checked(n) == IF temporal.refs[n] # None THEN temporal.refs[n] ELSE base.refs[n]

\* CheckAndSetReference that finds the old value.
CheckedSetReference(n, o, outcome) ==
    /\ o \in Objects /\ Checked(n) # None
    /\ Call(<<"check", n, Checked(n), o>>, outcome)
    /\ Store(n, o, outcome)

\* CheckAndSetReference that finds another value than old, or none.  The new
\* value is not looked at; old stands for it.
CheckFails(n, old) ==
    /\ Checked(n) # old
    /\ Call(<<"check", n, old, old>>, IF Checked(n) = None THEN "missing" ELSE "changed")
    /\ UNCHANGED <<base, temporal, deleted, set, gone, appended>>

\* The removal is recorded first; the temporal storage may then fail.
RemoveReference(n, outcome) ==
    /\ Call(<<"remove", n>>, outcome)
    /\ deleted' = deleted \cup {n}
    /\ temporal' = Written(outcome, [temporal EXCEPT !.refs[n] = None], temporal)
    /\ UNCHANGED <<base, set, gone, appended>>

SetShallow(s) ==
    /\ Call(<<"shallow", s>>, "ok")
    /\ temporal' = [temporal EXCEPT !.shallow = s]
    /\ UNCHANGED <<base, deleted, set, gone, appended>>

\* SetIndex, SetConfig
SetCell(c, v) ==
    /\ Call(<<"cell", c, v>>, "ok")
    /\ temporal' = [temporal EXCEPT !.cells[c] = v]
    /\ set' = set \cup {c}
    /\ UNCHANGED <<base, deleted, gone, appended>>

\* Mutant of AppendReflog: the reflog is not marked for Commit.
UnmarkedAppendReflog(n, e, outcome) ==
    /\ Call(<<"reflog", n>>, outcome)
    /\ temporal' = Written(outcome, [temporal EXCEPT !.logs[n] = Append(@, e)], temporal)
    /\ UNCHANGED <<base, deleted, set, gone, appended>>

AppendReflog(n, e, outcome) ==
    /\ Call(<<"reflog", n>>, outcome)
    /\ appended' = appended \cup {n}
    /\ temporal' = Written(outcome, [temporal EXCEPT !.logs[n] = Append(@, e)], temporal)
    /\ UNCHANGED <<base, deleted, set, gone>>

DeleteReflog(n, outcome) ==
    /\ Call(<<"reflog", n>>, outcome)
    /\ appended' = appended \ {n}
    /\ gone' = gone \cup {n}
    /\ temporal' = Written(outcome, [temporal EXCEPT !.logs[n] = <<>>], temporal)
    /\ UNCHANGED <<base, deleted, set>>
----------------------------------------------------------------------------
(* Commit. *)

\* Mutant of CommitOrder: references before the objects they name.
RefsFirstCommitOrder ==
    <<"removals", "refs", "objects", "index", "shallow", "config", "logRemovals", "logs">>

\* The order of basic.Commit; references and reflogs start with removals.
CommitOrder ==
    <<"objects", "removals", "refs", "index", "shallow", "config", "logRemovals", "logs">>

\* What is to be done in this part of Commit.
Items(part) ==
    CASE part = "objects" -> temporal.objects
      [] part = "removals" -> deleted
      [] part = "refs" -> {n \in Name : temporal.refs[n] # None}
      [] part \in Cell -> {part} \cap set
      [] part = "shallow" -> IF temporal.shallow = {} THEN {} ELSE {part}
      [] part = "logRemovals" -> gone
      [] part = "logs" -> appended

\* The base with one item copied into it.
Copied(part, i) ==
    CASE part = "objects" -> [base EXCEPT !.objects = @ \cup {i}]
      [] part = "removals" -> [base EXCEPT !.refs[i] = None]
      [] part = "refs" -> [base EXCEPT !.refs[i] = temporal.refs[i]]
      [] part \in Cell -> [base EXCEPT !.cells[i] = temporal.cells[i]]
      [] part = "shallow" -> [base EXCEPT !.shallow = temporal.shallow]
      [] part = "logRemovals" -> [base EXCEPT !.logs[i] = <<>>]
      [] part = "logs" -> [base EXCEPT !.logs[i] = @ \o temporal.logs[i]]

Commit ==
    /\ stage = 0
    /\ calls < MaxCalls
    /\ calls' = calls + 1
    /\ stage' = 1 /\ done' = {}
    /\ UNCHANGED <<base, temporal, deleted, set, gone, appended, call, out, faults>>

CommitStep ==
    /\ stage > 0
    /\ \E i \in Items(CommitOrder[stage]) \ done :
          base' = Copied(CommitOrder[stage], i) /\ done' = done \cup {i}
    /\ UNCHANGED <<temporal, deleted, set, gone, appended, stage, call, out, calls,
                   faults>>

\* This part is done: on to the next one, or Commit returns nil.
CommitNext ==
    /\ stage > 0
    /\ Items(CommitOrder[stage]) \subseteq done
    /\ stage' = IF stage = Len(CommitOrder) THEN 0 ELSE stage + 1
    /\ call' = IF stage = Len(CommitOrder) THEN <<"commit">> ELSE call
    /\ out' = IF stage = Len(CommitOrder) THEN "committed" ELSE out
    /\ done' = {}
    /\ UNCHANGED <<base, temporal, deleted, set, gone, appended, calls, faults>>

\* A write to the base fails; of a reflog some entries may have been written.
CommitFails ==
    /\ stage > 0
    /\ faults < MaxFaults
    /\ faults' = faults + 1
    /\ \E i \in Items(CommitOrder[stage]) \ done :
          base' \in {base} \cup
              IF CommitOrder[stage] # "logs" THEN {}
              ELSE {[base EXCEPT !.logs[i] = @ \o SubSeq(temporal.logs[i], 1, k)] :
                       k \in 1..(Len(temporal.logs[i]) - 1)}
    /\ stage' = 0 /\ done' = {} /\ call' = <<"commit">> /\ out' = "error"
    /\ UNCHANGED <<temporal, deleted, set, gone, appended, calls>>

\* No call is going on.
Quiet == stage = 0 /\ UNCHANGED vars

Next ==
    \/ \E o \in Object : SetEncodedObject(o) \/ RawObjectWriter(o)
    \/ \E n \in Name, o \in Object, outcome \in Outcomes :
          \/ SetReference(n, o, outcome) \/ CheckedSetReference(n, o, outcome)
          \/ AppendReflog(n, o, outcome)
    \/ \E n \in Name, old \in Object : CheckFails(n, old)
    \/ \E n \in Name, outcome \in Outcomes :
          RemoveReference(n, outcome) \/ DeleteReflog(n, outcome)
    \/ \E s \in Shallows : SetShallow(s)
    \/ \E c \in Cell, v \in Value : SetCell(c, v)
    \/ FailedWrite
    \/ Commit \/ CommitStep \/ CommitNext \/ CommitFails
    \/ Quiet

Spec == Init /\ [][Next]_vars
----------------------------------------------------------------------------
\* The shape of the state.  Commit only works on what the transaction holds.
TypeOK ==
    /\ base \in Storage /\ temporal \in Storage
    /\ deleted \subseteq Name /\ set \subseteq Cell
    /\ gone \subseteq Name /\ appended \subseteq Name
    /\ stage \in 0..Len(CommitOrder)
    /\ done \subseteq IF stage = 0 THEN {} ELSE Items(CommitOrder[stage])
    /\ call[1] \in {"none", "failed", "object", "set", "check", "remove", "shallow",
                    "cell", "reflog", "commit"}
    /\ out \in {"ok", "error", "missing", "changed", "committed"}
    /\ calls \in 0..MaxCalls /\ faults \in 0..MaxFaults

\* What is read: the references and the whole files.
References == [n \in Name |-> Reference(n)]
Files == [c \in Cell |-> Contents(c)]

Promise ==
    INSTANCE Storer WITH
        objects <- Objects, refs <- References, shallow <- Shallow, cells <- Files,
        call <- call, out <- out

\* The calls after which a transaction reads, or answers, unlike one plain
\* storage, and what they do.
\* A set, checked or not, of a removed reference that fails: the mark is gone
\* and what the removal hid is read again.
Uncovers(n) ==
    /\ n \in deleted /\ out' = "error"
    /\ \E o \in Object : call' \in {<<"set", n, o>>, <<"check", n, Checked(n), o>>}
    /\ References' = [References EXCEPT ![n] = Checked(n)]
    /\ UNCHANGED <<Objects, Shallow, Files>>

\* A removed reference compared by what its removal hides, not as missing.
ChecksHidden(n) ==
    /\ n \in deleted /\ Checked(n) # None
    /\ \E old, o \in Object :
          /\ call' = <<"check", n, old, o>>
          /\ out' = IF Checked(n) = old THEN "ok" ELSE "changed"
          /\ References' = IF Checked(n) = old THEN [References EXCEPT ![n] = o]
                           ELSE References
    /\ UNCHANGED <<Objects, Shallow, Files>>

\* An empty shallow list is read as the base's, which Commit leaves alone.
EmptiesShallow ==
    /\ call' = <<"shallow", {}>> /\ out' = "ok"
    /\ Shallow' = base.shallow
    /\ UNCHANGED <<Objects, References, Files>>

Departs == EmptiesShallow \/ \E n \in Name : Uncovers(n) \/ ChecksHidden(n)

(***************************************************************************)
(* A transaction is a Storer: whatever is written to it, whatever fails    *)
(* and wherever a Commit of it stops, its reads and the outcomes of its    *)
(* calls are those of one plain storage, to which Commit makes no          *)
(* difference.  Three calls depart from that, and only in the way Departs  *)
(* says: a set of a removed reference that fails, a check of a removed     *)
(* reference, and a SetShallow of no commits.                              *)
(***************************************************************************)
ImplementsStorer == Promise!Init /\ [][Promise!Next \/ Departs]_(Promise!vars)

(***************************************************************************)
(* At every moment, inside a Commit and after one that failed too, the     *)
(* references of the base name objects that the base has: objects are      *)
(* copied before anything that names them.                                 *)
(***************************************************************************)
BaseComplete == {base.refs[n] : n \in Name} \ {None} \subseteq base.objects

\* Removals the temporal storage refused after they had been recorded.
HalfRemoved == {n \in deleted : temporal.refs[n] # None}
HalfDeleted == {n \in gone \ appended : temporal.logs[n] # <<>>}

(***************************************************************************)
(* When Commit returns nil, the base alone reads like the transaction,     *)
(* whatever failed before and however often Commit ran.  Two exceptions: a *)
(* reference or reflog whose removal failed half-way (Commit writes the    *)
(* former back and drops the latter), and reflogs hold the entries they    *)
(* should but may hold them twice, since a repeated Commit appends again.  *)
(***************************************************************************)
CommitPublishes ==
    out = "committed" /\ stage = 0 =>
        /\ base.objects = Objects
        /\ \A n \in Name \ HalfRemoved : base.refs[n] = Reference(n)
        /\ base.shallow = Shallow
        /\ \A c \in Cell : base.cells[c] = Contents(c)
        /\ \A n \in Name \ HalfDeleted :
              {base.logs[n][k] : k \in 1..Len(base.logs[n])}
                  = {Reflog(n)[k] : k \in 1..Len(Reflog(n))}
============================================================================
