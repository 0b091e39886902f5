-------------------------- MODULE TransactionProofs --------------------------
(***************************************************************************)
(* Proofs about module Transaction, for any names, objects and contents    *)
(* and for any number of calls and of failures: the shape of the state,    *)
(* that the base never names an object it lacks, that a transaction        *)
(* implements module Storer, and that a Commit that returns nil has        *)
(* published what the transaction held.                                    *)
(***************************************************************************)
EXTENDS Transaction, SequenceTheorems, TLAPS

Part == {"objects", "removals", "refs", "index", "shallow", "config", "logRemovals", "logs"}

\* The parts of Commit, counted.
LEMMA PartCount == Len(CommitOrder) = 8
BY DEF CommitOrder

\* Their order: the objects, and only they, come first.
LEMMA Parts ==
    ASSUME NEW k \in 1..8
    PROVE  CommitOrder[k] \in Part /\ (CommitOrder[k] = "objects" <=> k = 1)
<1>1. k = 1 \/ k = 2 \/ k = 3 \/ k = 4 \/ k = 5 \/ k = 6 \/ k = 7 \/ k = 8
  OBVIOUS
<1>2. /\ CommitOrder[1] = "objects" /\ CommitOrder[2] = "removals"
      /\ CommitOrder[3] = "refs" /\ CommitOrder[4] = "index"
      /\ CommitOrder[5] = "shallow" /\ CommitOrder[6] = "config"
      /\ CommitOrder[7] = "logRemovals" /\ CommitOrder[8] = "logs"
  BY DEF CommitOrder
<1> QED BY <1>1, <1>2 DEF Part

\* TypeOK in three parts: what the storages hold, counters, and what Commit has
\* done.
Data ==
    /\ base \in Storage /\ temporal \in Storage
    /\ deleted \subseteq Name /\ set \subseteq Cell
    /\ gone \subseteq Name /\ appended \subseteq Name

Kind == {"none", "failed", "object", "set", "check", "remove", "shallow", "cell", "reflog",
         "commit"}

Counters ==
    /\ stage \in 0..8
    /\ call[1] \in Kind
    /\ out \in {"ok", "error", "missing", "changed", "committed"}
    /\ calls \in 0..MaxCalls /\ faults \in 0..MaxFaults

Progress == done \subseteq IF stage = 0 THEN {} ELSE Items(CommitOrder[stage])

Control == Counters /\ Progress

LEMMA TypeParts == TypeOK <=> Data /\ Control
BY PartCount DEF TypeOK, Data, Control, Counters, Progress, Kind

\* The components of a storage.
LEMMA StorageParts ==
    ASSUME NEW s \in Storage
    PROVE  /\ s.objects \subseteq Object
           /\ s.refs \in [Name -> Object \cup {None}]
           /\ s.shallow \subseteq Object
           /\ s.cells \in [Cell -> Value]
           /\ \A n \in Name : s.logs[n] \in Seq(Object)
BY DEF Storage

\* A storage with another log is a storage.
LEMMA LogType ==
    ASSUME NEW s \in Storage, NEW n \in Name, NEW log \in Seq(Object)
    PROVE  [s EXCEPT !.logs[n] = log] \in Storage
BY DEF Storage

\* The items of a part are of the kind the part copies.
LEMMA ItemTypes ==
    ASSUME NEW part \in Part, NEW i \in Items(part)
    PROVE  /\ part = "objects" => i \in temporal.objects
           /\ part = "removals" => i \in deleted
           /\ part = "refs" => i \in Name /\ temporal.refs[i] # None
           /\ part \in Cell => i = part /\ i \in set
           /\ part = "shallow" => temporal.shallow # {}
           /\ part = "logRemovals" => i \in gone
           /\ part = "logs" => i \in appended
BY CellAssumption DEF Items, Part

\* Copying an item leaves a storage a storage.
LEMMA CopiedType ==
    ASSUME Data, NEW part \in Part, NEW i \in Items(part)
    PROVE  Copied(part, i) \in Storage
<1> USE DEF Data
<1>1. CASE part = "objects"
  BY <1>1, ItemTypes, CellAssumption DEF Copied, Part, Storage
<1>2. CASE part = "removals"
  BY <1>2, ItemTypes, CellAssumption DEF Copied, Part, Storage
<1>3. CASE part = "refs"
  BY <1>3, ItemTypes, CellAssumption DEF Copied, Part, Storage
<1>4. CASE part \in Cell
  BY <1>4, ItemTypes, CellAssumption DEF Copied, Part, Storage
<1>5. CASE part = "shallow"
  BY <1>5, ItemTypes, CellAssumption DEF Copied, Part, Storage
<1>6. CASE part = "logRemovals"
  <2>1. Copied(part, i) = [base EXCEPT !.logs[i] = <<>>]
    BY <1>6, CellAssumption DEF Copied
  <2>2. i \in Name /\ <<>> \in Seq(Object)
    BY <1>6, ItemTypes, EmptySeq
  <2>3. [base EXCEPT !.logs[i] = <<>>] \in Storage
    BY <2>2, LogType
  <2> QED BY <2>1, <2>3
<1>7. CASE part = "logs"
  <2>1. i \in Name
    BY <1>7, ItemTypes
  <2>2. base.logs[i] \in Seq(Object) /\ temporal.logs[i] \in Seq(Object)
    BY <2>1, StorageParts
  <2>3. base.logs[i] \o temporal.logs[i] \in Seq(Object)
    BY <2>2, ConcatProperties
  <2>4. Copied(part, i) = [base EXCEPT !.logs[i] = base.logs[i] \o temporal.logs[i]]
    BY <1>7, CellAssumption DEF Copied
  <2>5. [base EXCEPT !.logs[i] = base.logs[i] \o temporal.logs[i]] \in Storage
    BY <2>1, <2>3, LogType
  <2> QED BY <2>4, <2>5
<1> QED BY <1>1, <1>2, <1>3, <1>4, <1>5, <1>6, <1>7, CellAssumption DEF Part
------------------------------------------------------------------------------
LEMMA TypeInit == Init => TypeOK
<1> SUFFICES ASSUME Init PROVE Data /\ Control
  BY TypeParts
<1>1. base \in Storage
  BY CellAssumption, ObjectAssumption DEF Init, Storage
<1>2. temporal \in Storage
  BY CellAssumption, ObjectAssumption DEF Init, Storage
<1>3. call[1] \in Kind
  BY DEF Init, Kind
<1> QED BY <1>1, <1>2, <1>3, BoundAssumption DEF Init, Data, Control, Counters, Progress

\* A call that is not Commit leaves Commit where it is, at its start.
LEMMA CallControl ==
    ASSUME Control, NEW outcome \in {"ok", "error", "missing", "changed"}, NEW name,
           name[1] \in Kind, Call(name, outcome)
    PROVE  Control'
<1>1. stage = 0 /\ stage' = 0 /\ done' = {} /\ out' = outcome /\ call' = name
  BY DEF Call, Control, Progress
<1>2. calls' \in 0..MaxCalls
  BY BoundAssumption DEF Call, Control, Counters
<1>3. faults' \in 0..MaxFaults
  BY BoundAssumption DEF Call, Control, Counters
<1> QED BY <1>1, <1>2, <1>3 DEF Control, Counters, Progress

\* The steps of Commit.
LEMMA CommitType ==
    ASSUME Data, Control, Commit \/ CommitStep \/ CommitNext \/ CommitFails
    PROVE  Data' /\ Control'
<1>1. CASE Commit
  <2>1. calls' \in 0..MaxCalls
    BY <1>1, BoundAssumption DEF Commit, Control, Counters
  <2> QED BY <1>1, <2>1 DEF Commit, Data, Control, Counters, Progress
<1>2. CASE CommitStep
  <2>1. PICK i \in Items(CommitOrder[stage]) \ done :
           base' = Copied(CommitOrder[stage], i) /\ done' = done \cup {i}
    BY <1>2 DEF CommitStep
  <2>2. stage \in 1..8 /\ stage # 0
    BY <1>2 DEF CommitStep, Control, Counters
  <2>3. base' \in Storage
    BY <2>1, <2>2, Parts, CopiedType
  <2>4. Items(CommitOrder[stage])' = Items(CommitOrder[stage])
    BY <1>2 DEF CommitStep, Items
  <2>5. Data'
    BY <1>2, <2>3 DEF CommitStep, Data
  <2>6. done' \subseteq Items(CommitOrder[stage])'
    BY <2>1, <2>2, <2>4 DEF Control, Progress
  <2> QED BY <1>2, <2>2, <2>5, <2>6 DEF CommitStep, Control, Counters, Progress
<1>3. CASE CommitNext
  <2>1. stage' \in 0..8 /\ done' = {} /\ call'[1] \in Kind
    BY <1>3, PartCount DEF CommitNext, Control, Counters, Kind
  <2> QED BY <1>3, <2>1 DEF CommitNext, Data, Control, Counters, Progress
<1>4. CASE CommitFails
  <2>1. PICK i \in Items(CommitOrder[stage]) \ done :
           base' \in {base} \cup
              IF CommitOrder[stage] # "logs" THEN {}
              ELSE {[base EXCEPT !.logs[i] = @ \o SubSeq(temporal.logs[i], 1, k)] :
                       k \in 1..(Len(temporal.logs[i]) - 1)}
    BY <1>4 DEF CommitFails
  <2>2. base' \in Storage
    <3>1. CASE base' = base
      BY <3>1 DEF Data
    <3>2. CASE base' # base
      <4>1. CommitOrder[stage] = "logs"
        BY <2>1, <3>2
      <4>2. i \in Name
        BY <2>1, <4>1, ItemTypes DEF Part, Data
      <4>3. PICK k \in 1..(Len(temporal.logs[i]) - 1) :
               base' = [base EXCEPT !.logs[i] = base.logs[i] \o SubSeq(temporal.logs[i], 1, k)]
        BY <2>1, <3>2, <4>1
      <4>4. base.logs[i] \in Seq(Object) /\ temporal.logs[i] \in Seq(Object)
        BY <4>2, StorageParts DEF Data
      <4>5. Len(temporal.logs[i]) \in Nat
            /\ \A j \in 1..Len(temporal.logs[i]) : temporal.logs[i][j] \in Object
        BY <4>4, LenProperties, ElementOfSeq
      <4>6. k \in Int /\ \A j \in 1..k : temporal.logs[i][j] \in Object
        BY <4>3, <4>5
      <4>7. SubSeq(temporal.logs[i], 1, k) \in Seq(Object)
        BY <4>6, SubSeqProperties
      <4>8. base.logs[i] \o SubSeq(temporal.logs[i], 1, k) \in Seq(Object)
        BY <4>4, <4>7, ConcatProperties
      <4> QED BY <4>2, <4>3, <4>8, LogType DEF Data
    <3> QED BY <3>1, <3>2
  <2>3. faults' \in 0..MaxFaults /\ call'[1] \in Kind
    BY <1>4, BoundAssumption DEF CommitFails, Control, Counters, Kind
  <2> QED BY <1>4, <2>2, <2>3 DEF CommitFails, Data, Control, Counters, Progress
<1> QED BY <1>1, <1>2, <1>3, <1>4

LEMMA TypeStep == TypeOK /\ [Next]_vars => TypeOK'
<1> SUFFICES ASSUME Data, Control, [Next]_vars PROVE Data' /\ Control'
  BY TypeParts, PartCount DEF TypeOK, Data, Control, Counters, Progress, Kind
<1> USE DEF Written, Kind, Outcomes
<1>1. ASSUME NEW o \in Object, SetEncodedObject(o) PROVE Data' /\ Control'
  <2>1. temporal' \in Storage
    BY <1>1 DEF SetEncodedObject, Storage, Data
  <2> QED BY <1>1, <2>1, CallControl DEF SetEncodedObject, Data
<1>2. ASSUME NEW o \in Object, RawObjectWriter(o) PROVE Data' /\ Control'
  <2>1. base' \in Storage
    BY <1>2 DEF RawObjectWriter, Storage, Data
  <2> QED BY <1>2, <2>1, CallControl DEF RawObjectWriter, Data
<1>3. ASSUME NEW n \in Name, NEW o \in Object, NEW outcome \in Outcomes, Store(n, o, outcome)
      PROVE  Data'
  <2>1. temporal' \in Storage
    BY <1>3 DEF Store, Storage, Data
  <2> QED BY <1>3, <2>1 DEF Store, Data
<1>4. ASSUME NEW n \in Name, NEW o \in Object, NEW outcome \in Outcomes,
             SetReference(n, o, outcome)
      PROVE  Data' /\ Control'
  BY <1>4, <1>3, CallControl DEF SetReference
<1>5. ASSUME NEW n \in Name, NEW o \in Object, NEW outcome \in Outcomes,
             CheckedSetReference(n, o, outcome)
      PROVE  Data' /\ Control'
  BY <1>5, <1>3, CallControl DEF CheckedSetReference
<1>17. ASSUME NEW n \in Name, NEW old \in Object, CheckFails(n, old) PROVE Data' /\ Control'
  <2>1. Call(<<"check", n, old, old>>, IF Checked(n) = None THEN "missing" ELSE "changed")
    BY <1>17 DEF CheckFails
  <2>2. (IF Checked(n) = None THEN "missing" ELSE "changed") \in
           {"ok", "error", "missing", "changed"}
    OBVIOUS
  <2>3. <<"check", n, old, old>>[1] \in Kind
    OBVIOUS
  <2>4. Control'
    BY <2>1, <2>2, <2>3, CallControl
  <2> QED BY <1>17, <2>4 DEF CheckFails, Data
<1>6. ASSUME NEW n \in Name, NEW outcome \in Outcomes, RemoveReference(n, outcome)
      PROVE  Data' /\ Control'
  <2>1. temporal' \in Storage
    BY <1>6 DEF RemoveReference, Storage, Data
  <2> QED BY <1>6, <2>1, CallControl DEF RemoveReference, Data
<1>7. ASSUME NEW s \in Shallows, SetShallow(s) PROVE Data' /\ Control'
  <2>1. temporal' \in Storage
    BY <1>7, ObjectAssumption DEF SetShallow, Storage, Data
  <2> QED BY <1>7, <2>1, CallControl DEF SetShallow, Data
<1>8. ASSUME NEW c \in Cell, NEW v \in Value, SetCell(c, v) PROVE Data' /\ Control'
  <2>1. temporal' \in Storage
    BY <1>8 DEF SetCell, Storage, Data
  <2> QED BY <1>8, <2>1, CallControl DEF SetCell, Data
<1>9. ASSUME NEW n \in Name, NEW e \in Object, NEW outcome \in Outcomes,
             AppendReflog(n, e, outcome)
      PROVE  Data' /\ Control'
  <2>1. temporal.logs[n] \in Seq(Object)
    BY StorageParts DEF Data
  <2>2. Append(temporal.logs[n], e) \in Seq(Object)
    BY <2>1, AppendProperties
  <2>3. \/ temporal' = temporal
        \/ temporal' = [temporal EXCEPT !.logs[n] = Append(temporal.logs[n], e)]
    BY <1>9 DEF AppendReflog
  <2>4. temporal' \in Storage
    BY <2>2, <2>3, LogType DEF Data
  <2> QED BY <1>9, <2>4, CallControl DEF AppendReflog, Data
<1>10. ASSUME NEW n \in Name, NEW outcome \in Outcomes, DeleteReflog(n, outcome)
       PROVE  Data' /\ Control'
  <2>1. <<>> \in Seq(Object)
    BY EmptySeq
  <2>2. temporal' = temporal \/ temporal' = [temporal EXCEPT !.logs[n] = <<>>]
    BY <1>10 DEF DeleteReflog
  <2>3. [temporal EXCEPT !.logs[n] = <<>>] \in Storage
    BY <2>1, LogType DEF Data
  <2>4. temporal' \in Storage
    BY <2>2, <2>3 DEF Data
  <2> QED BY <1>10, <2>4, CallControl DEF DeleteReflog, Data
<1>11. CASE UNCHANGED vars
  BY <1>11 DEF vars, Items, Data, Control, Counters, Progress
<1>12. CASE FailedWrite
  BY <1>12, CallControl DEF FailedWrite, Data
<1> QED
  BY <1>1, <1>2, <1>4, <1>5, <1>6, <1>7, <1>8, <1>9, <1>10, <1>11, <1>12, <1>17, CommitType
  DEF Next, Quiet

\* The state keeps its shape, and Commit only copies what the transaction holds.
THEOREM TypeCorrect == Spec => []TypeOK
BY TypeInit, TypeStep, PTL DEF Spec
------------------------------------------------------------------------------
(***************************************************************************)
(* Why the base stays complete: what the temporal references name is       *)
(* somewhere, and once Commit is past the objects it is in the base.       *)
(***************************************************************************)
Complete(b) == \A n \in Name : b.refs[n] # None => b.refs[n] \in b.objects

NamesHere == \A n \in Name : temporal.refs[n] # None => temporal.refs[n] \in Objects

ObjectsCopied ==
    /\ stage > 1 => temporal.objects \subseteq base.objects
    /\ stage = 1 => done \subseteq base.objects

CompleteInv == Complete(base) /\ NamesHere /\ ObjectsCopied

LEMMA CompleteMeans == Complete(base) <=> BaseComplete
BY DEF Complete, BaseComplete

LEMMA CompleteInit == Init => CompleteInv
BY DEF Init, CompleteInv, Complete, NamesHere, ObjectsCopied

\* Copying an item: the parts after the objects find the objects copied.
LEMMA CompleteCopy ==
    ASSUME Data, Control, CompleteInv, CommitStep
    PROVE  CompleteInv'
<1>1. PICK i \in Items(CommitOrder[stage]) \ done : 
          base' = Copied(CommitOrder[stage], i) /\ done' = done \cup {i}
  BY DEF CommitStep
<1>2. stage \in 1..8 /\ UNCHANGED <<temporal, stage>>
  BY DEF CommitStep, Control, Counters
<1> DEFINE part == CommitOrder[stage]
<1>3. part \in Part /\ (part = "objects" <=> stage = 1)
  BY <1>2, Parts
<1>4. base.objects \subseteq base'.objects
  BY <1>1, <1>3, CellAssumption DEF Copied, Data, Storage, Part
<1>5. NamesHere' /\ ObjectsCopied'
  <2>1. stage = 1 => i \in base'.objects
    BY <1>1, <1>3, CellAssumption DEF Copied, Data, Storage, Part
  <2> QED BY <1>1, <1>2, <1>4, <2>1 DEF CompleteInv, NamesHere, ObjectsCopied, Objects
<1>6. Complete(base')
  <2>1. CASE part = "removals"
    <3>1. base' = [base EXCEPT !.refs[i] = None]
      BY <1>1, <2>1, CellAssumption DEF Copied
    <3> QED BY <3>1 DEF CompleteInv, Complete, Data, Storage
  <2>2. CASE part = "refs"
    <3>1. i \in Name /\ temporal.refs[i] # None
      BY <1>1, <1>3, <2>2, ItemTypes
    <3>2. temporal.refs[i] \in base.objects
      BY <1>2, <1>3, <2>2, <3>1 DEF CompleteInv, NamesHere, ObjectsCopied, Objects
    <3>3. base' = [base EXCEPT !.refs[i] = temporal.refs[i]]
      BY <1>1, <2>2, CellAssumption DEF Copied
    <3> QED BY <3>1, <3>2, <3>3 DEF CompleteInv, Complete, Data, Storage
  <2>3. CASE part \notin {"removals", "refs"}
    <3>1. base'.refs = base.refs
      BY <1>1, <1>3, <2>3, CellAssumption DEF Copied, Data, Storage, Part
    <3> QED BY <1>4, <3>1 DEF CompleteInv, Complete
  <2> QED BY <2>1, <2>2, <2>3
<1> QED BY <1>5, <1>6 DEF CompleteInv, Complete

LEMMA CompleteStep == TypeOK /\ CompleteInv /\ [Next]_vars => CompleteInv'
<1> SUFFICES ASSUME Data, Control, CompleteInv, [Next]_vars PROVE CompleteInv'
  BY TypeParts
<1> USE DEF CompleteInv, Complete, NamesHere, ObjectsCopied, Objects
<1>1. ASSUME NEW o \in Object, SetEncodedObject(o) PROVE CompleteInv'
  BY <1>1 DEF SetEncodedObject, Call, Data, Storage
<1>2. ASSUME NEW o \in Object, RawObjectWriter(o) PROVE CompleteInv'
  BY <1>2 DEF RawObjectWriter, Call, Data, Storage
<1>3. ASSUME NEW n \in Name, NEW o \in Objects, NEW outcome, Store(n, o, outcome), stage' = 0
      PROVE  CompleteInv'
  BY <1>3 DEF Store, Data, Storage, Written
<1>4. ASSUME NEW n \in Name, NEW o \in Object, NEW outcome,
             SetReference(n, o, outcome) \/ CheckedSetReference(n, o, outcome)
      PROVE  CompleteInv'
  BY <1>4, <1>3 DEF SetReference, CheckedSetReference, Call
<1>5. ASSUME UNCHANGED <<base, temporal>>, stage' = 0 PROVE CompleteInv'
  BY <1>5
<1>17. ASSUME FailedWrite \/ \E n \in Name, old \in Object : CheckFails(n, old)
       PROVE  CompleteInv'
  BY <1>5, <1>17 DEF FailedWrite, CheckFails, Call
<1>6. ASSUME NEW n \in Name, NEW outcome, RemoveReference(n, outcome) PROVE CompleteInv'
  BY <1>6 DEF RemoveReference, Call, Data, Storage, Written
<1>7. ASSUME UNCHANGED base, stage' = 0,
             temporal'.refs = temporal.refs, temporal'.objects = temporal.objects
      PROVE  CompleteInv'
  BY <1>7
<1>8. ASSUME NEW s \in Shallows, SetShallow(s) PROVE CompleteInv'
  BY <1>8, <1>7 DEF SetShallow, Call, Data, Storage
<1>9. ASSUME NEW c \in Cell, NEW v \in Value, SetCell(c, v) PROVE CompleteInv'
  BY <1>9, <1>7 DEF SetCell, Call, Data, Storage
<1>10. ASSUME NEW n \in Name, NEW e \in Object, NEW outcome, AppendReflog(n, e, outcome)
       PROVE  CompleteInv'
  BY <1>10, <1>7 DEF AppendReflog, Call, Data, Storage, Written
<1>11. ASSUME NEW n \in Name, NEW outcome, DeleteReflog(n, outcome)
       PROVE  CompleteInv'
  BY <1>11, <1>7 DEF DeleteReflog, Call, Data, Storage, Written
<1>12. CASE Commit
  BY <1>12 DEF Commit
<1>13. CASE CommitStep
  BY <1>13, CompleteCopy
<1>14. CASE CommitNext
  <2>1. stage = 1 => temporal.objects \subseteq base.objects
    BY <1>14, Parts, CellAssumption DEF CommitNext, Items
  <2> QED BY <1>14, <2>1 DEF CommitNext, Control, Counters
<1>15. CASE CommitFails
  <2>1. base'.refs = base.refs /\ base'.objects = base.objects
    BY <1>15 DEF CommitFails, Data, Storage
  <2> QED BY <1>15, <2>1 DEF CommitFails
<1>16. CASE UNCHANGED vars
  BY <1>16 DEF vars
<1> QED
  BY <1>1, <1>2, <1>4, <1>6, <1>8, <1>9, <1>10, <1>11, <1>12, <1>13, <1>14, <1>15, <1>16,
     <1>17
     DEF Next, Quiet

\* The base names only objects it has, inside Commit and wherever one stopped.
THEOREM BaseStaysComplete == Spec => []BaseComplete
<1>1. TypeOK /\ CompleteInv => BaseComplete
  BY CompleteMeans DEF CompleteInv
<1> QED BY <1>1, TypeCorrect, CompleteInit, CompleteStep, PTL DEF Spec
------------------------------------------------------------------------------
(***************************************************************************)
(* A transaction implements Storer.  The reads are functions of the two    *)
(* storages and the marks; each call changes them as Storer says, and a    *)
(* step of Commit does not change them at all, because an item is copied   *)
(* to a place the temporal storage or a mark hides.                        *)
(***************************************************************************)
Reads == <<Objects, References, Shallow, Files>>

LEMMA ReadsInit == Init => Promise!Init
<1> SUFFICES ASSUME Init PROVE Promise!Init
  OBVIOUS
<1>1. Data
  BY TypeInit, TypeParts
<1>2. \A n \in Name : Reference(n) \in Object \cup {None}
  BY <1>1 DEF Reference, Data, Storage
<1>3. \A c \in Cell : Contents(c) \in Value
  BY <1>1 DEF Contents, Data, Storage
<1>4. Objects \subseteq Object /\ Shallow \subseteq Object
  BY <1>1 DEF Objects, Shallow, Data, Storage
<1> QED BY <1>2, <1>3, <1>4 DEF Init, Promise!Init, References, Files

\* What is read does not change when nothing that is read from does.
LEMMA SameReads ==
    ASSUME UNCHANGED <<deleted, set>>,
           base'.objects = base.objects, temporal'.objects = temporal.objects,
           base'.refs = base.refs, temporal'.refs = temporal.refs,
           base'.shallow = base.shallow, temporal'.shallow = temporal.shallow,
           base'.cells = base.cells, temporal'.cells = temporal.cells
    PROVE  UNCHANGED Reads
BY DEF Reads, References, Files, Objects, Reference, Shallow, Contents

\* A step of Commit is invisible to the reads.
LEMMA CopyHidden ==
    ASSUME Data, Control, CommitStep
    PROVE  UNCHANGED Reads
<1>1. PICK i \in Items(CommitOrder[stage]) \ done : base' = Copied(CommitOrder[stage], i)
  BY DEF CommitStep
<1>2. stage \in 1..8 /\ UNCHANGED <<temporal, deleted, set>>
  BY DEF CommitStep, Control, Counters
<1> DEFINE part == CommitOrder[stage]
<1>3. part \in Part
  BY <1>2, Parts
<1>4. UNCHANGED Objects
  <2>1. CASE part = "objects"
    <3>1. base' = [base EXCEPT !.objects = @ \cup {i}]
      BY <1>1, <2>1, CellAssumption DEF Copied
    <3>2. i \in temporal.objects
      BY <1>1, <1>3, <2>1, ItemTypes
    <3> QED BY <1>2, <3>1, <3>2 DEF Objects, Data, Storage
  <2>2. CASE part # "objects"
    BY <1>1, <1>2, <1>3, <2>2, CellAssumption DEF Copied, Part, Objects, Data, Storage
  <2> QED BY <2>1, <2>2
<1>5. UNCHANGED References
  <2>1. CASE part = "removals" \/ part = "refs"
    <3>1. i \in Name /\ (i \in deleted \/ temporal.refs[i] # None)
      BY <1>1, <1>3, <2>1, ItemTypes DEF Data
    <3>2. \A n \in Name \ {i} : base'.refs[n] = base.refs[n]
      BY <1>1, <2>1, <3>1, CellAssumption DEF Copied, Data, Storage
    <3> QED BY <1>2, <3>1, <3>2 DEF References, Reference
  <2>2. CASE part \notin {"removals", "refs"}
    <3>1. base'.refs = base.refs
      BY <1>1, <1>3, <2>2, CellAssumption DEF Copied, Part, Data, Storage
    <3> QED BY <1>2, <3>1 DEF References, Reference
  <2> QED BY <2>1, <2>2
<1>6. UNCHANGED Shallow
  <2>1. CASE part = "shallow"
    <3>1. temporal.shallow # {}
      BY <1>1, <1>3, <2>1, ItemTypes
    <3> QED BY <1>2, <3>1 DEF Shallow
  <2>2. CASE part # "shallow"
    <3>1. base'.shallow = base.shallow
      BY <1>1, <1>3, <2>2, CellAssumption DEF Copied, Part, Data, Storage
    <3> QED BY <1>2, <3>1 DEF Shallow
  <2> QED BY <2>1, <2>2
<1>7. UNCHANGED Files
  <2>1. CASE part \in Cell
    <3>1. i \in Cell /\ i \in set
      BY <1>1, <1>3, <2>1, ItemTypes
    <3>2. \A c \in Cell \ {i} : base'.cells[c] = base.cells[c]
      BY <1>1, <2>1, <3>1, CellAssumption DEF Copied, Data, Storage
    <3> QED BY <1>2, <3>1, <3>2 DEF Files, Contents
  <2>2. CASE part \notin Cell
    <3>1. base'.cells = base.cells
      BY <1>1, <1>3, <2>2, CellAssumption DEF Copied, Part, Data, Storage
    <3> QED BY <1>2, <3>1 DEF Files, Contents
  <2> QED BY <2>1, <2>2
<1> QED BY <1>4, <1>5, <1>6, <1>7 DEF Reads

\* Storing a reference changes what is read under its name, and only that;
\* a store that fails shows what a removal of that name hid.
LEMMA StoreReads ==
    ASSUME Data, NEW n \in Name, NEW o \in Object, NEW outcome \in Outcomes,
           Store(n, o, outcome)
    PROVE  /\ outcome = "ok" => References' = [References EXCEPT ![n] = o]
           /\ outcome = "error" =>
                 References' = [References EXCEPT ![n] = Checked(n)]
           /\ UNCHANGED <<Objects, Shallow, Files>>
<1>1. /\ temporal'.refs = IF outcome = "ok" THEN [temporal.refs EXCEPT ![n] = o]
                           ELSE temporal.refs
      /\ temporal'.objects = temporal.objects /\ temporal'.shallow = temporal.shallow
      /\ temporal'.cells = temporal.cells
      /\ UNCHANGED <<base, set>> /\ deleted' = deleted \ {n}
  BY DEF Store, Data, Storage, Written
<1>2. \A m \in Name : Reference(m)' = IF m # n THEN Reference(m)
                                       ELSE IF outcome = "ok" THEN o ELSE Checked(n)
  BY <1>1, ObjectAssumption DEF Reference, Checked, Data, Storage
<1>3. outcome = "ok" => References' = [References EXCEPT ![n] = o]
  BY <1>2 DEF References
<1>4. outcome = "error" => References' = [References EXCEPT ![n] = Checked(n)]
  BY <1>2 DEF References
<1> QED BY <1>1, <1>3, <1>4 DEF Objects, Shallow, Files, Contents

\* What is compared is what is read, unless the reference was removed here.
LEMMA CheckedIsRead ==
    ASSUME NEW n \in Name
    PROVE  /\ n \notin deleted => Checked(n) = References[n]
           /\ n \in deleted => References[n] = None
BY DEF Checked, Reference, References

\* A set of a reference, plain or checked.
LEMMA SetSteps ==
    ASSUME Data, NEW n \in Name, NEW o \in Object, NEW outcome \in Outcomes,
           SetReference(n, o, outcome) \/ CheckedSetReference(n, o, outcome)
    PROVE  Promise!Next \/ Departs
<1>1. /\ Store(n, o, outcome) /\ out' = outcome
      /\ \/ call' = <<"set", n, o>>
         \/ call' = <<"check", n, Checked(n), o>> /\ Checked(n) # None
  BY DEF SetReference, CheckedSetReference, Call
<1>2. /\ outcome = "ok" => References' = [References EXCEPT ![n] = o]
      /\ outcome = "error" => References' = [References EXCEPT ![n] = Checked(n)]
      /\ UNCHANGED <<Objects, Shallow, Files>>
  BY <1>1, StoreReads
<1>3. Checked(n) \in Object \cup {None}
  BY DEF Checked, Data, Storage
<1>4. CASE outcome = "error" /\ n \in deleted
  <2>1. Uncovers(n)
    BY <1>1, <1>2, <1>4 DEF Uncovers
  <2> QED BY <2>1 DEF Departs
<1>5. CASE outcome = "error" /\ n \notin deleted
  <2>1. References' = References
    BY <1>2, <1>5, CheckedIsRead DEF References
  <2>2. Promise!Fails
    BY <1>1, <1>2, <1>5, <2>1 DEF Promise!Fails, Promise!contents
  <2> QED BY <2>2 DEF Promise!Next
<1>6. CASE outcome = "ok" /\ call' = <<"set", n, o>>
  <2>1. Promise!SetReference(n, o)
    BY <1>1, <1>2, <1>6 DEF Promise!SetReference, Promise!Ends
  <2> QED BY <2>1 DEF Promise!Next
<1>7. CASE outcome = "ok" /\ call' = <<"check", n, Checked(n), o>> /\ Checked(n) # None
  <2>1. Checked(n) \in Object
    BY <1>3, <1>7
  <2>2. CASE n \in deleted
    <3>1. ChecksHidden(n)
      BY <1>1, <1>2, <1>7, <2>1, <2>2 DEF ChecksHidden
    <3> QED BY <3>1 DEF Departs
  <2>3. CASE n \notin deleted
    <3>1. References[n] = Checked(n)
      BY <2>3, CheckedIsRead
    <3>2. Promise!CheckAndSetReference(n, Checked(n), o)
      BY <1>1, <1>2, <1>7, <3>1 DEF Promise!CheckAndSetReference, Promise!Ends
    <3> QED BY <2>1, <3>2 DEF Promise!Next
  <2> QED BY <2>2, <2>3
<1> QED BY <1>1, <1>4, <1>5, <1>6, <1>7 DEF Outcomes

\* A check that does not find the old value.
LEMMA CheckSteps ==
    ASSUME NEW n \in Name, NEW old \in Object, CheckFails(n, old)
    PROVE  Promise!Next \/ Departs
<1>1. /\ UNCHANGED <<base, temporal, deleted, set>> /\ call' = <<"check", n, old, old>>
      /\ out' = (IF Checked(n) = None THEN "missing" ELSE "changed") /\ Checked(n) # old
  BY DEF CheckFails, Call
<1>2. UNCHANGED Reads
  BY <1>1, SameReads
<1>3. CASE n \in deleted /\ Checked(n) # None
  <2>1. ChecksHidden(n)
    BY <1>1, <1>2, <1>3 DEF ChecksHidden, Reads
  <2> QED BY <2>1 DEF Departs
<1>4. CASE ~ (n \in deleted /\ Checked(n) # None)
  <2>1. /\ Checked(n) = None => References[n] = None
        /\ Checked(n) # None => References[n] = Checked(n)
    BY <1>4, CheckedIsRead
  <2>2. old # None
    BY ObjectAssumption
  <2>3. Promise!CheckAndSetReference(n, old, old)
    BY <1>1, <1>2, <2>1, <2>2 DEF Promise!CheckAndSetReference, Promise!Ends, Reads
  <2> QED BY <2>3 DEF Promise!Next
<1> QED BY <1>3, <1>4

LEMMA ReadsStep ==
    ASSUME TypeOK, [Next]_vars
    PROVE  [Promise!Next \/ Departs]_(Promise!vars)
<1>0. Data /\ Control
  BY TypeParts
<1>1. ASSUME UNCHANGED Reads, \/ out' = "error"
                              \/ /\ out' \in {"ok", "committed"}
                                 /\ call'[1] \in {"reflog", "commit"}
      PROVE  Promise!Next
  BY <1>1 DEF Promise!Next, Promise!Other, Promise!Fails, Promise!contents, Reads
<1> USE DEF Promise!Ends
<1>2. ASSUME NEW o \in Object, SetEncodedObject(o) PROVE Promise!Next
  <2>1. Promise!SetEncodedObject(o)
    BY <1>0, <1>2 DEF SetEncodedObject, Call, Promise!SetEncodedObject, Objects, Reference,
       Shallow, Contents, References, Files, Data, Storage
  <2> QED BY <2>1 DEF Promise!Next
<1>3. ASSUME NEW o \in Object, RawObjectWriter(o) PROVE Promise!Next
  <2>1. Promise!SetEncodedObject(o)
    BY <1>0, <1>3 DEF RawObjectWriter, Call, Promise!SetEncodedObject, Objects, Reference,
       Shallow, Contents, References, Files, Data, Storage
  <2> QED BY <2>1 DEF Promise!Next
<1>4. CASE FailedWrite
  <2>1. UNCHANGED Reads /\ out' = "error"
    BY <1>4, SameReads DEF FailedWrite, Call
  <2> QED BY <1>1, <2>1
<1>6. ASSUME NEW n \in Name, NEW outcome \in Outcomes, RemoveReference(n, outcome)
      PROVE  Promise!Next
  <2>1. /\ deleted' = deleted \cup {n} /\ out' = outcome /\ call' = <<"remove", n>>
        /\ UNCHANGED <<base, set>>
        /\ \A m \in Name \ {n} : temporal'.refs[m] = temporal.refs[m]
        /\ temporal'.objects = temporal.objects /\ temporal'.shallow = temporal.shallow
        /\ temporal'.cells = temporal.cells
    BY <1>0, <1>6 DEF RemoveReference, Call, Data, Storage, Written
  <2>2. \A m \in Name : Reference(m)' = IF m = n THEN None ELSE Reference(m)
    BY <2>1 DEF Reference
  <2>3. Promise!RemoveReference(n, outcome)
    BY <2>1, <2>2 DEF Promise!RemoveReference, Objects, Shallow, Contents, References, Files
  <2> QED BY <2>3 DEF Promise!Next, Outcomes
<1>7. ASSUME NEW s \in Shallows, SetShallow(s) PROVE Promise!Next \/ Departs
  <2>1. s \in SUBSET Object
    BY ObjectAssumption
  <2>2. /\ UNCHANGED <<base, set, deleted>> /\ out' = "ok" /\ call' = <<"shallow", s>>
        /\ temporal'.shallow = s /\ temporal'.refs = temporal.refs
        /\ temporal'.objects = temporal.objects /\ temporal'.cells = temporal.cells
    BY <1>0, <1>7 DEF SetShallow, Call, Data, Storage
  <2>3. UNCHANGED <<Objects, References, Files>>
    BY <2>2 DEF Objects, Reference, Contents, References, Files
  <2>4. CASE s = {}
    <3>1. EmptiesShallow
      BY <2>2, <2>3, <2>4 DEF EmptiesShallow, Shallow
    <3> QED BY <3>1 DEF Departs
  <2>5. CASE s # {}
    <3>1. Promise!SetShallow(s)
      BY <2>2, <2>3, <2>5 DEF Promise!SetShallow, Shallow
    <3> QED BY <2>1, <3>1 DEF Promise!Next
  <2> QED BY <2>4, <2>5
<1>8. ASSUME NEW c \in Cell, NEW v \in Value, SetCell(c, v) PROVE Promise!Next
  <2>1. /\ UNCHANGED <<base, deleted>> /\ set' = set \cup {c} /\ out' = "ok"
        /\ call' = <<"cell", c, v>>
        /\ temporal'.cells = [temporal.cells EXCEPT ![c] = v]
        /\ temporal'.refs = temporal.refs /\ temporal'.objects = temporal.objects
        /\ temporal'.shallow = temporal.shallow
    BY <1>0, <1>8 DEF SetCell, Call, Data, Storage
  <2>2. \A d \in Cell : Contents(d)' = IF d = c THEN v ELSE Contents(d)
    BY <1>0, <2>1 DEF Contents, Data, Storage
  <2>3. Promise!SetCell(c, v)
    BY <2>1, <2>2 DEF Promise!SetCell, Objects, Reference, Shallow, References, Files
  <2> QED BY <2>3 DEF Promise!Next
<1>9. ASSUME NEW n \in Name, NEW e \in Object, NEW outcome \in Outcomes,
             AppendReflog(n, e, outcome)
      PROVE  Promise!Next
  <2>1. UNCHANGED Reads
    BY <1>0, <1>9, SameReads DEF AppendReflog, Data, Storage, Written
  <2>2. call'[1] = "reflog" /\ out' \in Outcomes
    BY <1>9 DEF AppendReflog, Call
  <2> QED BY <2>1, <2>2, <1>1 DEF Outcomes
<1>10. ASSUME NEW n \in Name, NEW outcome \in Outcomes, DeleteReflog(n, outcome)
       PROVE  Promise!Next
  <2>1. UNCHANGED Reads
    BY <1>0, <1>10, SameReads DEF DeleteReflog, Data, Storage, Written
  <2>2. call'[1] = "reflog" /\ out' \in Outcomes
    BY <1>10 DEF DeleteReflog, Call
  <2> QED BY <2>1, <2>2, <1>1 DEF Outcomes
<1>11. ASSUME UNCHANGED Reads, UNCHANGED <<call, out>> PROVE UNCHANGED Promise!vars
  BY <1>11 DEF Promise!vars, Reads
<1>12. CASE Commit
  BY <1>12, <1>11, SameReads DEF Commit
<1>13. CASE CommitStep
  BY <1>0, <1>13, <1>11, CopyHidden DEF CommitStep
<1>14. CASE CommitNext
  <2>1. UNCHANGED Reads
    BY <1>14, SameReads DEF CommitNext
  <2>2. UNCHANGED <<call, out>> \/ (out' = "committed" /\ call'[1] = "commit")
    BY <1>14 DEF CommitNext
  <2> QED BY <2>1, <2>2, <1>1, <1>11
<1>15. CASE CommitFails
  <2>1. UNCHANGED Reads
    BY <1>0, <1>15, SameReads DEF CommitFails, Data, Storage
  <2>2. out' = "error"
    BY <1>15 DEF CommitFails
  <2> QED BY <2>1, <2>2, <1>1
<1>16. CASE UNCHANGED vars
  BY <1>16, <1>11, SameReads DEF vars
<1> QED
  BY <1>0, <1>2, <1>3, <1>4, <1>6, <1>7, <1>8, <1>9, <1>10, <1>12, <1>13, <1>14, <1>15,
     <1>16, SetSteps, CheckSteps
  DEF Next, Quiet

(***************************************************************************)
(* A transaction implements Storer: for all callers, whichever calls fail, *)
(* however often Commit runs and wherever it stops, its reads and outcomes *)
(* are those of one plain storage, but for the three calls of Departs and  *)
(* what it says they do.                                                   *)
(***************************************************************************)
THEOREM TransactionImplementsStorer == Spec => ImplementsStorer
<1>1. TypeOK /\ [Next]_vars => [Promise!Next \/ Departs]_(Promise!vars)
  BY ReadsStep
<1> QED BY <1>1, ReadsInit, TypeCorrect, PTL DEF Spec, ImplementsStorer
------------------------------------------------------------------------------
(***************************************************************************)
(* Why a Commit that returns nil has published everything.  Settled(k, i)  *)
(* says that Commit has dealt with item i of its part k: it is past that   *)
(* part, or has returned nil, or has the item among those done.  What is   *)
(* settled agrees in the base, and later parts do not disturb it: removals *)
(* spare what the part after them writes back, and a reflog is emptied     *)
(* before its new entries are appended.                                    *)
(***************************************************************************)
Settled(k, i) ==
    \/ stage > k
    \/ stage = 0 /\ out = "committed"
    \/ stage = k /\ i \in done

Entries(log) == {log[k] : k \in 1..Len(log)}

\* A reflog that is in neither set has no entries for Commit.
LogMarks == \A n \in Name \ (gone \cup appended) : temporal.logs[n] = <<>>

ObjectsSettled == \A o \in temporal.objects : Settled(1, o) => o \in base.objects

RefsSettled ==
    /\ \A n \in deleted : temporal.refs[n] = None /\ Settled(2, n) => base.refs[n] = None
    /\ \A n \in Name : temporal.refs[n] # None /\ Settled(3, n) =>
                          base.refs[n] = temporal.refs[n]

CellsSettled ==
    /\ \A c \in set : Settled(IF c = "index" THEN 4 ELSE 6, c) =>
                         base.cells[c] = temporal.cells[c]
    /\ temporal.shallow # {} /\ Settled(5, "shallow") => base.shallow = temporal.shallow

LogsSettled ==
    /\ \A n \in gone : Settled(7, n) =>
          base.logs[n] = IF n \in appended /\ Settled(8, n) THEN temporal.logs[n] ELSE <<>>
    /\ \A n \in appended \ gone : Settled(8, n) =>
          Entries(temporal.logs[n]) \subseteq Entries(base.logs[n])

PublishInv == LogMarks /\ ObjectsSettled /\ RefsSettled /\ CellsSettled /\ LogsSettled

\* The entries of two reflogs, one after the other.
LEMMA EntriesOfBoth ==
    ASSUME NEW s \in Seq(Object), NEW t \in Seq(Object)
    PROVE  Entries(s \o t) = Entries(s) \cup Entries(t)
<1>1. /\ Len(s \o t) = Len(s) + Len(t) /\ Len(s) \in Nat /\ Len(t) \in Nat
      /\ \A k \in 1..Len(s) + Len(t) :
            (s \o t)[k] = IF k <= Len(s) THEN s[k] ELSE t[k - Len(s)]
  BY ConcatProperties, LenProperties
<1>2. ASSUME NEW k \in 1..Len(s) PROVE s[k] \in Entries(s \o t)
  <2>1. k \in 1..Len(s \o t) /\ (s \o t)[k] = s[k]
    BY <1>1
  <2> QED BY <2>1 DEF Entries
<1>3. ASSUME NEW k \in 1..Len(t) PROVE t[k] \in Entries(s \o t)
  <2>1. k + Len(s) \in 1..Len(s \o t) /\ (s \o t)[k + Len(s)] = t[k]
    BY <1>1
  <2> QED BY <2>1 DEF Entries
<1>4. ASSUME NEW k \in 1..Len(s \o t) PROVE (s \o t)[k] \in Entries(s) \cup Entries(t)
  <2>1. CASE k <= Len(s)
    BY <1>1, <2>1 DEF Entries
  <2>2. CASE k > Len(s)
    <3>1. k - Len(s) \in 1..Len(t) /\ (s \o t)[k] = t[k - Len(s)]
      BY <1>1, <2>2
    <3> QED BY <3>1 DEF Entries
  <2> QED BY <1>1, <2>1, <2>2
<1> QED BY <1>2, <1>3, <1>4 DEF Entries

\* The parts of Commit by their number.
LEMMA PartNumbers ==
    /\ CommitOrder[1] = "objects" /\ CommitOrder[2] = "removals"
    /\ CommitOrder[3] = "refs" /\ CommitOrder[4] = "index"
    /\ CommitOrder[5] = "shallow" /\ CommitOrder[6] = "config"
    /\ CommitOrder[7] = "logRemovals" /\ CommitOrder[8] = "logs"
BY DEF CommitOrder

\* What there is to do in each part.
LEMMA ItemSets ==
    /\ Items("objects") = temporal.objects /\ Items("removals") = deleted
    /\ Items("refs") = {n \in Name : temporal.refs[n] # None}
    /\ Items("index") = {"index"} \cap set /\ Items("config") = {"config"} \cap set
    /\ Items("shallow") = IF temporal.shallow = {} THEN {} ELSE {"shallow"}
    /\ Items("logRemovals") = gone /\ Items("logs") = appended
BY CellAssumption DEF Items

\* A reflog of the base with the new entries.
Longer(n) == base.logs[n] \o temporal.logs[n]

\* The base after item i of part k.
ItemCopied(k, i) ==
    /\ base'.objects = base.objects \cup (IF k = 1 THEN {i} ELSE {})
    /\ \A n \in Name : base'.refs[n] =
          IF k = 2 /\ n = i THEN None
          ELSE IF k = 3 /\ n = i THEN temporal.refs[n] ELSE base.refs[n]
    /\ \A c \in Cell : base'.cells[c] =
          IF k \in {4, 6} /\ c = i THEN temporal.cells[c] ELSE base.cells[c]
    /\ base'.shallow = IF k = 5 THEN temporal.shallow ELSE base.shallow
    /\ \A n \in Name : base'.logs[n] =
          IF k = 7 /\ n = i THEN <<>>
          ELSE IF k = 8 /\ n = i THEN Longer(n) ELSE base.logs[n]

LEMMA CopyEffect ==
    ASSUME Data, NEW k \in 1..8, NEW i \in Items(CommitOrder[k]),
           base' = Copied(CommitOrder[k], i)
    PROVE  ItemCopied(k, i)
<1> USE DEF ItemCopied
<1>1. base \in Storage
  BY DEF Data
<1>2. CASE k = 1
  <2>1. base' = [base EXCEPT !.objects = base.objects \cup {i}]
    BY <1>2, PartNumbers, CellAssumption DEF Copied
  <2> QED BY <1>1, <1>2, <2>1 DEF Storage
<1>3. CASE k = 2
  <2>1. base' = [base EXCEPT !.refs[i] = None]
    BY <1>3, PartNumbers, CellAssumption DEF Copied
  <2> QED BY <1>1, <1>3, <2>1 DEF Storage
<1>4. CASE k = 3
  <2>1. base' = [base EXCEPT !.refs[i] = temporal.refs[i]]
    BY <1>4, PartNumbers, CellAssumption DEF Copied
  <2> QED BY <1>1, <1>4, <2>1 DEF Storage
<1>5. CASE k = 4 \/ k = 6
  <2>1. base' = [base EXCEPT !.cells[i] = temporal.cells[i]]
    BY <1>5, PartNumbers, CellAssumption DEF Copied
  <2> QED BY <1>1, <1>5, <2>1 DEF Storage
<1>6. CASE k = 5
  <2>1. base' = [base EXCEPT !.shallow = temporal.shallow]
    BY <1>6, PartNumbers, CellAssumption DEF Copied
  <2> QED BY <1>1, <1>6, <2>1 DEF Storage
<1>7. CASE k = 7
  <2>1. base' = [base EXCEPT !.logs[i] = <<>>]
    BY <1>7, PartNumbers, CellAssumption DEF Copied
  <2> QED BY <1>1, <1>7, <2>1 DEF Storage
<1>8. CASE k = 8
  <2>1. base' = [base EXCEPT !.logs[i] = Longer(i)]
    BY <1>8, PartNumbers, CellAssumption DEF Copied, Longer
  <2> QED BY <1>1, <1>8, <2>1 DEF Storage
<1> QED BY <1>2, <1>3, <1>4, <1>5, <1>6, <1>7, <1>8

\* Copying an item settles it and nothing else, and keeps what is settled.
LEMMA PublishCopy ==
    ASSUME Data, Control, PublishInv, CommitStep
    PROVE  PublishInv'
<1>1. PICK i \in Items(CommitOrder[stage]) \ done :
          base' = Copied(CommitOrder[stage], i) /\ done' = done \cup {i}
  BY DEF CommitStep
<1>2. stage \in 1..8 /\ UNCHANGED <<temporal, deleted, set, gone, appended, stage, out>>
  BY DEF CommitStep, Control, Counters
<1>3. ItemCopied(stage, i)
  BY <1>1, <1>2, CopyEffect
<1>4. /\ stage = 3 => temporal.refs[i] # None
      /\ stage = 4 => i = "index"
      /\ stage = 6 => i = "config"
      /\ stage = 8 => i \in appended
  BY <1>1, PartNumbers, ItemSets
<1>5. ASSUME NEW k \in 1..8, NEW j
      PROVE  Settled(k, j)' <=> (Settled(k, j) \/ (stage = k /\ j = i))
  BY <1>1, <1>2 DEF Settled
<1>6. deleted \subseteq Name /\ set \subseteq Cell /\ gone \subseteq Name /\ appended \subseteq Name
  BY DEF Data
<1>7. LogMarks'
  BY <1>2 DEF PublishInv, LogMarks
<1>8. ObjectsSettled'
  BY <1>2, <1>3, <1>5 DEF PublishInv, ObjectsSettled, ItemCopied
<1>9. RefsSettled'
  <2>1. ASSUME NEW n \in deleted, temporal.refs[n] = None, Settled(2, n)'
        PROVE  base'.refs[n] = None
    <3>1. Settled(2, n) \/ (stage = 2 /\ n = i)
      BY <1>5, <2>1
    <3> QED BY <1>3, <1>4, <1>6, <2>1, <3>1 DEF PublishInv, RefsSettled, ItemCopied
  <2>2. ASSUME NEW n \in Name, temporal.refs[n] # None, Settled(3, n)'
        PROVE  base'.refs[n] = temporal.refs[n]
    <3>1. Settled(3, n) \/ (stage = 3 /\ n = i)
      BY <1>5, <2>2
    <3>2. CASE stage = 3 /\ n = i
      BY <1>3, <3>2 DEF ItemCopied
    <3>3. CASE Settled(3, n)
      <4>1. stage # 2
        BY <3>3 DEF Settled
      <4> QED BY <1>3, <2>2, <3>3, <4>1 DEF PublishInv, RefsSettled, ItemCopied
    <3> QED BY <3>1, <3>2, <3>3
  <2> QED BY <1>2, <2>1, <2>2 DEF RefsSettled
<1>10. CellsSettled'
  <2>1. ASSUME NEW c \in set, Settled(IF c = "index" THEN 4 ELSE 6, c)'
        PROVE  base'.cells[c] = temporal.cells[c]
    <3>1. c \in Cell /\ (c = "index" \/ c = "config")
      BY <1>6, CellAssumption
    <3>2. CASE stage \in {4, 6} /\ c = i
      BY <1>3, <3>1, <3>2 DEF ItemCopied
    <3>3. CASE ~ (stage \in {4, 6} /\ c = i)
      <4>1. Settled(IF c = "index" THEN 4 ELSE 6, c)
        BY <1>5, <2>1, <3>3
      <4> QED BY <1>3, <3>1, <3>3, <4>1 DEF PublishInv, CellsSettled, ItemCopied
    <3> QED BY <3>2, <3>3
  <2>2. temporal.shallow # {} /\ Settled(5, "shallow")' => base'.shallow = temporal.shallow
    BY <1>3, <1>5 DEF PublishInv, CellsSettled, ItemCopied
  <2> QED BY <1>2, <2>1, <2>2 DEF CellsSettled
<1>11. LogsSettled'
  <2>1. \A n \in Name : base.logs[n] \in Seq(Object) /\ temporal.logs[n] \in Seq(Object)
    BY StorageParts DEF Data
  <2>2. ASSUME NEW n \in gone, Settled(7, n)'
        PROVE  base'.logs[n] =
                  IF n \in appended /\ Settled(8, n)' THEN temporal.logs[n] ELSE <<>>
    <3>1. CASE stage = 7
      <4>1. ~ Settled(8, n)' /\ ~ Settled(8, n)
        BY <1>2, <3>1 DEF Settled
      <4> QED BY <1>3, <1>5, <1>6, <2>2, <3>1, <4>1 DEF PublishInv, LogsSettled, ItemCopied
    <3>2. CASE stage = 8 /\ n = i
      <4>1. Settled(7, n) /\ ~ Settled(8, n) /\ Settled(8, n)'
        BY <1>1, <1>2, <3>2 DEF Settled
      <4>2. base.logs[n] = <<>>
        BY <4>1 DEF PublishInv, LogsSettled
      <4>3. base'.logs[n] = Longer(n) /\ Longer(n) = <<>> \o temporal.logs[n]
        <5>1. base'.logs[n] = Longer(n)
          BY <1>3, <1>6, <3>2 DEF ItemCopied
        <5>2. Longer(n) = <<>> \o temporal.logs[n]
          BY <4>2 DEF Longer
        <5> QED BY <5>1, <5>2
      <4> QED BY <1>4, <1>6, <2>1, <3>2, <4>1, <4>3, ConcatEmptySeq
    <3>3. CASE stage # 7 /\ ~ (stage = 8 /\ n = i)
      <4>1. Settled(7, n) /\ (Settled(8, n)' <=> Settled(8, n)) /\ base'.logs[n] = base.logs[n]
        BY <1>3, <1>5, <1>6, <2>2, <3>3 DEF ItemCopied
      <4> QED BY <4>1 DEF PublishInv, LogsSettled
    <3> QED BY <3>1, <3>2, <3>3
  <2>3. ASSUME NEW n \in appended \ gone, Settled(8, n)'
        PROVE  Entries(temporal.logs[n]) \subseteq Entries(base'.logs[n])
    <3>1. CASE stage = 8 /\ n = i
      <4>1. base'.logs[n] = Longer(n)
        BY <1>3, <1>6, <3>1 DEF ItemCopied
      <4> QED BY <1>6, <2>1, <4>1, EntriesOfBoth DEF Longer
    <3>2. CASE ~ (stage = 8 /\ n = i)
      <4>1. Settled(8, n)
        BY <1>5, <2>3, <3>2
      <4>2. stage # 7
        BY <4>1 DEF Settled
      <4>3. base'.logs[n] = base.logs[n]
        BY <1>3, <1>6, <3>2, <4>2 DEF ItemCopied
      <4> QED BY <4>1, <4>3 DEF PublishInv, LogsSettled
    <3> QED BY <3>1, <3>2
  <2> QED BY <1>2, <2>2, <2>3 DEF LogsSettled
<1> QED BY <1>7, <1>8, <1>9, <1>10, <1>11 DEF PublishInv

\* What is settled after a part of Commit was settled at its end.
LEMMA PublishNext ==
    ASSUME Data, Control, PublishInv, CommitNext
    PROVE  PublishInv'
<1>1. /\ stage \in 1..8 /\ Items(CommitOrder[stage]) \subseteq done /\ done' = {}
      /\ stage' = IF stage = 8 THEN 0 ELSE stage + 1
      /\ UNCHANGED <<base, temporal, deleted, set, gone, appended>>
  BY PartCount DEF CommitNext, Control, Counters
<1>2. ASSUME NEW k \in 1..8, NEW j \in Items(CommitOrder[k]), Settled(k, j)'
      PROVE  Settled(k, j)
  BY <1>1, <1>2 DEF Settled
<1>3. LogMarks' /\ ObjectsSettled'
  BY <1>1, <1>2, PartNumbers, ItemSets DEF PublishInv, LogMarks, ObjectsSettled
<1>4. RefsSettled'
  <2>1. \A n \in deleted : Settled(2, n)' => Settled(2, n)
    BY <1>2, PartNumbers, ItemSets
  <2>2. \A n \in Name : temporal.refs[n] # None /\ Settled(3, n)' => Settled(3, n)
    BY <1>2, PartNumbers, ItemSets
  <2> QED BY <1>1, <2>1, <2>2 DEF PublishInv, RefsSettled
<1>5. CellsSettled'
  <2>1. ASSUME NEW c \in set, Settled(IF c = "index" THEN 4 ELSE 6, c)'
        PROVE  Settled(IF c = "index" THEN 4 ELSE 6, c)
    <3>1. c = "index" \/ c = "config"
      BY CellAssumption DEF Data
    <3>2. CASE c = "index"
      BY <1>2, <2>1, <3>2, PartNumbers, ItemSets
    <3>3. CASE c = "config"
      BY <1>2, <2>1, <3>3, PartNumbers, ItemSets
    <3> QED BY <3>1, <3>2, <3>3
  <2>2. temporal.shallow # {} /\ Settled(5, "shallow")' => Settled(5, "shallow")
    BY <1>2, PartNumbers, ItemSets
  <2> QED BY <1>1, <2>1, <2>2 DEF PublishInv, CellsSettled
<1>6. LogsSettled'
  <2>1. \A n \in gone : Settled(7, n)' => Settled(7, n)
    BY <1>2, PartNumbers, ItemSets
  <2>2. \A n \in appended : Settled(8, n)' <=> Settled(8, n)
    <3>1. ASSUME NEW n \in appended, Settled(8, n) PROVE Settled(8, n)'
      BY <1>1, <3>1 DEF Settled, CommitNext
    <3> QED BY <1>2, <3>1, PartNumbers, ItemSets
  <2> QED BY <1>1, <2>1, <2>2 DEF PublishInv, LogsSettled
<1> QED BY <1>3, <1>4, <1>5, <1>6 DEF PublishInv

\* A call of the user, the start of a Commit and its failure settle nothing.
LEMMA PublishAnew ==
    ASSUME LogMarks', done' = {}, (stage' = 0 /\ out' # "committed") \/ stage' = 1
    PROVE  PublishInv'
<1>1. \A j : \A k \in 1..8 : ~ Settled(k, j)'
  BY DEF Settled
<1>2. ObjectsSettled' /\ RefsSettled' /\ CellsSettled' /\ LogsSettled'
  BY <1>1 DEF ObjectsSettled, RefsSettled, CellsSettled, LogsSettled
<1> QED BY <1>2 DEF PublishInv

LEMMA PublishInit == Init => PublishInv
<1> SUFFICES ASSUME Init PROVE PublishInv
  OBVIOUS
<1>1. \A j : \A k \in 1..8 : ~ Settled(k, j)
  BY DEF Init, Settled
<1> QED BY <1>1 DEF Init, PublishInv, LogMarks, ObjectsSettled, RefsSettled, CellsSettled,
            LogsSettled

LEMMA PublishStep == TypeOK /\ PublishInv /\ [Next]_vars => PublishInv'
<1> SUFFICES ASSUME Data, Control, PublishInv, [Next]_vars PROVE PublishInv'
  BY TypeParts
<1>1. LogMarks /\ done \subseteq IF stage = 0 THEN {} ELSE Items(CommitOrder[stage])
  BY DEF PublishInv, Control, Progress
<1>2. ASSUME NEW name, NEW outcome, outcome # "committed", Call(name, outcome), LogMarks'
      PROVE  PublishInv'
  BY <1>1, <1>2, PublishAnew DEF Call
<1>3. ASSUME UNCHANGED <<gone, appended>>, temporal'.logs = temporal.logs PROVE LogMarks'
  BY <1>1, <1>3 DEF LogMarks
<1>a. ASSUME UNCHANGED <<gone, appended>>, temporal'.logs = temporal.logs,
             \E name : \E outcome \in {"ok", "error", "missing", "changed"} :
                Call(name, outcome)
      PROVE  PublishInv'
  BY <1>2, <1>3, <1>a
<1>4. ASSUME NEW o \in Object, SetEncodedObject(o) \/ RawObjectWriter(o) PROVE PublishInv'
  <2>1. UNCHANGED <<gone, appended>> /\ temporal'.logs = temporal.logs
    BY <1>4 DEF SetEncodedObject, RawObjectWriter, Data, Storage
  <2>2. Call(<<"object", o>>, "ok")
    BY <1>4 DEF SetEncodedObject, RawObjectWriter
  <2> QED BY <1>a, <2>1, <2>2
<1>5. ASSUME NEW n \in Name, NEW o \in Object, NEW outcome \in Outcomes,
             SetReference(n, o, outcome) \/ CheckedSetReference(n, o, outcome)
      PROVE  PublishInv'
  <2>1. UNCHANGED <<gone, appended>> /\ temporal'.logs = temporal.logs
    BY <1>5 DEF SetReference, CheckedSetReference, Store, Data, Storage, Written
  <2>2. \E name : Call(name, outcome)
    BY <1>5 DEF SetReference, CheckedSetReference
  <2> QED BY <1>a, <2>1, <2>2 DEF Outcomes
<1>6. ASSUME FailedWrite \/ \E n \in Name, old \in Object : CheckFails(n, old)
      PROVE  PublishInv'
  <2>1. UNCHANGED <<gone, appended>> /\ temporal'.logs = temporal.logs
    BY <1>6 DEF FailedWrite, CheckFails
  <2>2. \E name : \E outcome \in {"ok", "error", "missing", "changed"} : Call(name, outcome)
    <3>1. CASE FailedWrite
      BY <3>1 DEF FailedWrite
    <3>2. ASSUME NEW n \in Name, NEW old \in Object, CheckFails(n, old)
        PROVE  \E name : \E outcome \in {"ok", "error", "missing", "changed"} : Call(name, outcome)
      <4> DEFINE res == IF Checked(n) = None THEN "missing" ELSE "changed"
      <4>1. Call(<<"check", n, old, old>>, res) /\ res \in {"ok", "error", "missing", "changed"}
        BY <3>2 DEF CheckFails
      <4> HIDE DEF res
      <4> QED BY <4>1
    <3> QED BY <1>6, <3>1, <3>2
  <2> QED BY <1>a, <2>1, <2>2
<1>7. ASSUME NEW n \in Name, NEW outcome \in Outcomes, RemoveReference(n, outcome)
      PROVE  PublishInv'
  <2>1. UNCHANGED <<gone, appended>> /\ temporal'.logs = temporal.logs
    BY <1>7 DEF RemoveReference, Data, Storage, Written
  <2>2. Call(<<"remove", n>>, outcome)
    BY <1>7 DEF RemoveReference
  <2> QED BY <1>a, <2>1, <2>2 DEF Outcomes
<1>8. ASSUME NEW s \in Shallows, SetShallow(s) PROVE PublishInv'
  <2>1. UNCHANGED <<gone, appended>> /\ temporal'.logs = temporal.logs
    BY <1>8 DEF SetShallow, Data, Storage
  <2>2. Call(<<"shallow", s>>, "ok")
    BY <1>8 DEF SetShallow
  <2> QED BY <1>a, <2>1, <2>2
<1>9. ASSUME NEW c \in Cell, NEW v \in Value, SetCell(c, v) PROVE PublishInv'
  <2>1. UNCHANGED <<gone, appended>> /\ temporal'.logs = temporal.logs
    BY <1>9 DEF SetCell, Data, Storage
  <2>2. Call(<<"cell", c, v>>, "ok")
    BY <1>9 DEF SetCell
  <2> QED BY <1>a, <2>1, <2>2
<1>10. ASSUME NEW n \in Name, NEW e \in Object, NEW outcome \in Outcomes,
              AppendReflog(n, e, outcome)
       PROVE  PublishInv'
  <2>1. Call(<<"reflog", n>>, outcome) /\ appended' = appended \cup {n} /\ UNCHANGED gone
    BY <1>10 DEF AppendReflog
  <2>2. \A m \in Name \ {n} : temporal'.logs[m] = temporal.logs[m]
    BY <1>10 DEF AppendReflog, Data, Storage, Written
  <2>3. LogMarks'
    BY <1>1, <2>1, <2>2 DEF LogMarks
  <2> QED BY <1>2, <2>1, <2>3 DEF Outcomes
<1>11. ASSUME NEW n \in Name, NEW outcome \in Outcomes, DeleteReflog(n, outcome)
       PROVE  PublishInv'
  <2>1. Call(<<"reflog", n>>, outcome) /\ appended' = appended \ {n} /\ gone' = gone \cup {n}
    BY <1>11 DEF DeleteReflog
  <2>2. \A m \in Name \ {n} : temporal'.logs[m] = temporal.logs[m]
    BY <1>11 DEF DeleteReflog, Data, Storage, Written
  <2>3. LogMarks'
    BY <1>1, <2>1, <2>2 DEF LogMarks
  <2> QED BY <1>2, <2>1, <2>3 DEF Outcomes
<1>12. CASE Commit \/ CommitFails
  <2>1. /\ UNCHANGED <<gone, appended, temporal>> /\ done' = {}
        /\ (stage' = 0 /\ out' # "committed") \/ stage' = 1
    BY <1>12 DEF Commit, CommitFails
  <2> QED BY <1>3, <2>1, PublishAnew
<1>13. CASE CommitStep
  BY <1>13, PublishCopy
<1>14. CASE CommitNext
  BY <1>14, PublishNext
<1>15. CASE UNCHANGED vars
  <2>1. UNCHANGED <<base, temporal, deleted, set, gone, appended, stage, done, out>>
    BY <1>15 DEF vars
  <2> QED BY <2>1 DEF PublishInv, LogMarks, ObjectsSettled, RefsSettled, CellsSettled,
                      LogsSettled, Settled
<1> QED
  BY <1>4, <1>5, <1>6, <1>7, <1>8, <1>9, <1>10, <1>11, <1>12, <1>13, <1>14, <1>15
     DEF Next, Quiet

(***************************************************************************)
(* When Commit returns nil the base alone reads like the transaction, for  *)
(* any contents, any number of calls and failures before it and any number *)
(* of Commits, but for removals that failed half-way.                      *)
(***************************************************************************)
THEOREM CommitHasPublished == Spec => []CommitPublishes
<1>1. TypeOK /\ PublishInv => CommitPublishes
  <2> SUFFICES ASSUME Data, PublishInv, out = "committed", stage = 0 PROVE CommitPublishes
    BY TypeParts DEF CommitPublishes
  <2>1. \A k, j : Settled(k, j)
    BY DEF Settled
  <2>2. base.objects = Objects
    BY <2>1 DEF PublishInv, ObjectsSettled, Objects
  <2>3. \A n \in Name \ HalfRemoved : base.refs[n] = Reference(n)
    BY <2>1 DEF PublishInv, RefsSettled, Reference, HalfRemoved
  <2>4. base.shallow = Shallow /\ \A c \in Cell : base.cells[c] = Contents(c)
    BY <2>1 DEF PublishInv, CellsSettled, Shallow, Contents
  <2>5. ASSUME NEW n \in Name \ HalfDeleted PROVE Entries(base.logs[n]) = Entries(Reflog(n))
    <3>1. base.logs[n] \in Seq(Object) /\ temporal.logs[n] \in Seq(Object)
      BY StorageParts DEF Data
    <3>2. CASE n \in gone
      <4>1. base.logs[n] = temporal.logs[n]
        BY <2>1, <3>2 DEF PublishInv, LogsSettled, HalfDeleted
      <4> QED BY <3>2, <4>1 DEF Reflog
    <3>3. CASE n \notin gone
      <4>1. Reflog(n) = base.logs[n] \o temporal.logs[n]
        BY <3>3 DEF Reflog
      <4>2. Entries(temporal.logs[n]) \subseteq Entries(base.logs[n])
        <5>1. CASE n \in appended
          BY <2>1, <3>3, <5>1 DEF PublishInv, LogsSettled
        <5>2. CASE n \notin appended
          BY <3>3, <5>2 DEF PublishInv, LogMarks, Entries
        <5> QED BY <5>1, <5>2
      <4>3. Entries(Reflog(n)) = Entries(base.logs[n]) \cup Entries(temporal.logs[n])
        BY <3>1, <4>1, EntriesOfBoth, Zenon
      <4> QED BY <4>2, <4>3
    <3> QED BY <3>2, <3>3
  <2> QED BY <2>2, <2>3, <2>4, <2>5 DEF CommitPublishes, Entries
<1> QED BY <1>1, TypeCorrect, PublishInit, PublishStep, PTL DEF Spec
=============================================================================
