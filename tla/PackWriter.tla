----------------------------- MODULE PackWriter -----------------------------
(***************************************************************************)
(* A PackWriter from its first Write to the end of Close (writers.go):      *)
(* receiving the pack (PackStream), and saving it in a directory where      *)
(* other PackWriters save the same pack (PackSave).                         *)
(*                                                                          *)
(* The two parts share no variable; what joins them is that Close calls     *)
(* save only once the stream has handed it the file.                        *)
(***************************************************************************)
EXTENDS PackStream, PackSave

CONSTANT Own    \* the writer whose Write and Close are followed

ASSUME OwnAssumption == Own \in Writer

writerVars == <<streamVars, saveVars>>

WriterInit == StreamInit /\ SaveInit

\* One step of the caller of Write and Close, or of its goroutine.
Receive == StreamNext /\ UNCHANGED saveVars

\* Fault: save is called before the file is truncated and closed.
EarlyClose == wpc \in {"truncate", "save"} /\ Begin(Own) /\ UNCHANGED streamVars

\* Close: the parser reported no error, the file is truncated and closed, and
\* save begins.  A second attempt of Own is of the same pack, fetched again.
Close == wpc = "save" /\ Begin(Own) /\ UNCHANGED streamVars

\* The other PackWriters of this pack are followed from their call of save.
CloseOther == \E w \in Writer \ {Own} : Begin(w) /\ UNCHANGED streamVars

Save == (\E w \in Writer : SaveStep(w) \/ Fail(w)) /\ UNCHANGED streamVars

WriterNext == Receive \/ Close \/ CloseOther \/ Save

WriterSpec == WriterInit /\ [][WriterNext]_writerVars /\ StreamFairness

-----------------------------------------------------------------------------
(* Properties.                                                              *)

\* The pack that Own renames into place is the pack it was sent, the whole of
\* it and nothing but it: no split into Writes, no junk after the checksum and
\* no wake-up of the reader makes save publish another file.
PlacedIsExact == Own \in placedBy => size = PackSize /\ seen >= PackSize

\* A pack that lookups can see has all that save puts beside it, at every step
\* and wherever a writer stops: index and reverse index, complete unless two
\* saves met on one of them, and the marker of a promisor's pack.
PublishedIsWhole == VisibleIsComplete /\ PromisorMarked

=============================================================================
