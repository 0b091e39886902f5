----------------------------- MODULE PackStream -----------------------------
(***************************************************************************)
(* PackWriter while a pack is being received (storage/filesystem/dotgit,    *)
(* writers.go): the caller writes the pack to a temporary file and a        *)
(* goroutine, buildIndex, parses it from that same file at the same time.   *)
(* The two share a syncedReader: atomic counters, two atomic flags and an   *)
(* unbuffered channel, news.  One step is one atomic access, one system     *)
(* call or one meeting on a channel.                                        *)
(*                                                                          *)
(* Close waits for the goroutine's verdict and hands the file to save,      *)
(* which is module PackSave.                                                *)
(***************************************************************************)
EXTENDS Integers

CONSTANTS
    PackSize,    \* bytes of the pack, up to and including its checksum
    MaxStream    \* bound: bytes the caller may write, junk after the pack included

ASSUME StreamAssumption ==
    /\ PackSize \in Nat \ {0}
    /\ MaxStream \in Nat

VARIABLES
    size,      \* bytes in the temporary file
    pos,       \* file position of the descriptor that reads it
    written,   \* syncedReader.written
    read,      \* syncedReader.read
    blocked,   \* syncedReader.blocked
    done,      \* syncedReader.done
    closed,    \* the channel news is closed
    wpc,       \* where the caller is
    wn,        \* the caller's locals: n, then the new value of written
    rpc,       \* where the goroutine is
    rn,        \* the goroutine's local: bytes the last Read returned
    seen,      \* the bytes the parser has been given, counted from the start
    verdict    \* what Parse reported

counters   == <<written, read, blocked, done, closed>>
caller     == <<wpc, wn>>
builder    == <<rpc, rn, seen, verdict>>
streamVars == <<size, pos, counters, caller, builder>>

StreamInit ==
    /\ size = 0 /\ pos = 0 /\ written = 0 /\ read = 0
    /\ blocked = FALSE /\ done = FALSE /\ closed = FALSE
    /\ wpc = "idle" /\ wn = 0
    /\ rpc = "sleep" /\ rn = 0 /\ seen = 0 /\ verdict = "none"

-----------------------------------------------------------------------------
(* The caller: Write.                                                       *)

\* s.w.Write(p): n bytes reach the file (fewer than len(p), or none, on an error).
WriteFile(n) ==
    /\ wpc = "idle" /\ size + n <= MaxStream
    /\ size' = size + n
    /\ wn' = n
    /\ wpc' = "add"
    /\ UNCHANGED <<pos, counters, builder>>

\* written := s.written.Add(n)
AddWritten ==
    /\ wpc = "add"
    /\ written' = written + wn
    /\ wn' = written + wn
    /\ wpc' = "compare"
    /\ UNCHANGED <<size, pos, read, blocked, done, closed, builder>>

\* read := s.read.Load(); written > read calls wake.
CompareRead ==
    /\ wpc = "compare"
    /\ wpc' = IF wn > read THEN "wake" ELSE "idle"
    /\ UNCHANGED <<size, pos, counters, wn, builder>>

\* wake: isBlocked
Wake ==
    /\ wpc = "wake"
    /\ wpc' = IF blocked THEN "unblock" ELSE "idle"
    /\ UNCHANGED <<size, pos, counters, wn, builder>>

\* wake: s.blocked.Store(0)
Unblock ==
    /\ wpc = "unblock"
    /\ blocked' = FALSE
    /\ wpc' = "send"
    /\ UNCHANGED <<size, pos, written, read, done, closed, wn, builder>>

\* wake: s.news <- true meets the goroutine's <-s.news.
Send ==
    /\ wpc = "send" /\ rpc = "receive"
    /\ wpc' = "idle"
    /\ rpc' = "readFile"
    /\ UNCHANGED <<size, pos, counters, wn, rn, seen, verdict>>

-----------------------------------------------------------------------------
(* The caller: Close.                                                       *)

\* syncedReader.Close: s.done.Store(1)
SetDone ==
    /\ wpc = "idle"
    /\ done' = TRUE
    /\ wpc' = "closing"
    /\ UNCHANGED <<size, pos, written, read, blocked, closed, wn, builder>>

\* Fault: Close sets the flag and leaves the channel alone.
QuietCloseNews ==
    /\ wpc = "closing"
    /\ wpc' = "wait"
    /\ UNCHANGED <<size, pos, counters, wn, builder>>

\* syncedReader.Close: close(s.news)
CloseNews ==
    /\ wpc = "closing"
    /\ closed' = TRUE
    /\ wpc' = "wait"
    /\ UNCHANGED <<size, pos, written, read, blocked, done, wn, builder>>

\* waitBuildIndex: w.result <- err meets <-w.result.  Both an error and an
\* empty pack end in clean, which removes the temporary file.
WaitBuildIndex ==
    /\ wpc = "wait" /\ rpc = "report"
    /\ rpc' = "end"
    /\ wpc' = IF verdict = "ok" THEN "truncate" ELSE "cleaned"
    /\ UNCHANGED <<size, pos, counters, wn, rn, seen, verdict>>

\* Drop what was written after the pack's checksum, then close and save.
Truncate ==
    /\ wpc = "truncate"
    /\ size' = IF written > PackSize THEN PackSize ELSE size
    /\ wpc' = "save"
    /\ UNCHANGED <<pos, counters, wn, builder>>

\* Closing the files or truncating fails: Close returns without a save.
CloseFails ==
    /\ wpc = "truncate"
    /\ wpc' = "failed"
    /\ UNCHANGED <<size, pos, counters, wn, builder>>

\* Close has returned; the PackWriter is not used again.
Finished == wpc \in {"save", "cleaned", "failed"} /\ UNCHANGED streamVars

-----------------------------------------------------------------------------
(* The goroutine: syncedReader.Read.                                        *)

\* sleep: compare read with written
Sleep ==
    /\ rpc = "sleep"
    /\ rpc' = IF read >= written THEN "block" ELSE "readFile"
    /\ UNCHANGED <<size, pos, counters, caller, rn, seen, verdict>>

\* sleep: s.blocked.Store(1)
Block ==
    /\ rpc = "block"
    /\ blocked' = TRUE
    /\ rpc' = "receive"
    /\ UNCHANGED <<size, pos, written, read, done, closed, caller, rn, seen, verdict>>

\* sleep: <-s.news returns because the channel is closed.
ReceiveClosed ==
    /\ rpc = "receive" /\ closed
    /\ rpc' = "readFile"
    /\ UNCHANGED <<size, pos, counters, caller, rn, seen, verdict>>

\* s.r.Read(p) returns some of the bytes between pos and the end of the file.
ReadFile(n) ==
    /\ rpc = "readFile" /\ pos + n <= size
    /\ pos' = pos + n
    /\ rn' = n
    /\ rpc' = "count"
    /\ UNCHANGED <<size, counters, caller, seen, verdict>>

\* s.r.Read(p) returns io.EOF.
ReadEOF ==
    /\ rpc = "readFile" /\ pos = size
    /\ rn' = 0
    /\ rpc' = "eof"
    /\ UNCHANGED <<size, pos, counters, caller, seen, verdict>>

\* At the end of the file: try again unless the writer is done.
CheckDone ==
    /\ rpc = "eof"
    /\ rpc' = IF done THEN "count" ELSE "sleep"
    /\ UNCHANGED <<size, pos, counters, caller, rn, seen, verdict>>

\* The deferred s.read.Add(n); the bytes, or io.EOF, go to the parser.
Count ==
    /\ rpc = "count"
    /\ read' = read + rn
    /\ seen' = IF pos > seen THEN pos ELSE seen
    /\ rpc' = "parse"
    /\ UNCHANGED <<size, pos, written, blocked, done, closed, caller, rn, verdict>>

-----------------------------------------------------------------------------
(* The goroutine: Parse, by what it asks of the reader.                     *)

Report(v) ==
    /\ verdict' = v
    /\ rpc' = "report"
    /\ UNCHANGED <<size, pos, counters, caller, rn, seen>>

\* More bytes of the pack are needed.
NeedMore ==
    /\ rpc = "parse" /\ rn > 0 /\ pos < PackSize
    /\ rpc' = "sleep"
    /\ UNCHANGED <<size, pos, counters, caller, rn, seen, verdict>>

\* io.EOF: nothing was written (ErrEmptyPackfile), or the pack is cut short.
ParseEOF ==
    /\ rpc = "parse" /\ rn = 0
    /\ Report(IF seen = 0 THEN "empty" ELSE "truncated")

\* Delta resolution seeks back to read a base again; Seek stores the offset.
SeekStart(p) ==
    /\ rpc = "parse" /\ rn > 0 /\ seen >= PackSize
    /\ pos' = p /\ read' = p
    /\ rpc' = "sleep"
    /\ UNCHANGED <<size, written, blocked, done, closed, caller, rn, seen, verdict>>

\* The checksum was read and every delta resolved.
ParseOK == rpc = "parse" /\ rn > 0 /\ seen >= PackSize /\ Report("ok")

\* The bytes are not those of a pack.
ParseError == rpc = "parse" /\ rn > 0 /\ Report("malformed")

-----------------------------------------------------------------------------
WriteStep == AddWritten \/ CompareRead \/ Wake \/ Unblock \/ Send
CloseStep == CloseNews \/ WaitBuildIndex \/ Truncate
Parse ==
    \/ NeedMore \/ ParseEOF \/ ParseOK \/ ParseError
    \/ \E p \in 0 .. PackSize - 1 : SeekStart(p)
Build ==
    \/ Sleep \/ Block \/ ReceiveClosed
    \/ (\E n \in 1 .. MaxStream : ReadFile(n)) \/ ReadEOF \/ CheckDone \/ Count
    \/ Parse

StreamNext ==
    \/ \E n \in 0 .. MaxStream : WriteFile(n)
    \/ SetDone \/ WriteStep \/ CloseStep \/ CloseFails \/ Finished
    \/ Build

\* Neither thread stops in the middle of a call, and Parse seeks back finitely
\* often.  The caller may stop writing, or never close.
StreamFairness ==
    /\ WF_streamVars(WriteStep) /\ WF_streamVars(CloseStep) /\ WF_streamVars(Build)
    /\ SF_streamVars(ParseOK \/ ParseError \/ ParseEOF)

StreamSpec     == StreamInit /\ [][StreamNext]_streamVars
StreamFairSpec == StreamSpec /\ StreamFairness

-----------------------------------------------------------------------------
(* Properties.                                                              *)

\* Every variable holds a value of its type; no counter runs past the file.
StreamTypeOK ==
    /\ size \in 0 .. MaxStream /\ pos \in 0 .. MaxStream /\ seen \in 0 .. MaxStream
    /\ written \in 0 .. MaxStream /\ read \in 0 .. MaxStream
    /\ wn \in 0 .. MaxStream /\ rn \in 0 .. MaxStream
    /\ blocked \in BOOLEAN /\ done \in BOOLEAN /\ closed \in BOOLEAN
    /\ wpc \in {"idle", "add", "compare", "wake", "unblock", "send", "closing",
                "wait", "truncate", "save", "cleaned", "failed"}
    /\ rpc \in {"sleep", "block", "receive", "readFile", "eof", "count", "parse",
                "report", "end"}
    /\ verdict \in {"none", "ok", "empty", "truncated", "malformed"}

\* The parser is told io.EOF only after Close was called: a caller that is slow
\* is not mistaken for the end of the pack, however often the reader is woken.
EOFOnlyWhenDone == verdict \in {"truncated", "empty"} => done

\* Whoever is about to send on news has a receiver, so Write cannot block on a
\* parser that failed or finished, and nothing is sent on the closed channel.
SendHasReceiver ==
    wpc \in {"unblock", "send"} => rpc = "receive" /\ ~closed

\* The file handed to save is the pack, the whole pack and nothing but it.
SavedPackIsExact == wpc = "save" => size = PackSize /\ seen >= PackSize

\* Write and Close return, so the goroutine of a closed writer ends as well.
CallsReturn ==
    /\ wpc \in {"add", "compare", "wake", "unblock", "send"} ~> wpc = "idle"
    /\ wpc = "closing" ~> (wpc \in {"save", "cleaned", "failed"} /\ rpc = "end")

\* "this operation is synchronized with the write operations" (PackWriter): a
\* pack written whole before Close is never reported as truncated or empty.
NoEarlyEOF == verdict \in {"truncated", "empty"} => size < PackSize

=============================================================================
