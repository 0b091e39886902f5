----------------------------- MODULE SharedFile -----------------------------
(***************************************************************************)
(* Reference-counted, lazily opened file descriptors                        *)
(* (internal/sharedfile) and the descriptor pool that bounds how many of    *)
(* them stay open (x/fdpool).                                               *)
(*                                                                          *)
(* Proc is a set of goroutines, File a set of SharedFiles.  Both locks are  *)
(* variables: smu[f] is f's s.mu, mu the pool's p.mu.  An Acquire that has  *)
(* to open the file holds s.mu over several steps, because open is I/O      *)
(* under the lock; every other section under s.mu is one action that needs  *)
(* the lock free.  The calls into the pool, made after s.mu is released,    *)
(* are actions of their own.  The pool's eviction walk holds p.mu and looks *)
(* at one member per step, because Pinned() waits for that member's s.mu.   *)
(***************************************************************************)
EXTENDS Integers, FiniteSets, SequencesExt

CONSTANTS
    Proc,        \* goroutines
    File,        \* SharedFiles wired to the same pool
    Capacities,  \* pool capacities the owner may pick (fdpool.New)
    MaxGen,      \* bound: a file whose gen reached it is not acquired again
    Nobody,      \* no goroutine
    NoFile       \* no file

ASSUME ProcAssumption     == IsFiniteSet(Proc) /\ Nobody \notin Proc
ASSUME FileAssumption     == IsFiniteSet(File) /\ NoFile \notin File
ASSUME CapacityAssumption == Capacities \subseteq Int
ASSUME MaxGenAssumption   == MaxGen \in Nat

VARIABLES
    pooled,    \* s.pool # nil, the same for every file
    capacity,  \* p.capacity
    open,      \* the files with s.file # nil
    refs,      \* s.refs
    gen,       \* s.gen
    timer,     \* gen captured by the grace timer s.timer, 0 when none is pending
    fired,     \* gens captured by timer callbacks that wait for s.mu
    closed,    \* the files with s.closed and s.isClosed set
    latched,   \* the files with s.immediateClose set
    linked,    \* the files with s.poolHandle.elem # nil
    lru,       \* p.lru, front (most recently used) first
    smu,       \* the goroutine that holds s.mu between two steps, or Nobody
    mu,        \* the goroutine that holds p.mu, or Nobody
    held,      \* files each goroutine has acquired and not yet released
    pc,        \* where each goroutine is in the call it makes
    arg,       \* the file that call is about
    walk       \* position of the eviction walk in lru

fileVars == <<open, refs, gen, timer, fired, closed, latched>>
poolVars == <<linked, lru, mu, walk>>
vars == <<pooled, capacity, open, refs, gen, timer, fired, closed, latched,
          linked, lru, smu, mu, held, pc, arg, walk>>

\* "open" is Acquire's call of the open function, under s.mu.  "touch", "walk",
\* "evict" and "relock" are the stages of Acquire's call to Pool.Touch; "forget"
\* is Close's call to Pool.Forget.
Stages == {"idle", "open", "touch", "walk", "evict", "relock", "forget"}

Init ==
    /\ pooled \in BOOLEAN
    /\ capacity \in Capacities
    /\ open   = {}
    /\ refs   = [f \in File |-> 0]
    /\ gen    = [f \in File |-> 0]
    /\ timer  = [f \in File |-> 0]
    /\ fired  = [f \in File |-> {}]
    /\ closed = {}
    /\ latched = {}
    /\ linked = {}
    /\ lru    = <<>>
    /\ smu    = [f \in File |-> Nobody]
    /\ mu     = Nobody
    /\ held   = [p \in Proc |-> {}]
    /\ pc     = [p \in Proc |-> "idle"]
    /\ arg    = [p \in Proc |-> NoFile]
    /\ walk   = 0

\* Goroutine p goes on to a stage of its call about file f.
GoTo(p, stage, f) ==
    /\ pc'  = [pc EXCEPT ![p] = stage]
    /\ arg' = [arg EXCEPT ![p] = f]

\* p gives back the s.mu it holds, if any.
Unlock(p) == smu' = [f \in File |-> IF smu[f] = p THEN Nobody ELSE smu[f]]

\* p returns to its caller.
Return(p) == GoTo(p, "idle", NoFile) /\ Unlock(p)

\* p goes on to the stage if the condition holds and returns otherwise.
GoToIf(cond, p, stage, f) ==
    IF cond THEN GoTo(p, stage, f) /\ UNCHANGED smu ELSE Return(p)

-----------------------------------------------------------------------------
(* SharedFile: the sections under s.mu.                                     *)

\* Fault: Touch is called with s.mu still held (a deferred Unlock).
LockedAcquired(p, f) ==
    /\ open' = open \cup {f}
    /\ refs' = [refs EXCEPT ![f] = @ + 1]
    /\ gen'  = [gen EXCEPT ![f] = @ + 1]
    /\ held' = [held EXCEPT ![p] = @ \cup {f}]
    /\ GoTo(p, IF pooled THEN "touch" ELSE "idle", IF pooled THEN f ELSE NoFile)
    /\ smu' = [smu EXCEPT ![f] = IF pooled THEN p ELSE Nobody]

\* The end of Acquire's section: the descriptor is there and counted, s.mu
\* is given back, and only then is the pool told.
Acquired(p, f) ==
    /\ open' = open \cup {f}
    /\ refs' = [refs EXCEPT ![f] = @ + 1]
    /\ gen'  = [gen EXCEPT ![f] = @ + 1]
    /\ held' = [held EXCEPT ![p] = @ \cup {f}]
    /\ GoTo(p, IF pooled THEN "touch" ELSE "idle", IF pooled THEN f ELSE NoFile)
    /\ Unlock(p)

\* Acquire of a file that has its descriptor.  (Acquire of a closed
\* SharedFile returns ErrClosed and changes nothing.)
Acquire(p, f) ==
    /\ pc[p] = "idle" /\ f \notin held[p] /\ smu[f] = Nobody /\ f \notin closed
    /\ gen[f] < MaxGen
    /\ f \in open
    /\ timer' = [timer EXCEPT ![f] = 0]
    /\ Acquired(p, f)
    /\ UNCHANGED <<pooled, capacity, fired, closed, latched, poolVars>>

\* Acquire that finds no descriptor: it calls open, s.mu held.
AcquireOpens(p, f) ==
    /\ pc[p] = "idle" /\ f \notin held[p] /\ smu[f] = Nobody /\ f \notin closed
    /\ gen[f] < MaxGen
    /\ f \notin open
    /\ timer' = [timer EXCEPT ![f] = 0]
    /\ smu' = [smu EXCEPT ![f] = p]
    /\ GoTo(p, "open", f)
    /\ UNCHANGED <<pooled, capacity, open, refs, gen, fired, closed, latched,
                   poolVars, held>>

\* open succeeds.
Opened(p) ==
    /\ pc[p] = "open"
    /\ Acquired(p, arg[p])
    /\ UNCHANGED <<pooled, capacity, timer, fired, closed, latched, poolVars>>

\* open fails, and Acquire with it.
OpenFails(p) ==
    /\ pc[p] = "open"
    /\ Return(p)
    /\ UNCHANGED <<pooled, capacity, fileVars, poolVars, held>>

\* Release: the last one closes a latched descriptor at once, leaves it to
\* the pool, or arms the grace timer.  (The code's return on refs == 0 is
\* never met by a holder: RefsMatchHolders.)
Release(p, f) ==
    /\ pc[p] = "idle" /\ f \in held[p] /\ smu[f] = Nobody /\ refs[f] > 0
    /\ LET lastOne  == refs[f] = 1 /\ f \notin closed /\ f \in open
           closeNow == lastOne /\ f \in latched
           arm      == lastOne /\ f \notin latched /\ ~pooled
       IN  /\ open'    = IF closeNow THEN open \ {f} ELSE open
           /\ latched' = IF closeNow THEN latched \ {f} ELSE latched
           /\ timer'  = [timer EXCEPT ![f] = IF arm THEN gen[f] + 1 ELSE @]
    /\ refs' = [refs EXCEPT ![f] = @ - 1]
    /\ gen'  = [gen EXCEPT ![f] = @ + 1]
    /\ held' = [held EXCEPT ![p] = @ \ {f}]
    /\ UNCHANGED <<pooled, capacity, fired, closed, smu, poolVars, pc, arg>>

\* The runtime fires a pending timer: its callback now waits for s.mu and
\* Stop can no longer recall it.
TimerFires(f) ==
    /\ timer[f] # 0
    /\ fired' = [fired EXCEPT ![f] = @ \cup {timer[f]}]
    /\ timer' = [timer EXCEPT ![f] = 0]
    /\ UNCHANGED <<pooled, capacity, open, refs, gen, closed, latched, smu,
                   poolVars, held, pc, arg>>

\* The grace callback: closes the descriptor unless the state moved on.
TimerCallback(f, g) ==
    /\ g \in fired[f] /\ smu[f] = Nobody
    /\ fired' = [fired EXCEPT ![f] = @ \ {g}]
    /\ open'  = IF f \notin closed /\ gen[f] = g /\ refs[f] = 0
                 THEN open \ {f} ELSE open
    /\ UNCHANGED <<pooled, capacity, refs, gen, timer, closed, latched, smu,
                   poolVars, held, pc, arg>>

\* Close: marks the SharedFile closed and closes the descriptor, pinned or
\* not; the pool is told afterwards.  (A second Close changes nothing.)
Close(p, f) ==
    /\ pc[p] = "idle" /\ smu[f] = Nobody /\ f \notin closed
    /\ closed' = closed \cup {f}
    /\ gen'    = [gen EXCEPT ![f] = @ + 1]
    /\ timer'  = [timer EXCEPT ![f] = 0]
    /\ open'   = open \ {f}
    /\ GoToIf(pooled, p, "forget", f)
    /\ UNCHANGED <<pooled, capacity, refs, fired, latched, poolVars, held>>

\* Fault: an idle descriptor loses its timer but is not closed.
HalfReleaseNow(f) ==
    IF f \in closed
    THEN UNCHANGED <<open, gen, timer, latched>>
    ELSE /\ timer'  = [timer EXCEPT ![f] = 0]
         /\ gen'    = [gen EXCEPT ![f] = @ + 1]
         /\ latched' = IF refs[f] > 0 THEN latched \cup {f} ELSE latched
         /\ UNCHANGED open

\* Fault: the descriptor is closed under its readers.
HardReleaseNow(f) ==
    IF f \in closed
    THEN UNCHANGED <<open, gen, timer, latched>>
    ELSE /\ timer'  = [timer EXCEPT ![f] = 0]
         /\ gen'    = [gen EXCEPT ![f] = @ + 1]
         /\ open'   = open \ {f}
         /\ UNCHANGED latched

\* Fault: a pinned descriptor is not latched for a later close.
LatchlessReleaseNow(f) ==
    IF f \in closed
    THEN UNCHANGED <<open, gen, timer, latched>>
    ELSE /\ timer'  = [timer EXCEPT ![f] = 0]
         /\ gen'    = [gen EXCEPT ![f] = @ + 1]
         /\ open'  = IF refs[f] > 0 THEN open ELSE open \ {f}
         /\ UNCHANGED latched

\* ReleaseNow: close an idle descriptor, latch the close of a pinned one.
ReleaseNow(f) ==
    IF f \in closed
    THEN UNCHANGED <<open, gen, timer, latched>>
    ELSE /\ timer'  = [timer EXCEPT ![f] = 0]
         /\ gen'    = [gen EXCEPT ![f] = @ + 1]
         /\ open'  = IF refs[f] > 0 THEN open ELSE open \ {f}
         /\ latched' = IF refs[f] > 0 THEN latched \cup {f} ELSE latched

\* CloseIdleDescriptors: the owner sheds descriptors outside the pool's LRU.
CloseIdle(p, f) ==
    /\ pc[p] = "idle" /\ smu[f] = Nobody /\ gen[f] < MaxGen
    /\ ReleaseNow(f)
    /\ UNCHANGED <<pooled, capacity, refs, fired, closed, smu, poolVars, held, pc,
                   arg>>

-----------------------------------------------------------------------------
(* Pool: Touch, the eviction it may carry out, and Forget.                  *)

\* container/list.Remove of the element that carries f.
Unlink(s, f) == RemoveAt(s, CHOOSE i \in 1..Len(s) : s[i] = f)

\* Touch on a no-op pool (capacity <= 0) returns without taking the lock.
TouchNoop(p) ==
    /\ pc[p] = "touch" /\ capacity <= 0
    /\ Return(p)
    /\ UNCHANGED <<pooled, capacity, fileVars, poolVars, held>>

\* Touch of a registered member moves it to the front.
TouchHit(p) ==
    /\ pc[p] = "touch" /\ capacity > 0 /\ mu = Nobody
    /\ arg[p] \in linked
    /\ lru' = Cons(arg[p], Unlink(lru, arg[p]))
    /\ Return(p)
    /\ UNCHANGED <<pooled, capacity, fileVars, linked, mu, walk, held>>

\* Fault: the eviction starts one member too late.
LateTouchInsert(p) ==
    /\ pc[p] = "touch" /\ capacity > 0 /\ mu = Nobody
    /\ arg[p] \notin linked
    /\ linked' = linked \cup {arg[p]}
    /\ lru'    = Cons(arg[p], lru)
    /\ LET evict == Len(lru) > capacity
       IN  /\ GoToIf(evict, p, "walk", arg[p])
           /\ mu'   = IF evict THEN p ELSE Nobody
           /\ walk' = IF evict THEN Len(lru) + 1 ELSE walk
    /\ UNCHANGED <<pooled, capacity, fileVars, held>>

\* Touch of an unregistered member pushes it to the front and, past
\* capacity, starts the eviction walk at the back with p.mu held.
TouchInsert(p) ==
    /\ pc[p] = "touch" /\ capacity > 0 /\ mu = Nobody
    /\ arg[p] \notin linked
    /\ linked' = linked \cup {arg[p]}
    /\ lru'    = Cons(arg[p], lru)
    /\ LET evict == Len(lru) + 1 > capacity
       IN  /\ GoToIf(evict, p, "walk", arg[p])
           /\ mu'   = IF evict THEN p ELSE Nobody
           /\ walk' = IF evict THEN Len(lru) + 1 ELSE walk
    /\ UNCHANGED <<pooled, capacity, fileVars, held>>

\* The walk waits for a member's s.mu and passes over a pinned one.  The caller's own member sits at
\* position 1 and ends the walk.
WalkSkip(p) ==
    /\ pc[p] = "walk" /\ walk > 1 /\ smu[lru[walk]] = Nobody /\ refs[lru[walk]] > 0
    /\ walk' = walk - 1
    /\ UNCHANGED <<pooled, capacity, fileVars, linked, lru, smu, mu, held, pc, arg>>

\* The victim leaves the list, its handle is cleared and p.mu released.
TakeVictim(p, i) ==
    /\ lru'    = RemoveAt(lru, i)
    /\ linked' = linked \ {lru[i]}
    /\ mu'     = Nobody
    /\ walk'   = 0
    /\ GoTo(p, "evict", lru[i])
    /\ UNCHANGED <<pooled, capacity, fileVars, smu, held>>

\* The walk meets a member that reports itself unpinned.
WalkFound(p) ==
    /\ pc[p] = "walk" /\ walk > 1 /\ smu[lru[walk]] = Nobody /\ refs[lru[walk]] = 0
    /\ TakeVictim(p, walk)

\* Every other member is pinned: the back of the list is evicted.
WalkFallback(p) ==
    /\ pc[p] = "walk" /\ walk <= 1
    /\ TakeVictim(p, Len(lru))

\* The victim's ReleaseNow, without p.mu.
Evict(p) ==
    /\ pc[p] = "evict" /\ smu[arg[p]] = Nobody
    /\ ReleaseNow(arg[p])
    /\ GoTo(p, "relock", NoFile)
    /\ UNCHANGED <<pooled, capacity, refs, fired, closed, smu, poolVars, held>>

\* Touch takes p.mu once more to count a failed eviction, and returns.
Relock(p) ==
    /\ pc[p] = "relock" /\ mu = Nobody
    /\ Return(p)
    /\ UNCHANGED <<pooled, capacity, fileVars, poolVars, held>>

\* Forget on a no-op pool.
ForgetNoop(p) ==
    /\ pc[p] = "forget" /\ capacity <= 0
    /\ Return(p)
    /\ UNCHANGED <<pooled, capacity, fileVars, poolVars, held>>

\* Forget unlinks a registered member and clears its handle.
Forget(p) ==
    /\ pc[p] = "forget" /\ capacity > 0 /\ mu = Nobody
    /\ lru' = IF arg[p] \in linked THEN Unlink(lru, arg[p]) ELSE lru
    /\ linked' = linked \ {arg[p]}
    /\ Return(p)
    /\ UNCHANGED <<pooled, capacity, fileVars, mu, walk, held>>

-----------------------------------------------------------------------------
\* The next step of the call p is in.
CallStep(p) ==
    \/ Opened(p) \/ OpenFails(p)
    \/ TouchNoop(p) \/ TouchHit(p) \/ TouchInsert(p)
    \/ WalkSkip(p) \/ WalkFound(p) \/ WalkFallback(p)
    \/ Evict(p) \/ Relock(p)
    \/ ForgetNoop(p) \/ Forget(p)

Call(p, f) ==
    \/ Acquire(p, f) \/ AcquireOpens(p, f) \/ Release(p, f)
    \/ Close(p, f) \/ CloseIdle(p, f)

Next ==
    \/ \E p \in Proc, f \in File : Call(p, f)
    \/ \E p \in Proc : CallStep(p)
    \/ \E f \in File : TimerFires(f)
    \/ \E f \in File : \E g \in fired[f] : TimerCallback(f, g)

\* Goroutines that are inside a call keep running, open returns, and
\* sync.Mutex does not starve a waiter; the runtime fires timers and runs
\* their callbacks, which wait for s.mu.
\* Nothing makes a goroutine start a call or release what it holds.
Fairness ==
    /\ \A p \in Proc : SF_vars(CallStep(p))
    /\ \A f \in File : WF_vars(TimerFires(f))
    /\ \A f \in File : SF_vars(\E g \in fired[f] : TimerCallback(f, g))

Spec     == Init /\ [][Next]_vars
FairSpec == Spec /\ Fairness

-----------------------------------------------------------------------------
(* Properties.                                                              *)

\* Every variable holds a value of its type.
TypeOK ==
    /\ pooled \in BOOLEAN /\ capacity \in Capacities
    /\ open \subseteq File
    /\ refs \in [File -> Nat]
    /\ gen \in [File -> Nat]
    /\ timer \in [File -> Nat]
    /\ fired \in [File -> SUBSET Nat]
    /\ closed \subseteq File
    /\ latched \subseteq File
    /\ linked \subseteq File
    /\ lru \in Seq(File)
    /\ smu \in [File -> Proc \cup {Nobody}]
    /\ mu \in Proc \cup {Nobody}
    /\ held \in [Proc -> SUBSET File]
    /\ pc \in [Proc -> Stages]
    /\ arg \in [Proc -> File \cup {NoFile}]
    /\ walk \in Nat

\* The goroutines that hold file f.
Holders(f) == {p \in Proc : f \in held[p]}

\* s.refs counts the goroutines between Acquire and Release, whatever opens
\* failed on the way; so Release never meets refs == 0.
RefsMatchHolders == \A f \in File : refs[f] = Cardinality(Holders(f))

\* "While at least one reference is held the FD cannot be torn down by the
\* grace timer or ReleaseNow" (sharedfile.go): only Close takes a descriptor
\* away from its readers.
PinnedStaysOpen ==
    \A p \in Proc : \A f \in held[p] : f \notin closed => f \in open

\* A close latched by ReleaseNow belongs to readers that still hold the
\* descriptor: it never outlives them to hit a later acquirer.
LatchHasReaders == \A f \in latched \ closed : refs[f] > 0

\* Without a pool an open descriptor nobody holds always has its current
\* grace timer, pending or fired: no interleaving of Acquire, Release and
\* stale callbacks leaves it open for good.
IdleHasTimer ==
    \A f \in File :
        ~pooled /\ f \in open /\ refs[f] = 0
            => gen[f] \in fired[f] \cup {timer[f]} /\ gen[f] # 0

\* The pool's list and the members' handles agree, and the list exceeds its
\* capacity only inside the Touch that is about to evict.
LruMatchesHandles ==
    /\ linked = ToSet(lru)
    /\ \A i, j \in DOMAIN lru : lru[i] = lru[j] => i = j
    /\ lru # <<>> => Len(lru) <= capacity + (IF mu = Nobody THEN 0 ELSE 1)

\* Some goroutine is at the given stage of a pool call about file f.
InStage(stage, f) == \E p \in Proc : pc[p] = stage /\ arg[p] = f

\* Every descriptor opened under a pool is accounted for: its file is in the
\* LRU, is about to be (Acquire's Touch), or is on its way to be closed (the
\* victim of an eviction, or latched).  The race of a Touch with an eviction
\* of the same file never leaves a descriptor the pool forgot.
OpenIsGoverned ==
    \A f \in File :
        pooled /\ capacity > 0 /\ f \in open
            => \/ f \in linked \/ f \in latched
               \/ InStage("touch", f) \/ InStage("evict", f)

\* The pool keeps its promise: descriptors that are open, unused and not
\* being evicted number at most Capacity whenever p.mu is free.
IdleWithinCapacity ==
    pooled /\ capacity > 0 /\ mu = Nobody
        => Cardinality({f \in File : /\ f \in open /\ refs[f] = 0
                                     /\ ~InStage("evict", f)}) <= capacity

\* "SharedFile never holds s.mu while calling into the pool" (sharedfile.go):
\* whoever keeps s.mu over a step is in the open function.
PoolCalledUnlocked ==
    \A f \in File : smu[f] # Nobody => pc[smu[f]] = "open" /\ arg[smu[f]] = f

\* Every call that got its first lock returns, and with it the s.mu and p.mu
\* it held, so those who wait to begin get them.  The walk takes s.mu with
\* p.mu held; "SharedFile never holds s.mu while calling into the pool ...
\* so the inverse Pool->Member locking via Pinned() during eviction is
\* deadlock-free" (sharedfile.go).
CallsReturn == \A p \in Proc : pc[p] # "idle" ~> pc[p] = "idle"

\* Without a pool, an idle descriptor is closed after its grace period
\* unless somebody acquires it first.
GraceCloses ==
    \A f \in File :
        ~pooled /\ f \in open /\ refs[f] = 0 ~> f \notin open \/ refs[f] > 0

\* "To disable pooling, pass fdpool.New(0): the resulting no-op Pool causes
\* pool-less SharedFiles to fall back to their grace-period close on
\* quiescence" (storage.go).
NoopPoolGraceCloses ==
    \A f \in File :
        pooled /\ capacity = 0 /\ f \in open /\ refs[f] = 0
            ~> f \notin open \/ refs[f] > 0

=============================================================================
