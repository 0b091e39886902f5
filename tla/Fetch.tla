------------------------------- MODULE Fetch -------------------------------
(***************************************************************************)
(* Fetch: a client (remote.go, plumbing/transport/negotiate.go and         *)
(* fetch.go, internal/transport/v2.go) against a server                    *)
(* (plumbing/transport/upload_pack.go) whose references keep moving.       *)
(*                                                                         *)
(* The client reads the advertisement, works out what it wants and what it *)
(* has, and negotiates in rounds of haves and acknowledgments: over a      *)
(* stream ("v0"), over HTTP where every round is a request of its own      *)
(* ("http"), or with protocol version 2 ("v2").  The server then sends a   *)
(* pack and, when a depth was asked for, the new shallow boundary.  The    *)
(* client stores the pack, then the boundary, then its tracking            *)
(* references; it may be interrupted in between.                           *)
(*                                                                         *)
(* A round is a request and its response, taken as one step: neither side  *)
(* does anything else meanwhile.  Left out: tags, filters, deepen-since    *)
(* and deepen-not, exact-hash refspecs, servers that are shallow           *)
(* themselves.                                                             *)
(***************************************************************************)
EXTENDS CommitGraph, FiniteSetsExt

CONSTANTS
    Name,
    Protocols,     \* subset of {"v0", "http", "v2"}
    Depths,        \* the values of FetchOptions.Depth to consider
    Infinite,      \* the depth that asks for the whole history
    Starts,        \* the reference tables the server may start with
    InitialFlush,  \* initialFlush: the haves of the first round
    MaxInVain,     \* maxInVein: haves without an acknowledgment
    MaxMoves,      \* bound on changes of the server's references
    MaxCommits,    \* bound on local commits
    MaxFetches,    \* bound on the calls of Fetch
    MaxFaults      \* bound on interruptions

ASSUME FiniteAssumption == IsFiniteSet(Commit)
ASSUME DepthAssumption == Depths \subseteq Nat /\ Infinite \in Nat \ {0}
ASSUME StartsAssumption == Starts \subseteq [Name -> Commit \cup {None}]

VARIABLES
    sRefs, sObjs,   \* the server
    branch,         \* the client's local branch
    track,          \* its refs/remotes/origin/*
    cObjs, shallow, \* its commits and its shallow file
    pc,
    protocol,       \* how the client talks to the server, from its config
    opt,            \* the options of the call: depth and force
    adv,            \* the advertised references
    wants, haves,   \* FetchRequest.Wants and Haves (the haves not yet sent)
    neg,            \* the state of the negotiation
    resp,           \* the response: commits, shallows, unshallows
    spoiled,        \* (history) see FetchCompletes
    moves, commits, fetches, faults

server == <<sRefs, sObjs, moves>>
repo == <<protocol, branch, track, cObjs, shallow, commits>>
call == <<opt, adv, wants, haves, neg, resp>>
vars == <<server, repo, pc, call, spoiled, fetches, faults>>

Value == Commit \cup {None}
NoRefs == [n \in Name |-> None]
NoOptions == [depth |-> 0, force |-> FALSE]
NoResponse == [commits |-> {}, shallows |-> {}, unshallows |-> {}]

\* inVain, gotContinue/seenAck, sendDoneAfterReady, flushAt, the common
\* commits the client sends again, and the haves the server has been told.
NewNegotiation == [inVain |-> 0, acked |-> FALSE, ready |-> FALSE,
                   flush |-> InitialFlush, common |-> {}, told |-> {}]

\* The shallow commits the client tells the server: only when it deepens.
UpShallows == IF opt.depth > 0 THEN shallow ELSE {}
----------------------------------------------------------------------------
\* A new repository: nothing has been fetched.
Init ==
    /\ sRefs \in Starts /\ sObjs = History(Tips(sRefs)) /\ moves = 0
    /\ branch = None /\ track = NoRefs /\ cObjs = {} /\ shallow = {} /\ commits = 0
    /\ pc = "idle" /\ protocol \in Protocols
    /\ opt = NoOptions /\ adv = NoRefs /\ wants = {} /\ haves = {}
    /\ neg = NewNegotiation /\ resp = NoResponse
    /\ spoiled = FALSE /\ fetches = 0 /\ faults = 0

\* Somebody pushes to the server, forces or deletes a reference there.
ServerMoves(n, x) ==
    /\ moves < MaxMoves
    /\ x # sRefs[n]
    /\ sRefs' = [sRefs EXCEPT ![n] = x]
    /\ sObjs' = sObjs \cup History({x} \ {None})
    /\ moves' = moves + 1
    /\ UNCHANGED <<repo, pc, call, spoiled, fetches, faults>>

\* The user commits on, or moves the local branch to, commit x.
LocalCommit(x) ==
    /\ pc = "idle"
    /\ commits < MaxCommits
    /\ x # branch
    /\ x \in cObjs \/ (Parents[x] # {} /\ Parents[x] \subseteq cObjs)
    /\ branch' = x
    /\ cObjs' = cObjs \cup {x}
    /\ commits' = commits + 1
    /\ UNCHANGED <<server, protocol, track, shallow, pc, call, spoiled, fetches, faults>>

\* Remote.fetch up to GetRemoteRefs.
Advertise(o) ==
    /\ pc = "idle"
    /\ fetches < MaxFetches
    /\ fetches' = fetches + 1
    /\ opt' = o
    /\ adv' = sRefs
    /\ pc' = "plan"
    /\ UNCHANGED <<server, repo, wants, haves, neg, resp, spoiled, faults>>
----------------------------------------------------------------------------
(* The client decides what to ask for. *)

\* getWants: with shallow commits around, having the tip is not enough.
GetWants ==
    IF opt.depth # 1 /\ shallow # {} THEN Tips(adv) ELSE Tips(adv) \ cObjs

LocalTips == (Tips(track) \cup ({branch} \ {None})) \cap cObjs

\* getHaves: from every local reference some way down its history, as far as
\* the commits are there.  How far depends on the order of the walk, on the
\* depth asked for and on the advertised commits met; a walk limited to one
\* commit takes the tips.
GetHaves ==
    {h \in SUBSET (History(LocalTips) \cap cObjs) :
        /\ LocalTips \subseteq h
        /\ \A c \in h \ LocalTips : \E d \in h : c \in Parents[d]
        /\ opt.depth = 1 => h = LocalTips}

\* A deepening fetch keeps shallow commits out of the haves.
Usable(h) == IF opt.depth # 0 THEN h \ shallow ELSE h

\* Everything wanted is here: NegotiatePack and FetchV2 return ErrNoChange
\* (v2 asks again whenever a depth is given).
NoChange(h) ==
    GetWants \subseteq h
        /\ IF protocol = "v2" THEN opt.depth = 0 ELSE UpShallows = {}

\* Remote.fetch from the advertisement to the negotiation.
Plan ==
    /\ pc = "plan"
    /\ wants' = GetWants
    /\ IF GetWants = {}
       THEN haves' = {} /\ pc' = "refs"
       ELSE \E h \in GetHaves :
               /\ haves' = Usable(h)
               /\ pc' = IF NoChange(Usable(h)) THEN "refs" ELSE "negotiate"
    /\ neg' = NewNegotiation
    /\ resp' = NoResponse
    /\ UNCHANGED <<server, repo, opt, adv, spoiled, fetches, faults>>
----------------------------------------------------------------------------
(* The server answers a request. *)

\* The commits at most d commits away from tips, the tips counting as one.
Ball(tips, d) ==
    LET B[k \in 1..d] == IF k = 1 THEN tips
                         ELSE B[k - 1] \cup UNION {Parents[c] : c \in B[k - 1]}
    IN B[d]

\* getShallowCommits: the commits at exactly this depth.
GetShallowCommits(depth) ==
    IF depth >= Infinite THEN {}
    ELSE IF depth = 1 THEN wants
    ELSE Ball(wants, depth) \ Ball(wants, depth - 1)

\* knownClientShallows
KnownShallows == UpShallows \cap sObjs

\* unshallowedCommits: client shallow commits inside the new boundary.
Unshallowed(boundary) == (KnownShallows \cap Reach(wants, boundary)) \ boundary

\* planShallow
PlanShallow ==
    IF opt.depth = 0 THEN [grafts |-> {}, shallows |-> {}, unshallows |-> {}]
    ELSE IF opt.depth >= Infinite /\ KnownShallows # {}
    THEN [grafts |-> KnownShallows, shallows |-> {}, unshallows |-> KnownShallows]
    ELSE LET boundary == GetShallowCommits(opt.depth)
         IN [grafts |-> KnownShallows \cup boundary,
             shallows |-> boundary \ KnownShallows,
             unshallows |-> Unshallowed(boundary)]

\* Mutant of PlanObjects: haves are taken to come with their whole history.
UngraftedPlanObjects(plan, told) ==
    LET extraWants == UNION {Parents[c] : c \in plan.unshallows}
    IN Reach(wants \cup extraWants, plan.grafts) \ History(told \cap sObjs)

\* Mutant of PlanObjects: what unshallowed commits uncover is not sent.
NarrowPlanObjects(plan, told) ==
    Reach(wants, plan.grafts) \ Reach(told \cap sObjs, plan.grafts)

\* shallowPlan.objects: the parents of unshallowed commits are wanted too.
PlanObjects(plan, told) ==
    LET extraWants == UNION {Parents[c] : c \in plan.unshallows}
    IN Reach(wants \cup extraWants, plan.grafts)
           \ Reach(told \cap sObjs, plan.grafts)

\* The pack and the shallow update that end the negotiation.
SendPack(told) ==
    /\ resp' = [commits |-> PlanObjects(PlanShallow, told),
                shallows |-> PlanShallow.shallows,
                unshallows |-> PlanShallow.unshallows]
    /\ pc' = "store"
----------------------------------------------------------------------------
(* Negotiation. *)

\* nextFlush: the rounds double.  There are no more haves than commits.
NextFlush == Min({2 * neg.flush, Cardinality(Commit)})

\* The haves of one round: which ones depends on the order of a map.
Batches(size) == kSubset(Min({size, Cardinality(haves)}), haves)

\* When the client says done: uphav.Done and, for version 2, args.Done.
DoneV0(batch, vain) ==
    neg.ready \/ haves = batch \/ (neg.acked /\ vain >= MaxInVain)

\* Mutant of DoneV2: running out of haves does not end the negotiation.
EndlessDoneV2(batch, vain) == neg.acked /\ vain >= MaxInVain

DoneV2(batch, vain) == batch = {} \/ (neg.acked /\ vain >= MaxInVain)

\* UploadPack acknowledges every have: one the wants reach as common, any other
\* as ready.
AckCommon(sent) == sent \cap History(wants)

\* One turn of the loop of NegotiatePack, with UploadPack's answer.
RoundV0 ==
    /\ pc = "negotiate" /\ protocol # "v2"
    /\ LET http == protocol = "http"
           size == IF neg.ready THEN 0
                   ELSE IF neg.acked THEN Min({neg.flush, Max({MaxInVain - neg.inVain, 0})})
                   ELSE neg.flush
       IN \E batch \in Batches(size) :
          LET sent == batch \cup (IF http /\ ~ neg.ready THEN neg.common ELSE {})
              vain == neg.inVain + Cardinality(batch)
              done == DoneV0(batch, vain)
              told == IF http THEN sent ELSE neg.told \cup sent
              common == AckCommon(sent)
          IN /\ haves' = haves \ batch
             /\ neg' = [inVain |-> IF sent # common \/ (http /\ ~ (common \subseteq neg.common))
                                   THEN 0 ELSE vain,
                        acked |-> neg.acked \/ sent # {},
                        ready |-> neg.ready \/ sent # common,
                        flush |-> NextFlush,
                        common |-> IF http THEN neg.common \cup common ELSE {},
                        told |-> told]
             /\ IF wants \subseteq sent /\ UpShallows = {}
                THEN pc' = "refs" /\ UNCHANGED resp
                ELSE IF done THEN SendPack(told)
                ELSE UNCHANGED <<pc, resp>>
    /\ UNCHANGED <<server, repo, opt, adv, wants, spoiled, fetches, faults>>

\* wantsReachableFromHaves
WantsReachable(common) == \A w \in wants : History({w}) \cap common # {}

\* serveFetchV2 acknowledges the haves it has, and sends the pack when the client
\* is done, has nothing, or every want is reachable from what is common.
AcksV2(sent) == sent \cap sObjs
SendsPackV2(done, sent) ==
    done \/ sent = {} \/ (AcksV2(sent) # {} /\ WantsReachable(AcksV2(sent)))

\* One turn of the loop of FetchV2, with serveFetchV2's answer.
RoundV2 ==
    /\ pc = "negotiate" /\ protocol = "v2"
    /\ \E batch \in Batches(neg.flush) :
          LET sent == neg.common \cup batch
              vain == neg.inVain + Cardinality(batch)
              done == DoneV2(batch, vain)
              acks == AcksV2(sent)
          IN /\ haves' = haves \ batch
             /\ neg' = [neg EXCEPT !.inVain = IF acks # {} /\ ~ done THEN 0 ELSE vain,
                                   !.acked = @ \/ (acks # {} /\ ~ done),
                                   !.common = IF done THEN @ ELSE @ \cup acks,
                                   !.flush = NextFlush,
                                   !.told = sent]
             /\ IF SendsPackV2(done, sent)
                THEN SendPack(sent)
                ELSE UNCHANGED <<pc, resp>>
    /\ UNCHANGED <<server, repo, opt, adv, wants, spoiled, fetches, faults>>
----------------------------------------------------------------------------
(* The client stores the response. *)

\* UpdateObjectStorage: a whole pack or none of it (module PackSave).
StorePack ==
    /\ pc = "store"
    /\ cObjs' = cObjs \cup resp.commits
    /\ pc' = "shallow"
    /\ spoiled' = (spoiled \/ (opt.depth = 0 /\ shallow # {}))
    /\ UNCHANGED <<server, protocol, branch, track, shallow, commits, call, fetches, faults>>

\* updateShallow
UpdateShallow ==
    /\ pc = "shallow"
    /\ shallow' = (shallow \cup resp.shallows) \ resp.unshallows
    /\ pc' = "refs"
    /\ UNCHANGED <<server, protocol, branch, track, cObjs, commits, call, spoiled, fetches, faults>>

\* isFastForward over the client's commits; the parents of shallow commits are
\* never visited.
Visited(new) ==
    LET ignored == UNION {Parents[s] : s \in shallow \cap cObjs}
        V[x \in Commit] ==
            IF x \in ignored THEN {} ELSE {x} \cup UNION {V[p] : p \in Parents[x]}
    IN V[new]

IsFastForward(old, new) ==
    \/ old \in Visited(new)
    \/ Visited(new) \cap shallow # {}

\* updateLocalReferenceStorage for one reference: its new value, or the old
\* one when the update needs force.
Updated(n) ==
    IF adv[n] = None THEN track[n]
    ELSE IF track[n] = None \/ opt.force \/ IsFastForward(track[n], adv[n])
    THEN adv[n] ELSE track[n]

\* The end of Remote.fetch: pruneRemotes if asked for and
\* updateLocalReferenceStorage, the references one by one, of which an error
\* leaves the rest as they are.
UpdateRefs(names, prune) ==
    /\ pc = "refs"
    /\ track' = [n \in Name |-> IF n \notin names THEN track[n]
                                ELSE IF prune /\ adv[n] = None THEN None ELSE Updated(n)]
    /\ names # Name => faults < MaxFaults
    /\ faults' = IF names # Name THEN faults + 1 ELSE faults
    /\ pc' = "idle"
    /\ opt' = NoOptions /\ adv' = NoRefs /\ wants' = {} /\ haves' = {}
    /\ neg' = NewNegotiation /\ resp' = NoResponse
    /\ UNCHANGED <<server, protocol, branch, cObjs, shallow, commits, spoiled, fetches>>

\* The connection fails, the context is cancelled or the process stops.  What
\* has been stored stays.
Interrupted ==
    /\ pc \notin {"idle", "refs"}
    /\ faults < MaxFaults
    /\ faults' = faults + 1
    /\ spoiled' = (spoiled \/ (pc = "shallow" /\ resp.shallows # {}))
    /\ pc' = "idle"
    /\ opt' = NoOptions /\ adv' = NoRefs /\ wants' = {} /\ haves' = {}
    /\ neg' = NewNegotiation /\ resp' = NoResponse
    /\ UNCHANGED <<server, repo, fetches>>

\* Nothing is going on.
Quiet == pc = "idle" /\ UNCHANGED vars

Options == [depth : Depths, force : BOOLEAN]

Step ==
    \/ Plan \/ RoundV0 \/ RoundV2 \/ StorePack \/ UpdateShallow
    \/ \E names \in SUBSET Name, prune \in BOOLEAN : UpdateRefs(names, prune)

Next ==
    \/ \E n \in Name, x \in Value : ServerMoves(n, x)
    \/ \E x \in Commit : LocalCommit(x)
    \/ \E o \in Options : Advertise(o)
    \/ Step
    \/ Interrupted
    \/ Quiet

Spec == Init /\ [][Next]_vars
FairSpec == Spec /\ WF_vars(Step)
----------------------------------------------------------------------------
\* The shape of the state.  The client offers only commits it has, the server
\* sends only commits it has.
TypeOK ==
    /\ sRefs \in [Name -> Value] /\ sObjs \subseteq Commit
    /\ branch \in Value /\ track \in [Name -> Value]
    /\ cObjs \subseteq Commit /\ shallow \subseteq Commit
    /\ pc \in {"idle", "plan", "negotiate", "store", "shallow", "refs"}
    /\ adv \in [Name -> Value] /\ wants \subseteq Commit
    /\ haves \subseteq cObjs
    /\ resp.commits \subseteq sObjs

(***************************************************************************)
(* FetchContext "fetches references along with the objects necessary to    *)
(* complete their histories": whatever the references of the client reach, *)
(* down to the commits its shallow file names, is there.                   *)
(***************************************************************************)
HistoryComplete ==
    Reach(Tips(track) \cup ({branch} \ {None}), shallow) \subseteq cObjs

(***************************************************************************)
(* Histories stay complete over any sequence of fetches with any depths,   *)
(* over every protocol, however few haves the negotiation gets through and *)
(* wherever a call is interrupted, but for the two cases "spoiled" marks:  *)
(* a shallow repository that fetches without a depth does not tell the     *)
(* server about its shallow commits, and a call interrupted between the    *)
(* pack and the shallow file leaves commits whose parents will never be    *)
(* asked for.                                                              *)
(***************************************************************************)
FetchCompletes == spoiled \/ HistoryComplete

(***************************************************************************)
(* A depth is honoured: once the response is stored, the client has every  *)
(* commit within this distance of what it asked for, and none of those     *)
(* nearer than that is left marked as shallow, however the old boundary    *)
(* lay across the new one.  No history is longer than there are commits.   *)
(***************************************************************************)
DepthServed ==
    LET distance == Min({opt.depth, Cardinality(Commit) + 1})
    IN (pc = "refs" /\ wants # {} /\ opt.depth > 0 /\ ~ spoiled) =>
           /\ Ball(wants, distance) \subseteq cObjs
           /\ opt.depth > 1 => Ball(wants, distance - 1) \cap shallow = {}

\* Every fetch ends: the negotiation runs out of haves or of patience.  Step is
\* the client's own control flow, so it is weakly fair.
FetchReturns == (pc # "idle") ~> (pc = "idle")
============================================================================
