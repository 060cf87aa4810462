----------------------------- MODULE QueueEngine -----------------------------
(***************************************************************************)
(* A queue station: producers that call PathQueueEdge.enqueue (edges.py)    *)
(* and workers that run DefaultTransformEngine.run_once (engine.py) over    *)
(* it, claiming items through the lease protocol of LeaseClaim.  Every      *)
(* backend call is a step; a step of the claim is the step of LeaseClaim.   *)
(*                                                                         *)
(* A pending file is a cell whose tag numbers the submissions of its item:  *)
(* placed[i] enqueues have put a file there.  A terminal record is a triple *)
(* of the item, the submission its writer had loaded and the outcome.       *)
(***************************************************************************)
EXTENDS PathBackend, FiniteSets

CONSTANTS Items,        \* item ids
          Workers,      \* engine workers
          Producers,    \* callers of enqueue
          NoPath,       \* no item
          MaxTags,      \* bound: leases ever placed on one item
          MaxPlace      \* bound: pending files ever placed for one item

ASSUME ItemAssumption == NoPath \notin Items
ASSUME BoundAssumption == MaxTags \in Nat /\ MaxPlace \in Nat

VARIABLES
    lease, issued, dead, succ,   \* the lease files, as in LeaseClaim
    pc, at, mine, seen,          \* the workers' claims, as in LeaseClaim
    pending,    \* pending[i]: the cell at pending/{i}.json
    placed,     \* placed[i]: the last submission number put there
    accepted,   \* ghost: items for which a call of enqueue has returned
    done,       \* terminal records: <<item, submission, outcome>>
    sink,       \* outputs the sink has taken: <<item, submission>>
    phase,      \* phase[w]: where worker w stands in run_once
    cands,      \* cands[w]: listed items that claim has not tried yet
    got,        \* got[w]: the submission w has loaded, 0 for none
    verdict,    \* verdict[w]: the outcome w is about to record
    prod        \* prod[e]: the call of enqueue producer e is in

Claim == INSTANCE LeaseClaim WITH Paths <- Items

claimVars  == <<lease, issued, dead, succ, pc, at, mine, seen>>
storeVars  == <<pending, placed, accepted, done, sink>>
engineVars == <<phase, cands, got, verdict>>
vars == <<claimVars, storeVars, engineVars, prod>>

Phases == {"idle", "claiming", "transform", "sink", "check", "terminal",
           "findPending", "removePending", "findLease"}

Outcomes == {"completed", "failed"}

TypeOK ==
    /\ Claim!TypeOK
    /\ pending \in [Items -> Cell]
    /\ placed \in [Items -> 0..MaxPlace]
    /\ accepted \subseteq Items
    /\ done \subseteq Items \X (1..MaxPlace) \X Outcomes
    /\ sink \subseteq Items \X (1..MaxPlace)
    /\ phase \in [Workers -> Phases]
    /\ cands \in [Workers -> SUBSET Items]
    /\ got \in [Workers -> 0..MaxPlace]
    /\ verdict \in [Workers -> Outcomes]
    /\ prod \in [Producers -> [pc : {"idle", "writing", "exists", "place"},
                               item : Items \cup {NoPath}, tag : 0..MaxPlace]]

Idle == [pc |-> "idle", item |-> NoPath, tag |-> 0]

Init ==
    /\ Claim!Init
    /\ pending = [i \in Items |-> Absent]
    /\ placed = [i \in Items |-> 0]
    /\ accepted = {}
    /\ done = {}
    /\ sink = {}
    /\ phase = [w \in Workers |-> "idle"]
    /\ cands = [w \in Workers |-> {}]
    /\ got = [w \in Workers |-> 0]
    /\ verdict = [w \in Workers |-> "completed"]
    /\ prod = [e \in Producers |-> Idle]

-------------------------------------------------------------------------------
(* enqueue *)

\* enqueue returns the item's id to its caller
Accept(e, i) ==
    /\ prod' = [prod EXCEPT ![e] = Idle]
    /\ accepted' = accepted \cup {i}

PlacePending(i, cell) ==
    /\ placed[i] < MaxPlace
    /\ placed' = [placed EXCEPT ![i] = @ + 1]
    /\ pending' = [pending EXCEPT ![i] = cell]
    /\ UNCHANGED <<done, sink>>

\* create_if_absent wins, or the file is there already
EnqueueCreate(e, i) ==
    /\ prod[e].pc = "idle"
    /\ \/ /\ ~Exists(pending[i])
          /\ PlacePending(i, Created(placed[i] + 1))
          /\ \/ ~Local /\ Accept(e, i)
             \/ /\ Local
                /\ prod' = [prod EXCEPT ![e] =
                      [pc |-> "writing", item |-> i, tag |-> placed[i] + 1]]
                /\ UNCHANGED accepted
       \/ /\ Exists(pending[i])
          /\ prod' = [prod EXCEPT ![e] = [pc |-> "exists", item |-> i, tag |-> 0]]
          /\ UNCHANGED storeVars
    /\ UNCHANGED <<claimVars, engineVars>>

\* the local create writes the bytes into the file it opened
EnqueueWrite(e) ==
    /\ prod[e].pc = "writing"
    /\ pending' = [pending EXCEPT ![prod[e].item] = Finished(@, prod[e].tag)]
    /\ Accept(e, prod[e].item)
    /\ UNCHANGED <<claimVars, engineVars, placed, done, sink>>

\* any existing file will do; one that has vanished since is put back
EnqueueExists(e) ==
    /\ prod[e].pc = "exists"
    /\ \/ /\ Exists(pending[prod[e].item])
          /\ Accept(e, prod[e].item)
       \/ /\ ~Exists(pending[prod[e].item])
          /\ prod' = [prod EXCEPT ![e].pc = "place"]
          /\ UNCHANGED accepted
    /\ UNCHANGED <<claimVars, engineVars, pending, placed, done, sink>>

\* write_atomic, whatever is there by now
EnqueuePlace(e) ==
    /\ prod[e].pc = "place"
    /\ PlacePending(prod[e].item, Full(placed[prod[e].item] + 1))
    /\ Accept(e, prod[e].item)
    /\ UNCHANGED <<claimVars, engineVars>>

\* a producer dies in its call
EnqueueCrash(e) ==
    /\ prod[e].pc # "idle"
    /\ prod' = [prod EXCEPT ![e] = Idle]
    /\ UNCHANGED <<claimVars, storeVars, engineVars>>

\* its local write fails: the file is unlinked and enqueue raises
EnqueueFails(e) ==
    /\ prod[e].pc = "writing"
    /\ pending' = [pending EXCEPT ![prod[e].item] = Absent]
    /\ prod' = [prod EXCEPT ![e] = Idle]
    /\ UNCHANGED <<claimVars, engineVars, placed, accepted, done, sink>>

-------------------------------------------------------------------------------
(* claim: list, then acquire_lease on one candidate after the other *)

Enter(w, ph) == phase' = [phase EXCEPT ![w] = ph]

\* run_once is over
Finish(w) ==
    /\ Enter(w, "idle")
    /\ cands' = [cands EXCEPT ![w] = {}]
    /\ got' = [got EXCEPT ![w] = 0]
    /\ verdict' = [verdict EXCEPT ![w] = "completed"]

\* a file is listed as soon as it exists, written or not; with none, run_once
\* returns False and nothing changes
ListPending(w) ==
    LET listed == {i \in Items : Exists(pending[i])}
    IN  /\ phase[w] = "idle"
        /\ listed # {}
        /\ Enter(w, "claiming")
        /\ cands' = [cands EXCEPT ![w] = listed]
        /\ UNCHANGED <<claimVars, storeVars, got, verdict, prod>>

\* the code's order, by hash of the path, is arbitrary
TryCandidate(w) ==
    /\ phase[w] = "claiming"
    /\ \E i \in cands[w] :
        /\ Claim!Try(w, i)
        /\ cands' = [cands EXCEPT ![w] = @ \ {i}]
    /\ UNCHANGED <<storeVars, phase, got, verdict, prod>>

\* the calls inside acquire_lease
Acquiring(w) ==
    /\ phase[w] = "claiming"
    /\ \/ Claim!Write(w) \/ Claim!WriteFails(w) \/ Claim!CheckExists(w)
       \/ Claim!Recreate(w) \/ Claim!Read(w) \/ Claim!Recheck(w)
       \/ Claim!FetchETag(w) \/ Claim!Swap(w) \/ Claim!Rename(w)
    /\ UNCHANGED <<storeVars, engineVars, prod>>

\* acquire_lease returned False: the next candidate, or none and run_once is over
NotAcquired(w) ==
    /\ phase[w] = "claiming"
    /\ pc[w] = "lost"
    /\ Claim!Return(w)
    /\ IF cands[w] = {} THEN Finish(w) ELSE UNCHANGED engineVars
    /\ UNCHANGED <<storeVars, prod>>

\* acquire_lease raised, through claim and run_once
AcquireRaised(w) ==
    /\ phase[w] = "claiming"
    /\ pc[w] = "raised"
    /\ Claim!Return(w)
    /\ Finish(w)
    /\ UNCHANGED <<storeVars, prod>>

\* mutant: a pending file that cannot be read goes on as an item
LoadAnything(w) ==
    /\ phase[w] = "claiming"
    /\ pc[w] = "held"
    /\ got' = [got EXCEPT ![w] = ETag(pending[at[w]])]
    /\ cands' = [cands EXCEPT ![w] = {}]
    /\ Enter(w, "transform")
    /\ UNCHANGED <<claimVars, verdict, storeVars, prod>>

\* read and deserialize the item under the lease.  A file that is gone, the
\* item having been settled since the listing, or that has no bytes yet makes
\* claim raise and leaves the lease behind.
Load(w) ==
    LET c == pending[at[w]]
    IN  /\ phase[w] = "claiming"
        /\ pc[w] = "held"
        /\ \/ /\ c.st = "full"
              /\ got' = [got EXCEPT ![w] = c.tag]
              /\ cands' = [cands EXCEPT ![w] = {}]
              /\ Enter(w, "transform")
              /\ UNCHANGED <<claimVars, verdict>>
           \/ /\ c.st # "full"
              /\ Claim!Abandon(w)
              /\ Finish(w)
        /\ UNCHANGED <<storeVars, prod>>

-------------------------------------------------------------------------------
(* run_once after the claim *)

LeaseExpired(w) == mine[w] \in dead[at[w]]

\* run_once returns without another word: the lease stays
GiveUp(w) ==
    /\ Claim!Abandon(w)
    /\ Finish(w)

\* fail(): straight to the terminal record, without a look at the clock
StartFail(w) ==
    /\ Enter(w, "terminal")
    /\ verdict' = [verdict EXCEPT ![w] = "failed"]
    /\ UNCHANGED <<claimVars, cands, got>>

\* the transform returns, and its result is dropped if the lease has expired
TransformReturns(w) ==
    /\ phase[w] = "transform"
    /\ \/ LeaseExpired(w) /\ GiveUp(w)
       \/ /\ ~LeaseExpired(w)
          /\ Enter(w, "sink")
          /\ UNCHANGED <<claimVars, cands, got, verdict>>
    /\ UNCHANGED <<storeVars, prod>>

TransformRaises(w) ==
    /\ phase[w] = "transform"
    /\ StartFail(w)
    /\ UNCHANGED <<storeVars, prod>>

\* mutant: a sink that raises is taken for one that has the output
SinkErrorSwallowed(w) ==
    /\ phase[w] = "sink"
    /\ sink' \in {sink, sink \cup {<<at[w], got[w]>>}}
    /\ Enter(w, "check")
    /\ UNCHANGED <<claimVars, pending, placed, accepted, done, cands, got, verdict, prod>>

\* append or enqueue of the output returns
SinkTakes(w) ==
    /\ phase[w] = "sink"
    /\ sink' = sink \cup {<<at[w], got[w]>>}
    /\ Enter(w, "check")
    /\ UNCHANGED <<claimVars, pending, placed, accepted, done, cands, got, verdict, prod>>

\* append or enqueue raises, before or after its write has taken effect
SinkRaises(w) ==
    /\ phase[w] = "sink"
    /\ sink' \in {sink, sink \cup {<<at[w], got[w]>>}}
    /\ StartFail(w)
    /\ UNCHANGED <<pending, placed, accepted, done, prod>>

\* the second look at the clock
CheckLease(w) ==
    /\ phase[w] = "check"
    /\ \/ LeaseExpired(w) /\ GiveUp(w)
       \/ /\ ~LeaseExpired(w)
          /\ Enter(w, "terminal")
          /\ UNCHANGED <<claimVars, cands, got, verdict>>
    /\ UNCHANGED <<storeVars, prod>>

-------------------------------------------------------------------------------
(* complete and fail: the terminal record, the pending file, the lease *)

\* mutant: only a completion leaves a record
NoRecordOfFailure(w) ==
    /\ phase[w] = "terminal"
    /\ done' = IF verdict[w] = "completed" THEN done \cup {<<at[w], got[w], verdict[w]>>}
               ELSE done
    /\ Enter(w, "findPending")
    /\ UNCHANGED <<claimVars, pending, placed, accepted, sink, cands, got, verdict, prod>>

\* write_atomic of completed/{i}.json or failed/{i}.json
WriteTerminal(w) ==
    /\ phase[w] = "terminal"
    /\ done' = done \cup {<<at[w], got[w], verdict[w]>>}
    /\ Enter(w, "findPending")
    /\ UNCHANGED <<claimVars, pending, placed, accepted, sink, cands, got, verdict, prod>>

FindPending(w) ==
    /\ phase[w] = "findPending"
    /\ Enter(w, IF Exists(pending[at[w]]) THEN "removePending" ELSE "findLease")
    /\ UNCHANGED <<claimVars, storeVars, cands, got, verdict, prod>>

\* whichever file is there now goes; a local file that another worker unlinked
\* in between may make delete raise, and then the lease stays
RemovePending(w) ==
    /\ phase[w] = "removePending"
    /\ pending' = [pending EXCEPT ![at[w]] = Absent]
    /\ \/ Enter(w, "findLease") /\ UNCHANGED <<claimVars, cands, got, verdict>>
       \/ Local /\ ~Exists(pending[at[w]]) /\ GiveUp(w)
    /\ UNCHANGED <<placed, accepted, done, sink, prod>>

\* the lease goes last, whoever's it is by now
RemoveLease(w) ==
    /\ phase[w] = "findLease"
    /\ \/ Claim!FindLease(w) \/ Claim!DeleteLease(w)
    /\ IF pc'[w] = "idle" THEN Finish(w) ELSE UNCHANGED engineVars
    /\ UNCHANGED <<storeVars, prod>>

\* a worker process dies
Crash(w) ==
    /\ phase[w] # "idle"
    /\ Finish(w)
    /\ IF pc[w] = "idle" THEN UNCHANGED claimVars ELSE Claim!Abandon(w)
    /\ UNCHANGED <<storeVars, prod>>

Lapse(i) == Claim!Lapse(i) /\ UNCHANGED <<storeVars, engineVars, prod>>

-------------------------------------------------------------------------------

\* what a worker goes on with once run_once is called
Step(w) ==
    \/ TryCandidate(w) \/ Acquiring(w) \/ NotAcquired(w) \/ AcquireRaised(w)
    \/ Load(w)
    \/ TransformReturns(w) \/ TransformRaises(w) \/ SinkTakes(w) \/ SinkRaises(w)
    \/ CheckLease(w) \/ WriteTerminal(w) \/ FindPending(w) \/ RemovePending(w)
    \/ RemoveLease(w)

Produce(e) ==
    \/ \E i \in Items : EnqueueCreate(e, i)
    \/ EnqueueWrite(e) \/ EnqueueExists(e) \/ EnqueuePlace(e)
    \/ EnqueueFails(e) \/ EnqueueCrash(e)

\* no enqueue can place another file and nothing is left to claim, or the
\* bound allows no other lease
BoundReached ==
    /\ \/ \A i \in Items : placed[i] = MaxPlace /\ ~Exists(pending[i])
       \/ \E i \in Items : issued[i] = MaxTags
    /\ UNCHANGED vars

Next ==
    \/ \E e \in Producers : Produce(e)
    \/ \E w \in Workers : ListPending(w) \/ Step(w) \/ Crash(w)
    \/ \E i \in Items : Lapse(i)
    \/ BoundReached

Spec == Init /\ [][Next]_vars

\* Every worker is run by a loop that calls run_once again and again, a call
\* that was begun goes on, and time passes.  Producers owe nothing.
Fairness ==
    /\ \A w \in Workers : WF_vars(ListPending(w)) /\ WF_vars(Step(w))
    /\ \A i \in Items : WF_vars(Lapse(i))

FairSpec == Spec /\ Fairness

-------------------------------------------------------------------------------
(* Properties *)

HasOutcome(i) == \E d \in done : d[1] = i

\* Once enqueue has returned, the item is readable under pending/ until an
\* outcome of it is recorded, whatever crash, lapse, failure or race of two
\* workers or producers comes between (P6).
NoLostItem ==
    \A i \in accepted : pending[i].st = "full" \/ HasOutcome(i)

\* A completed item has had its output taken by the sink: the sink write comes
\* before the completion, and no failure path leads around it.
CompletedIsSunk ==
    \A d \in done : d[3] = "completed" => <<d[1], d[2]>> \in sink

\* One submission gets two outcomes only if some lease of the item ran out of
\* time: without a lapse no crash, stale listing or re-enqueue makes two
\* workers settle it (C2, section 2.1 of CONCURRENCY.md).
OneOutcomeUnlessLapse ==
    \A d, f \in done : d[1] = f[1] /\ d[2] = f[2] /\ dead[d[1]] = {} => d = f

\* The queue implements the at-least-once queue of AbstractQueue.
Promise == INSTANCE AbstractQueue WITH
    available <- {i \in Items : pending[i].st = "full"},
    settled   <- {<<d[1], d[3]>> : d \in done},
    output    <- {s[1] : s \in sink}

ImplementsPromise == Promise!Spec

\* A pending item leaves the queue in the end, unless its workers crash for
\* ever or its leases reach the bound.
QueueDrains ==
    <>[][\A w \in Workers : ~Crash(w)]_vars =>
        \A i \in Items :
            Exists(pending[i]) ~> ~Exists(pending[i]) \/ issued[i] = MaxTags

\* C3 as the docs promise it, for workers that only claim and complete: two
\* leases with time left are never held on one item.
LiveLeaseIsExclusive == Claim!LiveLeaseIsExclusive
===============================================================================
