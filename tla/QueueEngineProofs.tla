-------------------------- MODULE QueueEngineProofs --------------------------
(***************************************************************************)
(* Proofs about QueueEngine for any items, workers and producers, any      *)
(* bounds and, where nothing else is said, both backends.  What the lease  *)
(* protocol guarantees is taken from LeaseClaimProofs, once the engine is  *)
(* shown to go through the steps of that protocol and no others.           *)
(***************************************************************************)
EXTENDS QueueEngine, TLAPS

P == INSTANCE LeaseClaimProofs WITH Paths <- Items

-------------------------------------------------------------------------------
(* The engine implements the lease protocol *)

\* The candidates of a worker are items.
Listed == cands \in [Workers -> SUBSET Items]

LEMMA ListedInit == Init => Listed
BY DEF Init, Listed

LEMMA ListedStep ==
    ASSUME Listed, [Next]_vars
    PROVE  Listed'
<1>1. ASSUME NEW e \in Producers, Produce(e) PROVE Listed'
  BY <1>1 DEF Listed, Produce, EnqueueCreate, EnqueueWrite, EnqueueExists, EnqueuePlace,
     EnqueueFails, EnqueueCrash, engineVars
<1>2. ASSUME NEW w \in Workers, Finish(w) PROVE Listed'
  BY <1>2 DEF Listed, Finish
<1>3. ASSUME NEW w \in Workers, ListPending(w) PROVE Listed'
  BY <1>3 DEF Listed, ListPending
<1>4. ASSUME NEW w \in Workers, Step(w) PROVE Listed'
  BY <1>2, <1>4 DEF Listed, Step, TryCandidate, Acquiring, NotAcquired, AcquireRaised, Load,
     TransformReturns, TransformRaises, SinkTakes, SinkRaises, CheckLease, WriteTerminal,
     FindPending, RemovePending, RemoveLease, GiveUp, StartFail, engineVars
<1>5. ASSUME NEW w \in Workers, Crash(w) PROVE Listed'
  BY <1>2, <1>5 DEF Crash
<1>6. ASSUME NEW i \in Items, Lapse(i) PROVE Listed'
  BY <1>6 DEF Listed, Lapse, engineVars
<1>7. ASSUME UNCHANGED vars PROVE Listed'
  BY <1>7 DEF Listed, vars, engineVars
<1> QED
  BY <1>1, <1>3, <1>4, <1>5, <1>6, <1>7 DEF Next, BoundReached

\* Every step of the station is a step of the lease protocol or leaves it alone.
LEMMA ClaimStep ==
    ASSUME Listed, [Next]_vars
    PROVE  [Claim!Next]_(Claim!vars)
<1>1. ASSUME UNCHANGED claimVars PROVE UNCHANGED Claim!vars
  BY <1>1 DEF claimVars, Claim!vars
<1>2. ASSUME NEW w \in Workers, Claim!Work(w) PROVE Claim!Next
  BY <1>2 DEF Claim!Next
<1>3. ASSUME NEW e \in Producers, Produce(e) PROVE UNCHANGED claimVars
  BY <1>3 DEF Produce, EnqueueCreate, EnqueueWrite, EnqueueExists, EnqueuePlace,
     EnqueueFails, EnqueueCrash
<1>4. ASSUME NEW w \in Workers, Step(w) PROVE Claim!Work(w) \/ UNCHANGED claimVars
  <2>1. CASE TryCandidate(w)
    BY <2>1 DEF Listed, TryCandidate, Claim!Work
  <2>2. CASE Acquiring(w)
    BY <2>2 DEF Acquiring, Claim!Work, Claim!Step
  <2>3. CASE NotAcquired(w) \/ AcquireRaised(w)
    BY <2>3 DEF NotAcquired, AcquireRaised, Claim!Work, Claim!Step
  <2>4. CASE Load(w)
    BY <2>4 DEF Load, Claim!Work
  <2>5. CASE TransformReturns(w) \/ CheckLease(w) \/ RemovePending(w)
    BY <2>5 DEF TransformReturns, CheckLease, RemovePending, GiveUp, Claim!Work
  <2>6. CASE TransformRaises(w) \/ SinkTakes(w) \/ SinkRaises(w) \/ WriteTerminal(w)
             \/ FindPending(w)
    BY <2>6 DEF TransformRaises, SinkTakes, SinkRaises, WriteTerminal, FindPending, StartFail
  <2>7. CASE RemoveLease(w)
    BY <2>7 DEF RemoveLease, Claim!Work, Claim!Step
  <2> QED
    BY <1>4, <2>1, <2>2, <2>3, <2>4, <2>5, <2>6, <2>7 DEF Step
<1>5. ASSUME NEW w \in Workers, Crash(w) PROVE Claim!Work(w) \/ UNCHANGED claimVars
  BY <1>5 DEF Crash, Claim!Work
<1>6. ASSUME NEW w \in Workers, ListPending(w) PROVE UNCHANGED claimVars
  BY <1>6 DEF ListPending
<1>7. ASSUME NEW i \in Items, Lapse(i) PROVE Claim!Next
  BY <1>7 DEF Lapse, Claim!Next
<1>8. ASSUME UNCHANGED vars PROVE UNCHANGED claimVars
  BY <1>8 DEF vars
<1> QED
  BY <1>1, <1>2, <1>3, <1>4, <1>5, <1>6, <1>7, <1>8 DEF Next, BoundReached

\* Whatever the producers, the engine workers and the sinks of a station do,
\* its leases and claims go through a behaviour of the lease protocol: no step
\* of the engine touches a lease but by acquire_lease and the release of
\* complete and fail.
THEOREM EngineClaims == Spec => Claim!Spec
<1>1. Init => Claim!Init
  BY DEF Init
<1> QED
  BY <1>1, ListedInit, ListedStep, ClaimStep, PTL DEF Spec, Claim!Spec

\* QueueEngine instantiates LeaseClaim as Claim; the proofs about LeaseClaim are
\* here instantiated as P, with a copy of every definition of LeaseClaim.
LEMMA SameProtocol ==
    /\ Claim!Init => P!Init
    /\ [Claim!Next]_(Claim!vars) => [P!Next]_(P!vars)
<1>1. Claim!Init => P!Init
  BY DEF P!Init, Claim!Init, P!Absent, Claim!Absent
<1>2. [Claim!Next]_(Claim!vars) => [P!Next]_(P!vars)
  BY DEF P!Next, Claim!Next, P!vars, Claim!vars, P!Work, Claim!Work, P!Step, Claim!Step,
   P!Lapse, Claim!Lapse, P!OutOfTags, Claim!OutOfTags, P!Try, Claim!Try, P!Write, Claim!Write,
   P!WriteFails, Claim!WriteFails, P!CheckExists, Claim!CheckExists, P!Recreate, Claim!Recreate,
   P!Read, Claim!Read, P!Recheck, Claim!Recheck, P!FetchETag, Claim!FetchETag, P!Swap, Claim!Swap,
   P!Rename, Claim!Rename, P!Put, Claim!Put, P!Renew, Claim!Renew, P!Leave, Claim!Leave,
   P!FindLease, Claim!FindLease, P!DeleteLease, Claim!DeleteLease, P!Return, Claim!Return,
   P!Abandon, Claim!Abandon, P!CreateIfAbsent, Claim!CreateIfAbsent, P!Place, Claim!Place,
   P!Goto, Claim!Goto, P!Refused, Claim!Refused, P!Raised, Claim!Raised,
   P!leaseVars, Claim!leaseVars, P!workerVars, Claim!workerVars,
   P!Exists, Claim!Exists, P!Created, Claim!Created, P!Finished, Claim!Finished, P!Full, Claim!Full,
   P!Empty, Claim!Empty, P!Absent, Claim!Absent, P!ETag, Claim!ETag, P!Local, Claim!Local
<1> QED
  BY <1>1, <1>2

\* The assumptions of the protocol hold of the station's constants.
LEMMA ProtocolAssumptions == P!PathAssumption /\ P!TagsAssumption /\ P!BackendAssumption
BY ItemAssumption, BoundAssumption, BackendAssumption
   DEF P!PathAssumption, P!TagsAssumption, P!BackendAssumption

\* The inductive invariant of the protocol holds in the station.
LEMMA ClaimsSound == Spec => []P!IInv
<1>1. P!Spec => []P!IInv
  BY ProtocolAssumptions, P!Invariance, PTL
<1> QED
  BY <1>1, EngineClaims, SameProtocol, PTL DEF P!Spec, Claim!Spec

-------------------------------------------------------------------------------
(* The strengthening of the type invariant *)

\* run_once between the claim and the end of the item, up to the terminal
\* record and after it
Working  == {"transform", "sink", "check", "terminal"}
Settling == {"findPending", "removePending"}

\* What the phase of run_once says of the claim inside of it: between the claim
\* and the release the worker holds a lease, or believes it does.
InPhaseOf(w) ==
    /\ phase[w] = "idle" => pc[w] = "idle"
    /\ phase[w] = "claiming" => pc[w] \notin {"deleting", "put"}
    /\ phase[w] \in Working \cup Settling => pc[w] = "held"
    /\ phase[w] = "findLease" => pc[w] \in {"held", "deleting"}
    /\ mine[w] # 0 <=> pc[w] \in {"writing", "held", "deleting"}

InPhase == \A w \in Workers : InPhaseOf(w)

\* The submissions of an item are numbered as their files were placed.
Numbered ==
    /\ \A i \in Items : /\ pending[i].tag <= placed[i]
                        /\ Exists(pending[i]) => pending[i].tag # 0
    /\ \A w \in Workers :
          phase[w] \in Working \cup Settling => got[w] # 0 /\ got[w] <= placed[at[w]]
    /\ \A d \in done : d[2] <= placed[d[1]]
    /\ \A e \in Producers :
          /\ prod[e].pc # "idle" => prod[e].item \in Items
          /\ prod[e].pc = "writing" => prod[e].tag # 0

EInv == P!IInv /\ TypeOK /\ InPhase /\ Numbered

\* The facts of the lease protocol the engine relies on
LEMMA ClaimFacts ==
    ASSUME P!IInv
    PROVE  /\ Claim!TypeOK
           /\ \A w \in Workers : pc[w] # "idle" <=> at[w] \in Items
           /\ \A w \in Workers : at[w] \notin Items => mine[w] = 0
           /\ \A v, w \in Workers :
                 v # w /\ at[v] = at[w] /\ mine[v] # 0 => mine[v] # mine[w]
           /\ \A w \in Workers : at[w] \in Items /\ dead[at[w]] = {} /\ mine[w] # 0
                 => Exists(lease[at[w]]) /\ lease[at[w]].tag = mine[w]
           /\ \A w \in Workers : at[w] \in Items /\ dead[at[w]] = {} /\ mine[w] = 0
                 => pc[w] \in {"exists", "recreate", "read", "recheck", "lost", "raised"}
BY DEF P!IInv, P!TypeOK, Claim!TypeOK, P!PCs, Claim!PCs, P!Cell, Claim!Cell, P!Standing,
   P!Distinct, P!HolderKeepsLease, P!Claimants, P!NoReclaim, P!Asking, P!Exists, Exists

\* A step of acquire_lease
LEMMA AcquiringMoves ==
    ASSUME P!IInv, InPhase, NEW w \in Workers, Acquiring(w)
    PROVE  /\ UNCHANGED <<at, dead, phase, cands, got, verdict, prod, storeVars>>
           /\ pc' = [pc EXCEPT ![w] = pc'[w]]
           /\ pc'[w] \notin {"idle", "deleting", "put"}
           /\ mine' = [mine EXCEPT ![w] = mine'[w]]
           /\ mine'[w] # 0 <=> pc'[w] \in {"writing", "held", "deleting"}
           /\ lease' = [lease EXCEPT ![at[w]] = lease'[at[w]]]
<1>1. at[w] \in Items /\ (mine[w] # 0 <=> pc[w] \in {"writing", "held", "deleting"})
  BY ClaimFacts DEF InPhase, InPhaseOf, Acquiring, Claim!Write, Claim!WriteFails,
     Claim!CheckExists, Claim!Recreate, Claim!Read, Claim!Recheck, Claim!FetchETag,
     Claim!Swap, Claim!Rename
<1>2. /\ pc \in [Workers -> Claim!PCs] /\ mine \in [Workers -> 0..MaxTags]
      /\ lease \in [Items -> Claim!Cell] /\ issued \in [Items -> 0..MaxTags]
  BY ClaimFacts DEF Claim!TypeOK
<1>3. issued[at[w]] + 1 # 0
  BY <1>1, <1>2, BoundAssumption
<1>4. UNCHANGED <<phase, cands, got, verdict, prod, storeVars>>
  BY DEF Acquiring, engineVars
<1> USE DEF Claim!Goto, Claim!Place, Claim!leaseVars
<1>5. CASE Claim!Write(w)
  BY <1>1, <1>2, <1>4, <1>5 DEF Claim!Write
<1>6. CASE Claim!WriteFails(w)
  BY <1>1, <1>2, <1>4, <1>6 DEF Claim!WriteFails
<1>7. CASE Claim!CheckExists(w) \/ Claim!Recheck(w)
  BY <1>1, <1>2, <1>4, <1>7 DEF Claim!CheckExists, Claim!Recheck
<1>8. CASE Claim!Recreate(w)
  BY <1>1, <1>2, <1>3, <1>4, <1>8 DEF Claim!Recreate, Claim!CreateIfAbsent
<1>9. CASE Claim!Read(w)
  <2>1. pc'[w] \in {"recreate", "recheck", "etag", "lost"}
    BY <1>2, <1>9 DEF Claim!Read
  <2> QED
    BY <1>1, <1>2, <1>4, <1>9, <2>1 DEF Claim!Read
<1>10. CASE Claim!FetchETag(w)
  BY <1>1, <1>2, <1>4, <1>10 DEF Claim!FetchETag
<1>11. CASE Claim!Swap(w)
  BY <1>1, <1>2, <1>3, <1>4, <1>11 DEF Claim!Swap, Claim!Refused, Claim!Raised
<1>12. CASE Claim!Rename(w)
  BY <1>1, <1>2, <1>3, <1>4, <1>12 DEF Claim!Rename
<1> QED
  BY <1>5, <1>6, <1>7, <1>8, <1>9, <1>10, <1>11, <1>12 DEF Acquiring

\* A producer's step leaves the workers alone.
LEMMA ProduceMoves ==
    ASSUME NEW e \in Producers, Produce(e)
    PROVE  UNCHANGED <<claimVars, engineVars>>
BY DEF Produce, EnqueueCreate, EnqueueWrite, EnqueueExists, EnqueuePlace, EnqueueFails,
   EnqueueCrash

\* The places a worker's state has in the variables
WorkerTypes ==
    /\ pc \in [Workers -> Claim!PCs]
    /\ at \in [Workers -> Items \cup {NoPath}]
    /\ mine \in [Workers -> 0..MaxTags]
    /\ phase \in [Workers -> Phases]
    /\ cands \in [Workers -> SUBSET Items]
    /\ got \in [Workers -> 0..MaxPlace]
    /\ verdict \in [Workers -> Outcomes]

LEMMA TypedWorkers == TypeOK => WorkerTypes
BY DEF TypeOK, Claim!TypeOK, WorkerTypes

\* A worker that ends run_once, its claim left behind or released
Ended(w) ==
    /\ pc' = [pc EXCEPT ![w] = "idle"]
    /\ at' = [at EXCEPT ![w] = NoPath]
    /\ mine' = [mine EXCEPT ![w] = 0]
    /\ phase' = [phase EXCEPT ![w] = "idle"]
    /\ cands' = [cands EXCEPT ![w] = {}]
    /\ got' = [got EXCEPT ![w] = 0]
    /\ verdict' = [verdict EXCEPT ![w] = "completed"]

LEMMA GiveUpMoves ==
    ASSUME NEW w \in Workers, GiveUp(w)
    PROVE  Ended(w) /\ UNCHANGED <<lease, issued, dead>>
BY DEF GiveUp, Finish, Enter, Ended, Claim!Abandon, Claim!Leave, Claim!Goto, Claim!leaseVars

\* The other workers stay as they are.
Others(w) ==
    \A v \in Workers \ {w} :
        /\ pc'[v] = pc[v] /\ at'[v] = at[v] /\ mine'[v] = mine[v]
        /\ phase'[v] = phase[v] /\ got'[v] = got[v] /\ verdict'[v] = verdict[v]

\* What a step of a worker does to its own place in run_once, and that it does
\* nothing to another's
LEMMA WorkerMoves ==
    ASSUME P!IInv, WorkerTypes, InPhase, NEW w \in Workers,
           ListPending(w) \/ Step(w) \/ Crash(w)
    PROVE  Others(w) /\ InPhaseOf(w)' /\ UNCHANGED prod
<1>1. InPhaseOf(w) /\ (pc[w] # "idle" <=> at[w] \in Items)
  BY ClaimFacts DEF InPhase
<1>2. ASSUME Ended(w) PROVE Others(w) /\ InPhaseOf(w)'
  BY <1>2 DEF Ended, Others, WorkerTypes, InPhaseOf, Working, Settling
<1>3. CASE ListPending(w)
  BY <1>1, <1>3 DEF ListPending, Enter, claimVars, Others, WorkerTypes, InPhaseOf, Working, Settling
<1>4. CASE TryCandidate(w)
  <2>1. PICK i \in cands[w] : Claim!Try(w, i)
    BY <1>4 DEF TryCandidate
  <2>2. i \in Items /\ issued[i] \in 0..MaxTags /\ issued[i] + 1 # 0
    BY ClaimFacts, BoundAssumption DEF WorkerTypes, Claim!TypeOK
  <2> QED
    BY <1>1, <1>4, <2>1, <2>2 DEF TryCandidate, Claim!Try, Claim!CreateIfAbsent, Claim!Place,
       Claim!Goto, Claim!leaseVars, Others, WorkerTypes, InPhaseOf, Working, Settling
<1>5. CASE Acquiring(w)
  <2>1. phase[w] = "claiming"
    BY <1>5 DEF Acquiring
  <2> QED
    BY <1>5, <2>1, AcquiringMoves DEF Others, WorkerTypes, InPhaseOf, Working, Settling
<1>6. CASE NotAcquired(w)
  BY <1>1, <1>2, <1>6 DEF NotAcquired, Claim!Return, Claim!Leave, Claim!Goto, Finish, Enter, Ended,
     engineVars, Others, WorkerTypes, InPhaseOf, Working, Settling
<1>7. CASE AcquireRaised(w)
  BY <1>2, <1>7 DEF AcquireRaised, Claim!Return, Claim!Leave, Claim!Goto, Finish, Enter, Ended
<1>8. CASE Load(w)
  <2>1. CASE pending[at[w]].st # "full"
    BY <1>2, <1>8, <2>1, GiveUpMoves DEF Load, GiveUp
  <2>2. CASE pending[at[w]].st = "full"
    <3>1. /\ pc[w] = "held" /\ UNCHANGED <<pc, at, mine, verdict, prod>>
          /\ phase' = [phase EXCEPT ![w] = "transform"]
          /\ got' = [got EXCEPT ![w] = pending[at[w]].tag]
      BY <1>8, <2>2 DEF Load, Enter, claimVars
    <3> QED
      BY <1>1, <3>1 DEF Others, WorkerTypes, InPhaseOf, Working, Settling
  <2> QED
    BY <2>1, <2>2
<1>9. CASE TransformReturns(w) \/ CheckLease(w) \/ RemovePending(w)
  <2>1. CASE GiveUp(w)
    BY <1>2, <1>9, <2>1, GiveUpMoves DEF TransformReturns, CheckLease, RemovePending
  <2>2. CASE ~GiveUp(w)
    BY <1>1, <1>9, <2>2 DEF TransformReturns, CheckLease, RemovePending, Enter, claimVars, Others,
       WorkerTypes, InPhaseOf, Working, Settling
  <2> QED
    BY <2>1, <2>2
<1>10. CASE TransformRaises(w) \/ SinkTakes(w) \/ SinkRaises(w) \/ WriteTerminal(w)
            \/ FindPending(w)
  BY <1>1, <1>10 DEF TransformRaises, SinkTakes, SinkRaises, WriteTerminal, FindPending, StartFail,
     Enter, claimVars, Others, WorkerTypes, InPhaseOf, Working, Settling
<1>11. CASE RemoveLease(w)
  <2>1. CASE Claim!Leave(w)
    BY <1>2, <1>11, <2>1 DEF RemoveLease, Claim!Leave, Claim!Goto, Finish, Enter, Ended, WorkerTypes
  <2>2. CASE Claim!Goto(w, "deleting") /\ UNCHANGED <<at, mine, seen>> /\ pc[w] = "held"
    BY <1>1, <1>11, <2>2 DEF RemoveLease, Claim!Goto, engineVars, Others, WorkerTypes, InPhaseOf,
       Working, Settling
  <2> QED
    BY <1>11, <2>1, <2>2 DEF RemoveLease, Claim!FindLease, Claim!DeleteLease
<1>12. CASE Crash(w)
  <2>1. CASE pc[w] = "idle"
    <3>1. at[w] \notin Items /\ at[w] = NoPath /\ mine[w] = 0
      BY <1>1, <2>1, ClaimFacts DEF WorkerTypes, InPhaseOf
    <3>2. Ended(w)
      BY <1>12, <2>1, <3>1 DEF Crash, Finish, Enter, Ended, claimVars, WorkerTypes
    <3> QED
      BY <1>2, <1>12, <3>2 DEF Crash
  <2>2. CASE pc[w] # "idle"
    BY <1>2, <1>12, <2>2, GiveUpMoves DEF Crash, GiveUp
  <2> QED
    BY <2>1, <2>2
<1>13. UNCHANGED prod
  BY DEF ListPending, Step, Crash, TryCandidate, Acquiring, NotAcquired, AcquireRaised, Load,
     TransformReturns, TransformRaises, SinkTakes, SinkRaises, CheckLease, WriteTerminal,
     FindPending, RemovePending, RemoveLease
<1> QED
  BY <1>3, <1>4, <1>5, <1>6, <1>7, <1>8, <1>9, <1>10, <1>11, <1>12, <1>13 DEF Step

\* What a step that no worker takes leaves alone
LEMMA OtherMoves ==
    ASSUME [Next]_vars
    PROVE  \/ \E w \in Workers : ListPending(w) \/ Step(w) \/ Crash(w)
           \/ /\ UNCHANGED <<lease, issued, pc, at, mine, engineVars>>
              /\ UNCHANGED <<dead, succ, seen>> \/ \E i \in Items : Lapse(i)
              /\ UNCHANGED <<storeVars, prod>> \/ \E e \in Producers : Produce(e)
<1>1. ASSUME NEW e \in Producers, Produce(e) PROVE UNCHANGED <<claimVars, engineVars>>
  BY <1>1, ProduceMoves
<1>2. ASSUME NEW i \in Items, Lapse(i)
      PROVE  UNCHANGED <<lease, issued, pc, at, mine, engineVars, storeVars, prod>>
  BY <1>2 DEF Lapse, Claim!Lapse, Claim!workerVars
<1> QED
  BY <1>1, <1>2 DEF Next, BoundReached, vars, claimVars

LEMMA InPhaseStep ==
    ASSUME P!IInv, WorkerTypes, InPhase, [Next]_vars
    PROVE  InPhase'
<1>1. ASSUME NEW w \in Workers, ListPending(w) \/ Step(w) \/ Crash(w) PROVE InPhase'
  BY <1>1, WorkerMoves DEF Others, InPhase, InPhaseOf
<1>2. ASSUME UNCHANGED <<lease, issued, pc, at, mine, engineVars>> PROVE InPhase'
  BY <1>2 DEF InPhase, InPhaseOf, engineVars
<1> QED
  BY <1>1, <1>2, OtherMoves

\* What the backend's operators make of a pending file
LEMMA CellFacts ==
    /\ Absent \in Cell /\ ~Exists(Absent) /\ Absent.tag = 0 /\ Absent.st # "full"
    /\ \A t \in Nat : /\ Full(t) \in Cell /\ Full(t).tag = t /\ Full(t).st = "full"
                      /\ Created(t) \in Cell /\ Created(t).tag = t
                      /\ ~Local => Created(t).st = "full"
                      /\ Local => Created(t) = Empty(t) /\ Created(t).st = "empty"
    /\ \A c \in Cell, t \in Nat :
          /\ Finished(c, t) \in Cell /\ Finished(c, t).tag = c.tag
          /\ Exists(Finished(c, t)) <=> Exists(c)
          /\ c.st = "full" => Finished(c, t) = c
          /\ c = Empty(t) => Finished(c, t) = Full(t)
          /\ c # Empty(t) => Finished(c, t) = c
BY DEF Absent, Full, Empty, Created, Finished, Cell, Exists

ProducerTypes ==
    prod \in [Producers -> [pc : {"idle", "writing", "exists", "place"},
                            item : Items \cup {NoPath}, tag : 0..MaxPlace]]

StoreTypes ==
    /\ pending \in [Items -> Cell]
    /\ placed \in [Items -> 0..MaxPlace]
    /\ accepted \subseteq Items
    /\ done \subseteq Items \X (1..MaxPlace) \X Outcomes
    /\ sink \subseteq Items \X (1..MaxPlace)

LEMMA TypesSplit == TypeOK <=> Claim!TypeOK /\ StoreTypes /\ ProducerTypes
                               /\ phase \in [Workers -> Phases]
                               /\ cands \in [Workers -> SUBSET Items]
                               /\ got \in [Workers -> 0..MaxPlace]
                               /\ verdict \in [Workers -> Outcomes]
BY DEF TypeOK, StoreTypes, ProducerTypes

\* Placing a file counts it.
LEMMA PlaceFacts ==
    ASSUME StoreTypes, Numbered, NEW i \in Items, NEW cell, PlacePending(i, cell)
    PROVE  /\ placed[i] + 1 \in 1..MaxPlace
           /\ placed' = [placed EXCEPT ![i] = placed[i] + 1]
           /\ placed' \in [Items -> 0..MaxPlace]
           /\ \A j \in Items : placed[j] <= placed'[j]
<1>1. placed[i] \in 0..MaxPlace /\ placed[i] < MaxPlace
  BY DEF StoreTypes, PlacePending
<1> QED
  BY <1>1, BoundAssumption DEF StoreTypes, PlacePending

\* A submission loaded, or recorded, that has a number keeps it: the numbers
\* only grow.
LoadedNumbered(w) ==
    phase[w] \in Working \cup Settling => got[w] # 0 /\ got[w] <= placed[at[w]]

LEMMA NumbersGrow ==
    ASSUME StoreTypes, WorkerTypes, Numbered,
           \A w \in Workers : phase[w] \in Working \cup Settling => at[w] \in Items,
           placed' \in [Items -> 0..MaxPlace], \A j \in Items : placed[j] <= placed'[j],
           UNCHANGED <<at, phase, got>>
    PROVE  /\ \A w \in Workers : LoadedNumbered(w)'
           /\ \A d \in done : d[2] <= placed'[d[1]]
<1>1. ASSUME NEW w \in Workers PROVE LoadedNumbered(w)'
  <2> SUFFICES ASSUME phase[w] \in Working \cup Settling
               PROVE  got[w] # 0 /\ got[w] <= placed'[at[w]]
    BY DEF LoadedNumbered
  <2>1. at[w] \in Items /\ got[w] # 0 /\ got[w] <= placed[at[w]]
    BY DEF Numbered
  <2>2. placed[at[w]] \in Int /\ placed'[at[w]] \in Int /\ got[w] \in Int
    BY <2>1, BoundAssumption DEF StoreTypes, WorkerTypes
  <2> QED
    BY <2>1, <2>2
<1>2. ASSUME NEW d \in done PROVE d[2] <= placed'[d[1]]
  <2>1. d[1] \in Items /\ d[2] \in Int /\ d[2] <= placed[d[1]]
    BY DEF Numbered, StoreTypes
  <2>2. placed[d[1]] \in Int /\ placed'[d[1]] \in Int /\ placed[d[1]] <= placed'[d[1]]
    BY <2>1, BoundAssumption DEF StoreTypes
  <2> QED
    BY <2>1, <2>2
<1> QED
  BY <1>1, <1>2

\* The calls of enqueue keep the types and the numbers.
LEMMA ProduceTyped ==
    ASSUME StoreTypes, ProducerTypes, WorkerTypes, Numbered,
           \A w \in Workers : phase[w] \in Working \cup Settling => at[w] \in Items,
           NEW e \in Producers, Produce(e)
    PROVE  StoreTypes' /\ ProducerTypes' /\ Numbered'
<1>0. UNCHANGED <<at, phase, got>>
  BY ProduceMoves DEF claimVars, engineVars
<1>1. ASSUME NEW i \in Items, NEW cell \in Cell, PlacePending(i, cell), cell.tag = placed[i] + 1,
             accepted' \subseteq Items,
             ProducerTypes', \A f \in Producers :
                 /\ prod'[f].pc # "idle" => prod'[f].item \in Items
                 /\ prod'[f].pc = "writing" => prod'[f].tag # 0
      PROVE  StoreTypes' /\ Numbered'
  <2>1. /\ placed[i] + 1 \in 1..MaxPlace /\ placed' = [placed EXCEPT ![i] = placed[i] + 1]
        /\ placed' \in [Items -> 0..MaxPlace] /\ \A j \in Items : placed[j] <= placed'[j]
    BY <1>1, PlaceFacts
  <2>2. pending' = [pending EXCEPT ![i] = cell] /\ UNCHANGED <<done, sink>>
    BY <1>1 DEF PlacePending
  <2>3. \A w \in Workers : LoadedNumbered(w)'
    BY <1>0, <2>1, NumbersGrow
  <2>4. \A d \in done' : d[2] <= placed'[d[1]]
    BY <1>0, <2>1, <2>2, NumbersGrow
  <2>5. ASSUME NEW j \in Items
        PROVE  pending'[j].tag <= placed'[j] /\ (Exists(pending'[j]) => pending'[j].tag # 0)
    <3>1. CASE j = i
      BY <1>1, <2>1, <2>2, <3>1 DEF StoreTypes
    <3>2. CASE j # i
      BY <2>1, <2>2, <3>2 DEF StoreTypes, Numbered
    <3> QED
      BY <3>1, <3>2
  <2>6. StoreTypes'
    BY <1>1, <2>1, <2>2 DEF StoreTypes
  <2> QED
    BY <1>1, <2>3, <2>4, <2>5, <2>6 DEF Numbered, LoadedNumbered
<1>2. ASSUME UNCHANGED <<placed, done, sink>>, accepted' \subseteq Items,
             pending' \in [Items -> Cell],
             \A j \in Items : /\ pending'[j].tag <= placed[j]
                              /\ Exists(pending'[j]) => pending'[j].tag # 0,
             ProducerTypes', \A f \in Producers :
                 /\ prod'[f].pc # "idle" => prod'[f].item \in Items
                 /\ prod'[f].pc = "writing" => prod'[f].tag # 0
      PROVE  StoreTypes' /\ Numbered'
  <2>1. StoreTypes'
    BY <1>2 DEF StoreTypes
  <2>2. \A j \in Items : placed[j] <= placed'[j]
    BY <1>2, BoundAssumption DEF StoreTypes
  <2>3. /\ \A w \in Workers : LoadedNumbered(w)'
        /\ \A d \in done : d[2] <= placed'[d[1]]
    BY <1>0, <1>2, <2>1, <2>2, NumbersGrow DEF StoreTypes
  <2> QED
    BY <1>2, <2>1, <2>3 DEF Numbered, LoadedNumbered
<1>3. prod[e] \in [pc : {"idle", "writing", "exists", "place"},
                   item : Items \cup {NoPath}, tag : 0..MaxPlace]
  BY DEF ProducerTypes
<1>4. Idle \in [pc : {"idle", "writing", "exists", "place"},
                item : Items \cup {NoPath}, tag : 0..MaxPlace] /\ Idle.pc = "idle"
  BY BoundAssumption DEF Idle
\* prod' takes the new value p of e's call, the others keep theirs
<1>5. ASSUME NEW p, p \in [pc : {"idle", "writing", "exists", "place"},
                           item : Items \cup {NoPath}, tag : 0..MaxPlace],
             p.pc # "idle" => p.item \in Items, p.pc = "writing" => p.tag # 0,
             prod' = [prod EXCEPT ![e] = p]
      PROVE  /\ ProducerTypes'
             /\ \A f \in Producers : /\ prod'[f].pc # "idle" => prod'[f].item \in Items
                                     /\ prod'[f].pc = "writing" => prod'[f].tag # 0
  BY <1>5 DEF ProducerTypes, Numbered
<1>6. prod[e].pc # "idle" => prod[e].item \in Items
  BY DEF Numbered
<1>7. ASSUME NEW j \in Items
      PROVE  /\ pending[j] \in Cell /\ pending[j].tag <= placed[j]
             /\ Exists(pending[j]) => pending[j].tag # 0
             /\ placed[j] \in Nat
  BY BoundAssumption DEF StoreTypes, Numbered
<1>8. ASSUME NEW i \in Items, EnqueueCreate(e, i)
      PROVE  StoreTypes' /\ ProducerTypes' /\ Numbered'
  <2>1. CASE ~Exists(pending[i])
    <3>1. PlacePending(i, Created(placed[i] + 1))
      BY <1>8, <2>1 DEF EnqueueCreate
    <3>2. placed[i] + 1 \in 1..MaxPlace /\ placed[i] + 1 \in Nat /\ placed[i] + 1 # 0
      BY <3>1, PlaceFacts, BoundAssumption
    <3>3. Created(placed[i] + 1) \in Cell /\ Created(placed[i] + 1).tag = placed[i] + 1
      BY <3>2, CellFacts
    <3>4. CASE ~Local
      <4>1. prod' = [prod EXCEPT ![e] = Idle] /\ accepted' = accepted \cup {i}
        BY <1>8, <2>1, <3>4 DEF EnqueueCreate, Accept
      <4>2. accepted' \subseteq Items
        BY <4>1 DEF StoreTypes
      <4> QED
        BY <1>1, <1>4, <1>5, <3>1, <3>3, <4>1, <4>2
    <3>5. CASE Local
      <4> DEFINE p == [pc |-> "writing", item |-> i, tag |-> placed[i] + 1]
      <4>1. prod' = [prod EXCEPT ![e] = p] /\ accepted' = accepted
        BY <1>8, <2>1, <3>5 DEF EnqueueCreate
      <4>2. /\ p \in [pc : {"idle", "writing", "exists", "place"},
                      item : Items \cup {NoPath}, tag : 0..MaxPlace]
            /\ p.pc = "writing" /\ p.item \in Items /\ p.tag # 0
        BY <3>2
      <4>3. accepted' \subseteq Items
        BY <4>1 DEF StoreTypes
      <4> HIDE DEF p
      <4> QED
        BY <1>1, <1>5, <3>1, <3>3, <4>1, <4>2, <4>3
    <3> QED
      BY <3>4, <3>5
  <2>2. CASE Exists(pending[i])
    <3> DEFINE p == [pc |-> "exists", item |-> i, tag |-> 0]
    <3>1. prod' = [prod EXCEPT ![e] = p] /\ UNCHANGED storeVars
      BY <1>8, <2>2 DEF EnqueueCreate
    <3>2. /\ p \in [pc : {"idle", "writing", "exists", "place"},
                    item : Items \cup {NoPath}, tag : 0..MaxPlace]
          /\ p.pc = "exists" /\ p.item \in Items
      BY BoundAssumption
    <3>3. accepted' \subseteq Items /\ pending' \in [Items -> Cell]
      BY <3>1 DEF StoreTypes, storeVars
    <3> HIDE DEF p
    <3> QED
      BY <1>2, <1>5, <1>7, <3>1, <3>2, <3>3 DEF storeVars
  <2> QED
    BY <2>1, <2>2
<1>9. CASE EnqueueWrite(e)
  <2>1. /\ prod[e].pc = "writing" /\ prod[e].item \in Items /\ prod[e].tag \in Nat
        /\ pending' = [pending EXCEPT ![prod[e].item]
                         = Finished(pending[prod[e].item], prod[e].tag)]
        /\ prod' = [prod EXCEPT ![e] = Idle] /\ accepted' = accepted \cup {prod[e].item}
        /\ UNCHANGED <<placed, done, sink>>
    BY <1>3, <1>6, <1>9, BoundAssumption DEF EnqueueWrite, Accept
  <2>2. pending' \in [Items -> Cell] /\ accepted' \subseteq Items
    BY <1>7, <2>1, CellFacts DEF StoreTypes
  <2>3. ASSUME NEW j \in Items
        PROVE  pending'[j].tag = pending[j].tag /\ (Exists(pending'[j]) <=> Exists(pending[j]))
    <3>1. pending[j] \in Cell
      BY <1>7
    <3>2. pending'[j] = pending[j] \/ pending'[j] = Finished(pending[j], prod[e].tag)
      BY <2>1 DEF StoreTypes
    <3> QED
      BY <2>1, <3>1, <3>2, CellFacts
  <2>4. ASSUME NEW j \in Items
        PROVE  pending'[j].tag <= placed[j] /\ (Exists(pending'[j]) => pending'[j].tag # 0)
    BY <1>7, <2>3
  <2>5. ProducerTypes' /\ \A f \in Producers :
          /\ prod'[f].pc # "idle" => prod'[f].item \in Items
          /\ prod'[f].pc = "writing" => prod'[f].tag # 0
    BY <1>4, <1>5, <2>1
  <2> QED
    BY <1>2, <2>1, <2>2, <2>4, <2>5
<1>10. CASE EnqueueExists(e)
  <2>1. /\ UNCHANGED <<pending, placed, done, sink>> /\ prod[e].item \in Items
        /\ accepted' \in {accepted, accepted \cup {prod[e].item}}
    BY <1>6, <1>10 DEF EnqueueExists, Accept
  <2>2. pending' \in [Items -> Cell] /\ accepted' \subseteq Items
    BY <2>1 DEF StoreTypes
  <2> DEFINE p == [prod[e] EXCEPT !.pc = "place"]
  <2>3. /\ p \in [pc : {"idle", "writing", "exists", "place"},
                  item : Items \cup {NoPath}, tag : 0..MaxPlace]
        /\ p.pc = "place" /\ p.item = prod[e].item
    BY <1>3
  <2>4. prod' = [prod EXCEPT ![e] = Idle] \/ prod' = [prod EXCEPT ![e] = p]
    BY <1>10, Zenon DEF EnqueueExists, Accept
  <2> HIDE DEF p
  <2> QED
    BY <1>2, <1>4, <1>5, <1>7, <2>1, <2>2, <2>3, <2>4
<1>11. CASE EnqueuePlace(e)
  <2> DEFINE i == prod[e].item
  <2>1. /\ i \in Items /\ PlacePending(i, Full(placed[i] + 1))
        /\ prod' = [prod EXCEPT ![e] = Idle] /\ accepted' = accepted \cup {i}
    BY <1>6, <1>11 DEF EnqueuePlace, Accept
  <2> HIDE DEF i
  <2>2. placed[i] + 1 \in Nat /\ accepted' \subseteq Items
    BY <1>7, <2>1 DEF StoreTypes
  <2>3. Full(placed[i] + 1) \in Cell /\ Full(placed[i] + 1).tag = placed[i] + 1
    BY <2>2, CellFacts
  <2> QED
    BY <1>1, <1>4, <1>5, <2>1, <2>2, <2>3
<1>12. CASE EnqueueFails(e)
  <2>1. /\ pending' = [pending EXCEPT ![prod[e].item] = Absent] /\ UNCHANGED <<placed, done, sink>>
        /\ prod' = [prod EXCEPT ![e] = Idle] /\ accepted' \subseteq Items
    BY <1>12 DEF EnqueueFails, StoreTypes
  <2>2. pending' \in [Items -> Cell]
    BY <2>1, CellFacts DEF StoreTypes
  <2>3. ASSUME NEW j \in Items
        PROVE  pending'[j] = pending[j] \/ pending'[j] = Absent
    BY <2>1 DEF StoreTypes
  <2>4. ASSUME NEW j \in Items
        PROVE  pending'[j].tag <= placed[j] /\ (Exists(pending'[j]) => pending'[j].tag # 0)
    BY <1>7, <2>3, CellFacts
  <2> QED
    BY <1>2, <1>4, <1>5, <2>1, <2>2, <2>4
<1>13. CASE EnqueueCrash(e)
  <2>1. prod' = [prod EXCEPT ![e] = Idle] /\ UNCHANGED storeVars
    BY <1>13 DEF EnqueueCrash
  <2>2. pending' \in [Items -> Cell] /\ accepted' \subseteq Items
    BY <2>1 DEF StoreTypes, storeVars
  <2> QED
    BY <1>2, <1>4, <1>5, <1>7, <2>1, <2>2 DEF storeVars
<1> QED
  BY <1>8, <1>9, <1>10, <1>11, <1>12, <1>13 DEF Produce

\* What a step of a worker does to the queue's files and the sink: at most one
\* of the three writes of run_once, at its own phase
StoreMoves(w) ==
    /\ UNCHANGED <<placed, accepted>>
    /\ \/ UNCHANGED <<pending, done, sink>>
       \/ /\ phase[w] = "sink"
          /\ sink' \in {sink, sink \cup {<<at[w], got[w]>>}}
          /\ UNCHANGED <<pending, done>>
       \/ /\ WriteTerminal(w)
          /\ UNCHANGED <<pending, sink>>
       \/ /\ phase[w] = "removePending"
          /\ pending' = [pending EXCEPT ![at[w]] = Absent]
          /\ UNCHANGED <<done, sink>>

LEMMA WorkerStores ==
    ASSUME NEW w \in Workers, ListPending(w) \/ Step(w) \/ Crash(w)
    PROVE  StoreMoves(w)
<1>1. CASE ListPending(w) \/ Crash(w) \/ TryCandidate(w) \/ Acquiring(w) \/ NotAcquired(w)
           \/ AcquireRaised(w) \/ Load(w)
  BY <1>1 DEF StoreMoves, ListPending, Crash, TryCandidate, Acquiring, NotAcquired, AcquireRaised,
     Load, storeVars
<1>2. CASE TransformReturns(w) \/ TransformRaises(w) \/ CheckLease(w) \/ FindPending(w)
           \/ RemoveLease(w)
  BY <1>2 DEF StoreMoves, TransformReturns, TransformRaises, CheckLease, FindPending, RemoveLease,
     storeVars
<1>3. CASE SinkTakes(w)
  BY <1>3 DEF StoreMoves, SinkTakes
<1>4. CASE SinkRaises(w)
  BY <1>4 DEF StoreMoves, SinkRaises
<1>5. CASE WriteTerminal(w)
  BY <1>5 DEF StoreMoves, WriteTerminal
<1>6. CASE RemovePending(w)
  BY <1>6 DEF StoreMoves, RemovePending
<1> QED
  BY <1>1, <1>2, <1>3, <1>4, <1>5, <1>6 DEF Step

\* What a step of a worker does to its own run_once: it ends, or goes on with
\* the same item and submission, or loads one
PhaseMoves(w) ==
    \/ Ended(w)
    \/ /\ UNCHANGED <<phase, got, verdict>>
       /\ phase[w] \in {"claiming", "findLease"}
    \/ /\ phase[w] = "idle"
       /\ Enter(w, "claiming")
       /\ UNCHANGED <<at, mine, got, verdict>>
    \/ /\ phase[w] = "claiming" /\ pc[w] = "held" /\ pending[at[w]].st = "full"
       /\ got' = [got EXCEPT ![w] = pending[at[w]].tag]
       /\ Enter(w, "transform")
       /\ UNCHANGED <<at, mine, verdict>>
    \/ /\ \E ph \in Phases :
             /\ <<phase[w], ph>> \in {<<"transform", "sink">>, <<"sink", "check">>,
                   <<"check", "terminal">>, <<"terminal", "findPending">>,
                   <<"findPending", "removePending">>, <<"findPending", "findLease">>,
                   <<"removePending", "findLease">>}
             /\ Enter(w, ph)
       /\ UNCHANGED <<at, mine, got, verdict>>
    \/ /\ phase[w] \in {"transform", "sink"}
       /\ Enter(w, "terminal")
       /\ verdict' = [verdict EXCEPT ![w] = "failed"]
       /\ UNCHANGED <<at, mine, got>>

LEMMA WorkerPhases ==
    ASSUME P!IInv, WorkerTypes, InPhase, NEW w \in Workers,
           ListPending(w) \/ Step(w) \/ Crash(w)
    PROVE  PhaseMoves(w)
<1>1. InPhaseOf(w) /\ (pc[w] # "idle" <=> at[w] \in Items)
  BY ClaimFacts DEF InPhase
<1>2. CASE ListPending(w)
  BY <1>2 DEF ListPending, PhaseMoves, claimVars
<1>3. CASE TryCandidate(w) \/ Acquiring(w)
  BY <1>3 DEF TryCandidate, Acquiring, PhaseMoves, engineVars
<1>4. CASE NotAcquired(w)
  BY <1>4 DEF NotAcquired, Claim!Return, Claim!Leave, Claim!Goto, Finish, Enter, Ended, engineVars,
     PhaseMoves
<1>5. CASE AcquireRaised(w)
  BY <1>5 DEF AcquireRaised, Claim!Return, Claim!Leave, Claim!Goto, Finish, Enter, Ended, PhaseMoves
<1>6. CASE Load(w)
  <2>1. CASE pending[at[w]].st # "full"
    BY <1>6, <2>1, GiveUpMoves DEF Load, GiveUp, PhaseMoves
  <2>2. CASE pending[at[w]].st = "full"
    BY <1>6, <2>2 DEF Load, PhaseMoves, claimVars
  <2> QED
    BY <2>1, <2>2
<1>7. CASE TransformReturns(w) \/ CheckLease(w) \/ RemovePending(w)
  <2>1. CASE GiveUp(w)
    BY <2>1, GiveUpMoves DEF PhaseMoves
  <2>2. CASE ~GiveUp(w)
    BY <1>7, <2>2 DEF TransformReturns, CheckLease, RemovePending, claimVars, PhaseMoves, Phases
  <2> QED
    BY <2>1, <2>2
<1>8. CASE TransformRaises(w) \/ SinkRaises(w)
  BY <1>8 DEF TransformRaises, SinkRaises, StartFail, claimVars, PhaseMoves
<1>9. CASE SinkTakes(w) \/ WriteTerminal(w) \/ FindPending(w)
  BY <1>9 DEF SinkTakes, WriteTerminal, FindPending, claimVars, PhaseMoves, Phases
<1>10. CASE RemoveLease(w)
  <2>1. CASE Claim!Leave(w)
    BY <1>10, <2>1 DEF RemoveLease, Claim!Leave, Claim!Goto, Finish, Enter, Ended, WorkerTypes,
       PhaseMoves
  <2>2. CASE pc'[w] # "idle"
    BY <1>10, <2>2 DEF RemoveLease, engineVars, PhaseMoves
  <2>3. Claim!Leave(w) \/ pc'[w] # "idle"
    BY <1>10 DEF RemoveLease, Claim!FindLease, Claim!DeleteLease, Claim!Goto, WorkerTypes
  <2> QED
    BY <2>1, <2>2, <2>3
<1>11. CASE Crash(w)
  <2>1. CASE pc[w] = "idle"
    BY <1>1, <1>11, <2>1, ClaimFacts DEF Crash, Finish, Enter, Ended, claimVars, WorkerTypes,
       InPhaseOf, PhaseMoves
  <2>2. CASE pc[w] # "idle"
    BY <1>11, <2>2, GiveUpMoves DEF Crash, GiveUp, PhaseMoves
  <2> QED
    BY <2>1, <2>2
<1> QED
  BY <1>2, <1>3, <1>4, <1>5, <1>6, <1>7, <1>8, <1>9, <1>10, <1>11 DEF Step

LEMMA WorkerTyped ==
    ASSUME P!IInv, Claim!TypeOK', EInv, NEW w \in Workers, ListPending(w) \/ Step(w) \/ Crash(w)
    PROVE  StoreTypes' /\ WorkerTypes' /\ Numbered'
<1>1. /\ StoreTypes /\ WorkerTypes /\ InPhase /\ Numbered
      /\ StoreMoves(w) /\ PhaseMoves(w) /\ Others(w) /\ InPhaseOf(w)' /\ UNCHANGED prod
  BY WorkerStores, WorkerPhases, WorkerMoves, TypesSplit, TypedWorkers DEF EInv
<1>2. InPhaseOf(w) /\ (pc[w] # "idle" <=> at[w] \in Items) /\ (pc'[w] = "held" => pc'[w] # "idle")
  BY ClaimFacts, <1>1 DEF InPhase
<1>3. cands' \in [Workers -> SUBSET Items]
  <2>1. [Next]_vars
    BY DEF Next
  <2> QED
    BY <1>1, <2>1, ListedStep DEF Listed, WorkerTypes
<1>4. ASSUME at[w] \in Items
      PROVE  /\ pending[at[w]] \in Cell /\ pending[at[w]].tag \in Nat /\ placed[at[w]] \in 0..MaxPlace
             /\ pending[at[w]].tag <= placed[at[w]]
             /\ pending[at[w]].st = "full" => pending[at[w]].tag # 0
  BY <1>1, <1>4 DEF StoreTypes, Cell, Numbered, Exists
<1>5. WorkerTypes'
  <2>1. pc' \in [Workers -> Claim!PCs] /\ at' \in [Workers -> Items \cup {NoPath}]
        /\ mine' \in [Workers -> 0..MaxTags]
    BY DEF Claim!TypeOK
  <2>2. phase' \in [Workers -> Phases]
    BY <1>1 DEF PhaseMoves, Ended, Enter, WorkerTypes, Phases
  <2>3. verdict' \in [Workers -> Outcomes]
    BY <1>1 DEF PhaseMoves, Ended, WorkerTypes, Outcomes
  <2>4. ASSUME phase[w] = "claiming", pc[w] = "held", pending[at[w]].st = "full"
        PROVE  pending[at[w]].tag \in 0..MaxPlace
    BY <1>2, <1>4, <2>4, BoundAssumption
  <2>5. 0 \in 0..MaxPlace
    BY BoundAssumption
  <2>6. got' \in [Workers -> 0..MaxPlace]
    BY <1>1, <2>4, <2>5 DEF PhaseMoves, Ended, WorkerTypes
  <2> QED
    BY <1>3, <2>1, <2>2, <2>3, <2>6 DEF WorkerTypes
<1>6. ASSUME phase[w] \in Working \cup Settling
      PROVE  at[w] \in Items /\ got[w] \in 1..MaxPlace
  <2>1. at[w] \in Items
    BY <1>2, <1>6 DEF InPhaseOf
  <2>2. got[w] # 0 /\ got[w] \in 0..MaxPlace
    BY <1>1, <1>6 DEF Numbered, WorkerTypes
  <2> QED
    BY <2>1, <2>2, BoundAssumption
<1>7. StoreTypes'
  <2>1. sink' \subseteq Items \X (1..MaxPlace)
    BY <1>1, <1>6 DEF StoreMoves, StoreTypes, WriteTerminal, Working
  <2>2. done' \subseteq Items \X (1..MaxPlace) \X Outcomes
    <3>1. CASE done' = done
      BY <1>1, <3>1 DEF StoreTypes
    <3>2. CASE WriteTerminal(w)
      <4>1. at[w] \in Items /\ got[w] \in 1..MaxPlace /\ verdict[w] \in Outcomes
        BY <1>1, <1>6, <3>2 DEF WriteTerminal, Working, WorkerTypes
      <4>2. done' = done \cup {<<at[w], got[w], verdict[w]>>}
        BY <3>2 DEF WriteTerminal
      <4> QED
        BY <1>1, <4>1, <4>2 DEF StoreTypes
    <3> QED
      BY <1>1, <3>1, <3>2 DEF StoreMoves
  <2>3. pending' \in [Items -> Cell]
    <3>1. pending' = pending \/ pending' = [pending EXCEPT ![at[w]] = Absent]
      BY <1>1 DEF StoreMoves, WriteTerminal
    <3>2. pending \in [Items -> Cell] /\ Absent \in Cell
      BY <1>1, CellFacts DEF StoreTypes
    <3> QED
      BY <3>1, <3>2
  <2> QED
    BY <1>1, <2>1, <2>2, <2>3 DEF StoreMoves, StoreTypes
<1>8. ASSUME NEW i \in Items
      PROVE  pending'[i].tag <= placed'[i] /\ (Exists(pending'[i]) => pending'[i].tag # 0)
  <2>1. pending'[i] = pending[i] \/ pending'[i] = Absent
    BY <1>1 DEF StoreMoves, StoreTypes
  <2>2. placed' = placed /\ placed[i] \in Nat
    BY <1>1, BoundAssumption DEF StoreMoves, StoreTypes
  <2> QED
    BY <1>1, <2>1, <2>2, CellFacts DEF Numbered
<1>9. ASSUME NEW v \in Workers, phase'[v] \in Working \cup Settling
      PROVE  got'[v] # 0 /\ got'[v] <= placed'[at'[v]]
  <2>1. placed' = placed
    BY <1>1 DEF StoreMoves
  <2>2. CASE v # w
    BY <1>1, <1>9, <2>1, <2>2 DEF Others, Numbered
  <2>3. CASE v = w
    <3>1. ASSUME phase[w] \in Working \cup Settling, UNCHANGED <<at, got>>
          PROVE  got'[w] # 0 /\ got'[w] <= placed'[at'[w]]
      BY <1>1, <2>1, <3>1 DEF Numbered
    <3>2. CASE Ended(w)
      BY <1>1, <1>9, <2>3, <3>2 DEF Ended, WorkerTypes, Working, Settling
    <3>3. CASE phase[w] = "claiming" /\ pc[w] = "held" /\ pending[at[w]].st = "full"
               /\ got' = [got EXCEPT ![w] = pending[at[w]].tag] /\ at' = at
      BY <1>1, <1>2, <1>4, <2>1, <2>3, <3>3 DEF WorkerTypes
    <3>4. CASE UNCHANGED <<phase, got, verdict>> /\ phase[w] \in {"claiming", "findLease"}
      BY <1>9, <2>3, <3>4 DEF Working, Settling
    <3>5. CASE phase[w] = "idle" /\ Enter(w, "claiming")
      BY <1>1, <1>9, <2>3, <3>5 DEF Enter, WorkerTypes, Working, Settling
    <3>6. CASE \E ph \in Phases :
             /\ <<phase[w], ph>> \in {<<"transform", "sink">>, <<"sink", "check">>,
                   <<"check", "terminal">>, <<"terminal", "findPending">>,
                   <<"findPending", "removePending">>, <<"findPending", "findLease">>,
                   <<"removePending", "findLease">>}
             /\ UNCHANGED <<at, got>>
      BY <2>3, <3>1, <3>6 DEF Working, Settling
    <3>7. CASE phase[w] \in {"transform", "sink"} /\ UNCHANGED <<at, got>>
      BY <2>3, <3>1, <3>7 DEF Working
    <3> QED
      BY <1>1, <3>2, <3>3, <3>4, <3>5, <3>6, <3>7 DEF PhaseMoves
  <2> QED
    BY <2>2, <2>3
<1>10. ASSUME NEW d \in done' PROVE d[2] <= placed'[d[1]]
  <2>1. placed' = placed
    BY <1>1 DEF StoreMoves
  <2>2. CASE d \in done
    BY <1>1, <2>1, <2>2 DEF Numbered
  <2>3. CASE d \notin done
    <3>1. WriteTerminal(w) /\ d = <<at[w], got[w], verdict[w]>>
      BY <1>1, <1>10, <2>3 DEF StoreMoves, WriteTerminal
    <3> QED
      BY <1>1, <2>1, <3>1 DEF WriteTerminal, Numbered, Working
  <2> QED
    BY <2>2, <2>3
<1> QED
  BY <1>1, <1>5, <1>7, <1>8, <1>9, <1>10 DEF Numbered

\* The strengthened type invariant is inductive, given that of the protocol.
LEMMA EngineStep ==
    ASSUME P!IInv, P!IInv', EInv, [Next]_vars
    PROVE  EInv'
<1>1. /\ Claim!TypeOK /\ StoreTypes /\ ProducerTypes /\ WorkerTypes /\ InPhase /\ Numbered
      /\ Claim!TypeOK'
  <2>1. P!IInv' => Claim!TypeOK'
    BY ClaimFacts, PTL
  <2> QED
    BY <2>1, TypesSplit, TypedWorkers DEF EInv
<1>2. InPhase'
  BY <1>1, InPhaseStep
<1>3. TypeOK' <=> (Claim!TypeOK /\ StoreTypes /\ ProducerTypes
                     /\ phase \in [Workers -> Phases]
                     /\ cands \in [Workers -> SUBSET Items]
                     /\ got \in [Workers -> 0..MaxPlace]
                     /\ verdict \in [Workers -> Outcomes])'
  BY DEF TypeOK, StoreTypes, ProducerTypes
<1>4. ASSUME NEW w \in Workers, ListPending(w) \/ Step(w) \/ Crash(w) PROVE EInv'
  <2>1. StoreTypes' /\ WorkerTypes' /\ Numbered' /\ UNCHANGED prod
    BY <1>1, <1>4, WorkerTyped, WorkerMoves
  <2> QED
    BY <1>1, <1>2, <1>3, <2>1 DEF EInv, WorkerTypes, ProducerTypes
<1>5. ASSUME NEW e \in Producers, Produce(e) PROVE EInv'
  <2>1. \A w \in Workers : phase[w] \in Working \cup Settling => at[w] \in Items
    BY <1>1, ClaimFacts DEF InPhase, InPhaseOf
  <2>2. StoreTypes' /\ ProducerTypes' /\ Numbered'
    BY <1>1, <1>5, <2>1, ProduceTyped
  <2>3. UNCHANGED engineVars
    BY <1>5, ProduceMoves
  <2> QED
    BY <1>1, <1>2, <1>3, <2>2, <2>3 DEF EInv, WorkerTypes, engineVars
<1>6. ASSUME UNCHANGED <<pc, at, mine, engineVars, storeVars, prod>> PROVE EInv'
  BY <1>1, <1>2, <1>3, <1>6 DEF EInv, WorkerTypes, StoreTypes, ProducerTypes, Numbered, storeVars,
     engineVars
<1> QED
  BY <1>4, <1>5, <1>6, OtherMoves

LEMMA EngineInit == Init => EInv
<1> SUFFICES ASSUME Init PROVE EInv
  OBVIOUS
<1>1. P!IInv
  BY SameProtocol, ProtocolAssumptions, P!InitInvariant DEF Init
<1>2. Claim!TypeOK
  BY <1>1, ClaimFacts
<1>3. TypeOK
  BY <1>2, CellFacts, BoundAssumption DEF Init, TypeOK, Idle, Phases, Outcomes
<1>4. InPhase
  BY DEF Init, Claim!Init, InPhase, InPhaseOf, Working, Settling
<1>5. Numbered
  BY CellFacts DEF Init, Numbered, Working, Settling, Idle
<1> QED
  BY <1>1, <1>3, <1>4, <1>5 DEF EInv

\* The strengthened type invariant holds in the station.
LEMMA EngineSound == Spec => []EInv
<1>1. P!IInv /\ P!IInv' /\ EInv /\ [Next]_vars => EInv'
  BY EngineStep
<1> QED
  BY <1>1, EngineInit, ClaimsSound, PTL DEF Spec

\* The station keeps its types: whatever races, dies or lapses, every file
\* belongs to an item, a worker between the claim and the release is at an item
\* and holds a lease and a submission of it, and a submission is one that was
\* placed.
THEOREM EngineTyped == Spec => []TypeOK
BY EngineSound, PTL DEF EInv

-------------------------------------------------------------------------------
(* The sink comes before the completion *)

\* Whoever is about to check its lease for the last time, or to record a
\* completion, has had the output of its submission taken.
SunkAt(w) ==
    phase[w] = "check" \/ (phase[w] = "terminal" /\ verdict[w] = "completed")
        => <<at[w], got[w]>> \in sink

SunkFirst == \A w \in Workers : SunkAt(w)

LEMMA SunkStep ==
    ASSUME EInv, SunkFirst, CompletedIsSunk, [Next]_vars
    PROVE  SunkFirst' /\ CompletedIsSunk'
<1>1. P!IInv /\ StoreTypes /\ WorkerTypes /\ InPhase /\ Numbered
  BY TypesSplit, TypedWorkers DEF EInv
<1>2. ASSUME NEW w \in Workers, ListPending(w) \/ Step(w) \/ Crash(w)
      PROVE  SunkFirst' /\ CompletedIsSunk'
  <2>1. StoreMoves(w) /\ PhaseMoves(w) /\ Others(w)
    BY <1>1, <1>2, WorkerStores, WorkerPhases, WorkerMoves
  <2>2. sink \subseteq sink'
    BY <2>1 DEF StoreMoves, WriteTerminal
  <2>3. ASSUME phase[w] = "sink", phase'[w] = "check" PROVE SunkAt(w)'
    <3>1. SinkTakes(w)
      BY <1>1, <1>2, <2>3 DEF Step, ListPending, Crash, TryCandidate, Acquiring, NotAcquired,
         AcquireRaised, Load, TransformReturns, TransformRaises, SinkRaises, CheckLease,
         WriteTerminal, FindPending, RemovePending, RemoveLease, StartFail, Finish, Enter,
         WorkerTypes
    <3> QED
      BY <3>1 DEF SinkTakes, claimVars, SunkAt
  <2>4. SunkAt(w)'
    <3>1. CASE Ended(w)
      BY <1>1, <3>1 DEF Ended, WorkerTypes, SunkAt
    <3>2. CASE UNCHANGED <<phase, got, verdict>> /\ phase[w] \in {"claiming", "findLease"}
      BY <3>2 DEF SunkAt
    <3>3. CASE Enter(w, "claiming") \/ Enter(w, "transform")
      BY <1>1, <3>3 DEF Enter, WorkerTypes, SunkAt
    <3>4. CASE verdict' = [verdict EXCEPT ![w] = "failed"] /\ Enter(w, "terminal")
      BY <1>1, <3>4 DEF Enter, WorkerTypes, SunkAt
    <3>5. CASE \E ph \in Phases :
             /\ <<phase[w], ph>> \in {<<"transform", "sink">>, <<"sink", "check">>,
                   <<"check", "terminal">>, <<"terminal", "findPending">>,
                   <<"findPending", "removePending">>, <<"findPending", "findLease">>,
                   <<"removePending", "findLease">>}
             /\ Enter(w, ph)
             /\ UNCHANGED <<at, got, verdict>>
      BY <1>1, <2>2, <2>3, <3>5 DEF Enter, WorkerTypes, SunkFirst, SunkAt
    <3> QED
      BY <2>1, <3>1, <3>2, <3>3, <3>4, <3>5 DEF PhaseMoves
  <2>5. ASSUME NEW v \in Workers, v # w PROVE SunkAt(v)'
    BY <2>1, <2>2, <2>5 DEF Others, SunkFirst, SunkAt
  <2>6. ASSUME NEW d \in done', d[3] = "completed" PROVE <<d[1], d[2]>> \in sink'
    <3>1. CASE d \in done
      BY <2>2, <2>6, <3>1 DEF CompletedIsSunk
    <3>2. CASE d \notin done
      <4>1. WriteTerminal(w) /\ d = <<at[w], got[w], verdict[w]>>
        BY <2>1, <2>6, <3>2 DEF StoreMoves, WriteTerminal
      <4> QED
        BY <2>2, <2>6, <4>1 DEF WriteTerminal, SunkFirst, SunkAt
    <3> QED
      BY <3>1, <3>2
  <2> QED
    BY <2>4, <2>5, <2>6 DEF SunkFirst, CompletedIsSunk
<1>3. ASSUME UNCHANGED <<at, engineVars, done, sink>> PROVE SunkFirst' /\ CompletedIsSunk'
  BY <1>3 DEF SunkFirst, SunkAt, CompletedIsSunk, engineVars
<1>4. ASSUME NEW e \in Producers, Produce(e) PROVE UNCHANGED <<done, sink>>
  BY <1>4 DEF Produce, EnqueueCreate, EnqueueWrite, EnqueueExists, EnqueuePlace, EnqueueFails,
     EnqueueCrash, PlacePending, storeVars
<1> QED
  BY <1>2, <1>3, <1>4, OtherMoves DEF storeVars

LEMMA SunkSound == Spec => [](SunkFirst /\ CompletedIsSunk)
<1>1. Init => SunkFirst /\ CompletedIsSunk
  BY DEF Init, SunkFirst, SunkAt, CompletedIsSunk
<1>2. EInv /\ SunkFirst /\ CompletedIsSunk /\ [Next]_vars => SunkFirst' /\ CompletedIsSunk'
  BY SunkStep
<1> QED
  BY <1>1, <1>2, EngineSound, PTL DEF Spec

\* No item is recorded as completed whose output the sink has not taken for
\* that very submission: no failure path, no worker that died half way and no
\* other worker's completion leads around the sink write (run_once of
\* engine.py).
THEOREM SunkBeforeCompleted == Spec => []CompletedIsSunk
BY SunkSound, PTL

-------------------------------------------------------------------------------
(* An accepted item waits until it has an outcome *)

\* Whoever is about to remove a pending file has recorded an outcome of its item.
Recorded == \A w \in Workers : phase[w] \in Settling => HasOutcome(at[w])

LEMMA OutcomesStay ==
    ASSUME NEW w \in Workers, StoreMoves(w) \/ UNCHANGED done
    PROVE  \A i \in Items : HasOutcome(i) => HasOutcome(i)'
<1>1. done \subseteq done'
  BY DEF StoreMoves, WriteTerminal
<1> QED
  BY <1>1 DEF HasOutcome

LEMMA RecordedStep ==
    ASSUME EInv, Recorded, [Next]_vars
    PROVE  Recorded'
<1>1. P!IInv /\ StoreTypes /\ WorkerTypes /\ InPhase
      /\ \A w \in Workers : phase[w] \in Settling => at[w] \in Items
  BY TypesSplit, TypedWorkers, ClaimFacts DEF EInv, InPhase, InPhaseOf
<1>2. ASSUME NEW w \in Workers, ListPending(w) \/ Step(w) \/ Crash(w)
      PROVE  Recorded'
  <2>1. StoreMoves(w) /\ PhaseMoves(w) /\ Others(w)
    BY <1>1, <1>2, WorkerStores, WorkerPhases, WorkerMoves
  <2>2. \A i \in Items : HasOutcome(i) => HasOutcome(i)'
    BY <2>1, OutcomesStay
  <2>3. ASSUME phase[w] = "terminal", phase'[w] = "findPending" PROVE HasOutcome(at[w])'
    <3>1. WriteTerminal(w)
      BY <1>1, <1>2, <2>3 DEF Step, ListPending, Crash, TryCandidate, Acquiring, NotAcquired,
         AcquireRaised, Load, TransformReturns, TransformRaises, SinkTakes, SinkRaises, CheckLease,
         FindPending, RemovePending, RemoveLease, StartFail, Finish, Enter, WorkerTypes
    <3>2. at' = at /\ <<at[w], got[w], verdict[w]>> \in done'
      BY <3>1 DEF WriteTerminal, claimVars
    <3> QED
      BY <3>2 DEF HasOutcome
  <2>4. ASSUME phase'[w] \in Settling PROVE HasOutcome(at[w])' /\ at' = at
    <3>1. /\ at' = at
          /\ \/ phase[w] = "terminal" /\ phase'[w] = "findPending"
             \/ phase[w] \in Settling
      <4>1. phase'[w] \in {"findPending", "removePending"} /\ phase \in [Workers -> Phases]
        BY <1>1, <2>4 DEF Settling, WorkerTypes
      <4> QED
        BY <2>1, <4>1 DEF PhaseMoves, Ended, Enter, Settling
    <3>2. CASE phase[w] = "terminal" /\ phase'[w] = "findPending"
      BY <2>3, <3>1, <3>2
    <3>3. CASE phase[w] \in Settling
      <4>1. at[w] \in Items /\ HasOutcome(at[w])
        BY <1>1, <3>3 DEF Recorded
      <4>2. HasOutcome(at[w])' <=> \E d \in done' : d[1] = at'[w]
        BY DEF HasOutcome
      <4>3. \E d \in done' : d[1] = at[w]
        BY <2>2, <4>1 DEF HasOutcome
      <4> QED
        BY <3>1, <4>2, <4>3
    <3> QED
      BY <3>1, <3>2, <3>3
  <2>5. ASSUME NEW v \in Workers, v # w, phase'[v] \in Settling PROVE HasOutcome(at[v])'
    <3>1. at'[v] = at[v] /\ phase[v] \in Settling /\ at[v] \in Items
      BY <1>1, <2>1, <2>5 DEF Others
    <3>2. HasOutcome(at[v])
      BY <3>1 DEF Recorded
    <3> QED
      BY <2>2, <3>1, <3>2 DEF HasOutcome
  <2> QED
    BY <2>4, <2>5 DEF Recorded
<1>3. ASSUME UNCHANGED <<at, engineVars, done>> PROVE Recorded'
  BY <1>3 DEF Recorded, HasOutcome, engineVars
<1>4. ASSUME NEW e \in Producers, Produce(e) PROVE UNCHANGED done
  BY <1>4 DEF Produce, EnqueueCreate, EnqueueWrite, EnqueueExists, EnqueuePlace, EnqueueFails,
     EnqueueCrash, PlacePending, storeVars
<1> QED
  BY <1>2, <1>3, <1>4, OtherMoves DEF storeVars

\* Where a create is one PUT no pending file is ever seen without its bytes.
NoneEmpty ==
    /\ \A i \in Items : pending[i].st # "empty"
    /\ \A e \in Producers : prod[e].pc # "writing"

LEMMA LostStep ==
    ASSUME ~Local, EInv, Recorded, NoneEmpty, NoLostItem, [Next]_vars
    PROVE  NoneEmpty' /\ NoLostItem'
<1>1. P!IInv /\ StoreTypes /\ ProducerTypes /\ WorkerTypes /\ InPhase /\ Numbered
  BY TypesSplit, TypedWorkers DEF EInv
<1>2. ASSUME NEW w \in Workers, ListPending(w) \/ Step(w) \/ Crash(w)
      PROVE  NoneEmpty' /\ NoLostItem'
  <2>1. StoreMoves(w) /\ UNCHANGED prod
    BY <1>1, <1>2, WorkerStores, WorkerMoves
  <2>2. \A i \in Items : HasOutcome(i) => HasOutcome(i)'
    BY <2>1, OutcomesStay
  <2>3. ASSUME NEW i \in Items
        PROVE  \/ pending'[i] = pending[i]
               \/ pending'[i] = Absent /\ HasOutcome(i)
    BY <1>1, <2>1 DEF StoreMoves, StoreTypes, WriteTerminal, Recorded, Settling
  <2>4. accepted' = accepted /\ accepted \subseteq Items
    BY <1>1, <2>1 DEF StoreMoves, StoreTypes
  <2> QED
    BY <2>1, <2>2, <2>3, <2>4, CellFacts DEF NoneEmpty, NoLostItem, Absent
<1>3. ASSUME NEW e \in Producers, Produce(e)
      PROVE  NoneEmpty' /\ NoLostItem'
  \* it is enough that what e accepts is full, and that nothing is emptied
  <2>1. ASSUME UNCHANGED done,
               NEW i \in Items, pending'[i].st = "full", accepted' \subseteq accepted \cup {i},
               \A j \in Items \ {i} : pending'[j] = pending[j],
               prod' = [prod EXCEPT ![e] = prod'[e]], prod'[e].pc # "writing"
        PROVE  NoneEmpty' /\ NoLostItem'
    <3>1. \A j \in accepted' : j \in Items /\ (j \in accepted \/ j = i)
      BY <1>1, <2>1 DEF StoreTypes
    <3>2. \A f \in Producers : prod'[f].pc # "writing"
      BY <1>1, <2>1 DEF NoneEmpty, ProducerTypes
    <3> QED
      BY <2>1, <3>1, <3>2 DEF NoneEmpty, NoLostItem, HasOutcome
  <2>2. ASSUME UNCHANGED <<pending, accepted, done>>,
               prod' = [prod EXCEPT ![e] = prod'[e]], prod'[e].pc # "writing"
        PROVE  NoneEmpty' /\ NoLostItem'
    <3>1. \A f \in Producers : prod'[f].pc # "writing"
      BY <1>1, <2>2 DEF NoneEmpty, ProducerTypes
    <3> QED
      BY <2>2, <3>1 DEF NoneEmpty, NoLostItem, HasOutcome
  <2>3. ASSUME prod' = [prod EXCEPT ![e] = Idle]
        PROVE  prod' = [prod EXCEPT ![e] = prod'[e]] /\ prod'[e].pc # "writing"
    BY <1>1, <2>3 DEF ProducerTypes, Idle
  <2>4. ASSUME prod[e].pc # "idle"
        PROVE  prod[e].item \in Items /\ prod[e].pc # "writing"
    BY <1>1, <2>4 DEF Numbered, NoneEmpty
  <2>5. ASSUME NEW i \in Items, EnqueueCreate(e, i) PROVE NoneEmpty' /\ NoLostItem'
    <3>1. CASE ~Exists(pending[i])
      <4>1. PlacePending(i, Created(placed[i] + 1)) /\ Accept(e, i)
        BY <2>5, <3>1 DEF EnqueueCreate
      <4>2. placed[i] + 1 \in Nat
        BY <4>1, <1>1, PlaceFacts
      <4>3. /\ pending' = [pending EXCEPT ![i] = Created(placed[i] + 1)]
            /\ Created(placed[i] + 1).st = "full" /\ done' = done
            /\ prod' = [prod EXCEPT ![e] = Idle] /\ accepted' = accepted \cup {i}
        BY <4>1, <4>2, CellFacts DEF PlacePending, Accept
      <4>4. pending'[i].st = "full" /\ \A j \in Items \ {i} : pending'[j] = pending[j]
        BY <1>1, <4>3 DEF StoreTypes
      <4> QED
        BY <2>1, <2>3, <4>3, <4>4
    <3>2. CASE Exists(pending[i])
      <4>1. prod' = [prod EXCEPT ![e] = [pc |-> "exists", item |-> i, tag |-> 0]]
            /\ UNCHANGED storeVars
        BY <2>5, <3>2 DEF EnqueueCreate
      <4>2. prod' = [prod EXCEPT ![e] = prod'[e]] /\ prod'[e].pc = "exists"
        BY <1>1, <4>1 DEF ProducerTypes
      <4> QED
        BY <2>2, <4>1, <4>2 DEF storeVars
    <3> QED
      BY <3>1, <3>2
  <2>6. CASE EnqueueExists(e)
    <3>1. CASE Exists(pending[prod[e].item])
      <4>1. /\ prod[e].item \in Items /\ UNCHANGED <<pending, done>>
            /\ prod' = [prod EXCEPT ![e] = Idle] /\ accepted' = accepted \cup {prod[e].item}
        BY <2>4, <2>6, <3>1 DEF EnqueueExists, Accept
      <4>2. pending'[prod[e].item].st = "full"
        BY <1>1, <3>1, <4>1 DEF StoreTypes, Cell, Exists, NoneEmpty
      <4> QED
        BY <2>1, <2>3, <4>1, <4>2
    <3>2. CASE ~Exists(pending[prod[e].item])
      <4>1. UNCHANGED <<pending, accepted, done>>
        BY <2>6, <3>2 DEF EnqueueExists
      <4>2. prod' = [prod EXCEPT ![e].pc = "place"]
        BY <2>6, <3>2, Zenon DEF EnqueueExists
      <4> DEFINE p == [prod[e] EXCEPT !.pc = "place"]
      <4>3. prod' = [prod EXCEPT ![e] = p]
        BY <4>2, Zenon
      <4>4. p.pc = "place"
        BY <1>1 DEF ProducerTypes
      <4> HIDE DEF p
      <4>5. prod' = [prod EXCEPT ![e] = prod'[e]] /\ prod'[e].pc = "place"
        BY <1>1, <4>3, <4>4 DEF ProducerTypes
      <4> QED
        BY <2>2, <4>1, <4>5
    <3> QED
      BY <3>1, <3>2
  <2>7. CASE EnqueuePlace(e)
    <3> DEFINE i == prod[e].item
    <3>1. /\ i \in Items /\ PlacePending(i, Full(placed[i] + 1))
          /\ prod' = [prod EXCEPT ![e] = Idle] /\ accepted' = accepted \cup {i}
      BY <2>4, <2>7 DEF EnqueuePlace, Accept
    <3> HIDE DEF i
    <3>2. /\ pending' = [pending EXCEPT ![i] = Full(placed[i] + 1)] /\ done' = done
          /\ Full(placed[i] + 1).st = "full"
      BY <3>1 DEF PlacePending, Full
    <3>3. pending'[i].st = "full" /\ \A j \in Items \ {i} : pending'[j] = pending[j]
      BY <1>1, <3>1, <3>2 DEF StoreTypes
    <3> QED
      BY <2>1, <2>3, <3>1, <3>2, <3>3
  <2>8. CASE EnqueueCrash(e)
    <3>1. prod' = [prod EXCEPT ![e] = Idle] /\ UNCHANGED <<pending, accepted, done>>
      BY <2>8 DEF EnqueueCrash, storeVars
    <3> QED
      BY <2>2, <2>3, <3>1
  <2>9. ~EnqueueWrite(e) /\ ~EnqueueFails(e)
    BY <2>4 DEF EnqueueWrite, EnqueueFails
  <2> QED
    BY <1>3, <2>5, <2>6, <2>7, <2>8, <2>9 DEF Produce
<1>4. ASSUME UNCHANGED <<storeVars, prod>> PROVE NoneEmpty' /\ NoLostItem'
  BY <1>4 DEF NoneEmpty, NoLostItem, HasOutcome, storeVars
<1> QED
  BY <1>2, <1>3, <1>4, OtherMoves

LEMMA RecordedSound == Spec => []Recorded
<1>1. Init => Recorded
  BY DEF Init, Recorded, Settling
<1>2. EInv /\ Recorded /\ [Next]_vars => Recorded'
  BY RecordedStep
<1> QED
  BY <1>1, <1>2, EngineSound, PTL DEF Spec

\* P6, on S3: once enqueue has returned, the item's file is there with its bytes
\* until an outcome of the item is recorded, whatever workers and producers
\* race, die or come back.  (A local create that dies or fails between the
\* open and the write can break it for another producer that was told the item
\* is there.)
THEOREM AcceptedWaits == ~Local => (Spec => []NoLostItem)
<1> SUFFICES ASSUME ~Local PROVE Spec => []NoLostItem
  OBVIOUS
<1>1. Init => NoneEmpty /\ NoLostItem
  BY DEF Init, NoneEmpty, NoLostItem, Idle, Absent
<1>2. EInv /\ Recorded /\ NoneEmpty /\ NoLostItem /\ [Next]_vars => NoneEmpty' /\ NoLostItem'
  BY LostStep
<1> QED
  BY <1>1, <1>2, EngineSound, RecordedSound, PTL DEF Spec

-------------------------------------------------------------------------------
(* One outcome per submission, as long as no lease lapses *)

\* Of an item whose leases all have time left, a lease vanishes only by the step
\* of its claimant, and none is claimed while one is there.
LEMMA ClaimMoves ==
    ASSUME P!IInv, WorkerTypes, InPhase, NEW w \in Workers,
           ListPending(w) \/ Step(w) \/ Crash(w)
    PROVE  /\ UNCHANGED dead
           /\ \A i \in Items : dead[i] = {} /\ Exists(lease[i]) =>
                 /\ ~Exists(lease'[i]) => at[w] = i /\ mine[w] # 0 /\ phase[w] \notin Settling
                 /\ at'[w] = i /\ mine'[w] # 0 => at[w] = i /\ mine[w] # 0
<1>0. /\ lease \in [Items -> Claim!Cell] /\ issued \in [Items -> 0..MaxTags]
      /\ InPhaseOf(w) /\ (pc[w] # "idle" <=> at[w] \in Items)
  BY ClaimFacts DEF Claim!TypeOK, InPhase
<1>2. ASSUME UNCHANGED <<lease, dead>>, at'[w] = NoPath \/ (at'[w] = at[w] /\ mine'[w] = mine[w])
      PROVE  /\ UNCHANGED dead
             /\ \A i \in Items : dead[i] = {} /\ Exists(lease[i]) =>
                 /\ ~Exists(lease'[i]) => at[w] = i /\ mine[w] # 0 /\ phase[w] \notin Settling
                 /\ at'[w] = i /\ mine'[w] # 0 => at[w] = i /\ mine[w] # 0
  BY <1>2, ItemAssumption
<1>3. ASSUME Ended(w) PROVE at'[w] = NoPath
  BY <1>3 DEF Ended, WorkerTypes
<1>4. CASE ListPending(w)
  BY <1>2, <1>4 DEF ListPending, claimVars
<1>5. CASE TryCandidate(w)
  <2>1. PICK j \in Items : Claim!Try(w, j)
    BY <1>5 DEF TryCandidate, WorkerTypes
  <2>2. UNCHANGED dead /\ at' = [at EXCEPT ![w] = j]
    BY <2>1 DEF Claim!Try, Claim!CreateIfAbsent, Claim!Place, Claim!leaseVars
  <2>3. mine[w] = 0
    BY <1>0, <2>1 DEF Claim!Try, InPhaseOf
  <2>4. CASE ~Exists(lease[j])
    <3>1. lease' = [lease EXCEPT ![j] = lease'[j]]
      BY <1>0, <2>1, <2>4 DEF Claim!Try, Claim!CreateIfAbsent, Claim!Place, Exists, Claim!Exists
    <3>2. \A i \in Items : i # j => lease'[i] = lease[i]
      BY <1>0, <3>1
    <3> QED
      BY <2>2, <2>4, <3>2 DEF WorkerTypes
  <2>5. CASE Exists(lease[j])
    <3>1. UNCHANGED <<lease, mine>>
      BY <2>1, <2>5 DEF Claim!Try, Claim!CreateIfAbsent, Claim!leaseVars, Exists, Claim!Exists
    <3> QED
      BY <2>2, <2>3, <3>1 DEF WorkerTypes
  <2> QED
    BY <2>4, <2>5
<1>6. CASE Acquiring(w)
  <2>1. /\ UNCHANGED <<at, dead>> /\ phase[w] = "claiming"
        /\ lease' = [lease EXCEPT ![at[w]] = lease'[at[w]]]
    BY <1>6, AcquiringMoves DEF Acquiring
  <2>2. at[w] \in Items
    BY <1>0, <1>6 DEF Acquiring, Claim!Write, Claim!WriteFails, Claim!CheckExists, Claim!Recreate,
       Claim!Read, Claim!Recheck, Claim!FetchETag, Claim!Swap, Claim!Rename
  <2>3. \A i \in Items : i # at[w] => lease'[i] = lease[i]
    BY <1>0, <2>1
  <2>4. ASSUME dead[at[w]] = {}, Exists(lease[at[w]]), mine[w] = 0
        PROVE  mine'[w] = 0 /\ lease' = lease
    <3>1. pc[w] \in {"exists", "recreate", "read", "recheck", "lost", "raised"}
      BY <2>2, <2>4, ClaimFacts
    <3>2. CASE Claim!Recreate(w)
      BY <2>4, <3>2 DEF Claim!Recreate, Claim!CreateIfAbsent, Claim!leaseVars, Exists, Claim!Exists
    <3>3. CASE Claim!CheckExists(w) \/ Claim!Recheck(w)
      BY <2>4, <3>3 DEF Claim!CheckExists, Claim!Recheck, Claim!leaseVars
    <3>4. CASE Claim!Read(w)
      <4>1. UNCHANGED <<lease, mine>>
        BY <3>4 DEF Claim!Read, Claim!leaseVars
      <4> QED
        BY <2>4, <4>1
    <3> QED
      BY <1>6, <3>1, <3>2, <3>3, <3>4 DEF Acquiring, Claim!Write, Claim!WriteFails,
         Claim!FetchETag, Claim!Swap, Claim!Rename
  <2> QED
    BY <2>1, <2>2, <2>3, <2>4 DEF Settling
<1>7. CASE NotAcquired(w) \/ AcquireRaised(w)
  BY <1>2, <1>7 DEF NotAcquired, AcquireRaised, Claim!Return, Claim!Leave, Claim!leaseVars,
     WorkerTypes
<1>8. CASE Load(w) \/ TransformReturns(w) \/ CheckLease(w) \/ RemovePending(w) \/ Crash(w)
  <2>1. UNCHANGED claimVars \/ Claim!Abandon(w)
    BY <1>8 DEF Load, TransformReturns, CheckLease, RemovePending, Crash, GiveUp, claimVars
  <2> QED
    BY <1>2, <2>1 DEF Claim!Abandon, Claim!Leave, Claim!leaseVars, WorkerTypes, claimVars
<1>9. CASE TransformRaises(w) \/ SinkTakes(w) \/ SinkRaises(w) \/ WriteTerminal(w)
           \/ FindPending(w)
  BY <1>2, <1>9 DEF TransformRaises, SinkTakes, SinkRaises, WriteTerminal, FindPending, StartFail,
     claimVars
<1>10. CASE RemoveLease(w)
  <2>1. CASE Claim!FindLease(w)
    BY <1>2, <2>1 DEF Claim!FindLease, Claim!Leave, Claim!leaseVars, WorkerTypes
  <2>2. CASE Claim!DeleteLease(w)
    <3>1. /\ dead' = dead /\ lease' = [lease EXCEPT ![at[w]] = Claim!Absent]
          /\ at'[w] = NoPath /\ phase[w] \notin Settling
      BY <1>10, <2>2 DEF RemoveLease, Claim!DeleteLease, Claim!Leave, WorkerTypes, Settling
    <3>2. at[w] \in Items /\ mine[w] # 0
      BY <1>0, <2>2 DEF Claim!DeleteLease, InPhaseOf
    <3>3. \A i \in Items : i # at[w] => lease'[i] = lease[i]
      BY <1>0, <3>1
    <3> QED
      BY <3>1, <3>2, <3>3, ItemAssumption
  <2> QED
    BY <1>10, <2>1, <2>2 DEF RemoveLease
<1> QED
  BY <1>4, <1>5, <1>6, <1>7, <1>8, <1>9, <1>10 DEF Step

\* A submission that waits after a step and was placed before it, waited before.
LEMMA PendingKept ==
    ASSUME EInv, [Next]_vars, NEW i \in Items,
           Exists(pending'[i]), pending'[i].tag <= placed[i]
    PROVE  Exists(pending[i]) /\ pending[i].tag = pending'[i].tag
<1>1. P!IInv /\ StoreTypes /\ ProducerTypes /\ WorkerTypes /\ InPhase /\ Numbered
  BY TypesSplit, TypedWorkers DEF EInv
<1>2. placed[i] \in Nat /\ pending[i] \in Cell
  BY <1>1, BoundAssumption DEF StoreTypes
<1>3. ASSUME NEW w \in Workers, ListPending(w) \/ Step(w) \/ Crash(w)
      PROVE  pending'[i] = pending[i]
  <2>1. StoreMoves(w)
    BY <1>1, <1>3, WorkerStores
  <2>2. pending'[i] = pending[i] \/ pending'[i] = Absent
    BY <1>1, <2>1 DEF StoreMoves, StoreTypes, WriteTerminal
  <2> QED
    BY <2>2, CellFacts
<1>4. ASSUME NEW e \in Producers, Produce(e)
      PROVE  Exists(pending[i]) /\ pending[i].tag = pending'[i].tag
  <2>1. ASSUME NEW j \in Items, NEW cell, cell.tag = placed[j] + 1,
               pending' = [pending EXCEPT ![j] = cell]
        PROVE  pending'[i] = pending[i]
    <3>1. CASE j = i
      BY <1>1, <1>2, <2>1, <3>1 DEF StoreTypes
    <3>2. CASE j # i
      BY <1>1, <2>1, <3>2 DEF StoreTypes
    <3> QED
      BY <3>1, <3>2
  <2>2. ASSUME NEW j \in Items, EnqueueCreate(e, j) PROVE pending'[i] = pending[i]
    <3>1. CASE ~Exists(pending[j])
      <4>1. pending' = [pending EXCEPT ![j] = Created(placed[j] + 1)] /\ placed[j] + 1 \in Nat
        BY <1>1, <2>2, <3>1, BoundAssumption DEF EnqueueCreate, PlacePending, StoreTypes
      <4>2. Created(placed[j] + 1).tag = placed[j] + 1
        BY <4>1, CellFacts
      <4> QED
        BY <2>1, <4>1, <4>2
    <3>2. CASE Exists(pending[j])
      BY <2>2, <3>2 DEF EnqueueCreate, storeVars
    <3> QED
      BY <3>1, <3>2
  <2>3. prod[e].pc # "idle" => prod[e].item \in Items
    BY <1>1 DEF Numbered
  <2>4. CASE EnqueueWrite(e)
    <3>1. /\ pending' = [pending EXCEPT ![prod[e].item]
                           = Finished(pending[prod[e].item], prod[e].tag)]
          /\ prod[e].tag \in Nat /\ prod[e].item \in Items
      BY <1>1, <2>3, <2>4, BoundAssumption DEF EnqueueWrite, ProducerTypes
    <3>2. pending'[i] = pending[i] \/ pending'[i] = Finished(pending[i], prod[e].tag)
      BY <1>1, <3>1 DEF StoreTypes
    <3> QED
      BY <1>2, <3>1, <3>2, CellFacts
  <2>5. CASE EnqueuePlace(e)
    <3> DEFINE j == prod[e].item
    <3>1. /\ j \in Items /\ placed[j] + 1 \in Nat
          /\ pending' = [pending EXCEPT ![j] = Full(placed[j] + 1)]
      BY <1>1, <2>3, <2>5, BoundAssumption DEF EnqueuePlace, PlacePending, StoreTypes
    <3> HIDE DEF j
    <3>2. Full(placed[j] + 1).tag = placed[j] + 1
      BY <3>1, CellFacts
    <3> QED
      BY <2>1, <3>1, <3>2
  <2>6. CASE EnqueueFails(e)
    <3>1. pending'[i] = pending[i] \/ pending'[i] = Absent
      BY <1>1, <2>6 DEF EnqueueFails, StoreTypes
    <3> QED
      BY <3>1, CellFacts
  <2>7. CASE EnqueueExists(e) \/ EnqueueCrash(e)
    BY <2>7 DEF EnqueueExists, EnqueueCrash, storeVars
  <2> QED
    BY <1>4, <2>2, <2>4, <2>5, <2>6, <2>7 DEF Produce
<1> QED
  BY <1>3, <1>4, OtherMoves DEF storeVars

\* As long as a settled submission waits and no lease of its item has lapsed,
\* whoever settled it still has the item, and has only the removal left.
StillClaimed ==
    \A d \in done :
        dead[d[1]] = {} /\ Exists(pending[d[1]]) /\ pending[d[1]].tag = d[2] =>
            /\ Exists(lease[d[1]])
            /\ \A w \in Workers : at[w] = d[1] /\ mine[w] # 0 => phase[w] \in Settling

\* So nobody works on a settled submission.
FirstOutcome ==
    \A w \in Workers : phase[w] \in Working /\ dead[at[w]] = {} =>
        \A d \in done : ~(d[1] = at[w] /\ d[2] = got[w])

OInv == StillClaimed /\ FirstOutcome /\ OneOutcomeUnlessLapse

\* Without a lapse two workers that claim an item are one.
LEMMA SoleClaimant ==
    ASSUME P!IInv, NEW v \in Workers, NEW w \in Workers, at[v] \in Items, at[v] = at[w],
           dead[at[v]] = {}, mine[v] # 0, mine[w] # 0
    PROVE  v = w
BY ClaimFacts

LEMMA WorkerOutcome ==
    ASSUME EInv, OInv, NEW w \in Workers, ListPending(w) \/ Step(w) \/ Crash(w)
    PROVE  OInv'
<1>1. /\ P!IInv /\ StoreTypes /\ WorkerTypes /\ InPhase /\ Numbered
      /\ StoreMoves(w) /\ PhaseMoves(w) /\ Others(w) /\ UNCHANGED dead /\ [Next]_vars
  BY TypesSplit, TypedWorkers, WorkerStores, WorkerPhases, WorkerMoves, ClaimMoves DEF EInv, Next
<1>2. \A v \in Workers : phase[v] \in Working \cup Settling => at[v] \in Items /\ mine[v] # 0
  BY <1>1, ClaimFacts DEF InPhase, InPhaseOf
<1>3. \A d \in done : d[1] \in Items /\ d[2] <= placed[d[1]]
  BY <1>1 DEF StoreTypes, Numbered
\* the record of this step, if it leaves one, is the first of its submission
<1>4. ASSUME NEW d \in done', d \notin done
      PROVE  /\ WriteTerminal(w) /\ d = <<at[w], got[w], verdict[w]>>
             /\ d[1] = at[w] /\ d[2] = got[w] /\ at[w] \in Items
             /\ UNCHANGED <<claimVars, pending>>
             /\ phase' = [phase EXCEPT ![w] = "findPending"]
             /\ dead[d[1]] = {} => \A f \in done : ~(f[1] = d[1] /\ f[2] = d[2])
  <2>1. WriteTerminal(w) /\ d = <<at[w], got[w], verdict[w]>>
    BY <1>1, <1>4 DEF StoreMoves, WriteTerminal
  <2>2. phase[w] = "terminal" /\ UNCHANGED <<claimVars, pending>>
        /\ phase' = [phase EXCEPT ![w] = "findPending"]
    BY <2>1 DEF WriteTerminal, Enter
  <2>3. dead[at[w]] = {} => \A f \in done : ~(f[1] = at[w] /\ f[2] = got[w])
    BY <2>2 DEF OInv, FirstOutcome, Working
  <2> QED
    BY <1>2, <2>1, <2>2, <2>3 DEF Working
<1>5. OneOutcomeUnlessLapse'
  <2> SUFFICES ASSUME NEW d \in done', NEW f \in done', d[1] = f[1], d[2] = f[2], dead'[d[1]] = {}
               PROVE  d = f
    BY DEF OneOutcomeUnlessLapse
  <2>1. dead[d[1]] = {}
    BY <1>1
  <2>2. CASE d \in done /\ f \in done
    BY <2>1, <2>2 DEF OInv, OneOutcomeUnlessLapse
  <2>3. CASE d \notin done /\ f \notin done
    BY <1>4, <2>3
  <2>4. CASE d \notin done /\ f \in done
    BY <1>4, <2>1, <2>4
  <2>5. CASE d \in done /\ f \notin done
    BY <1>4, <2>1, <2>5
  <2> QED
    BY <2>2, <2>3, <2>4, <2>5
<1>6. StillClaimed'
  <2> SUFFICES ASSUME NEW d \in done', dead'[d[1]] = {}, Exists(pending'[d[1]]),
                      pending'[d[1]].tag = d[2]
               PROVE  /\ Exists(lease'[d[1]])
                      /\ \A v \in Workers : at'[v] = d[1] /\ mine'[v] # 0 => phase'[v] \in Settling
    BY DEF StillClaimed, Exists
  <2>1. CASE d \notin done
    <3>1. /\ d[1] = at[w] /\ at[w] \in Items /\ UNCHANGED claimVars /\ dead[at[w]] = {}
          /\ phase' = [phase EXCEPT ![w] = "findPending"] /\ mine[w] # 0
      BY <1>1, <1>2, <1>4, <2>1 DEF WriteTerminal, Working
    <3>2. Exists(lease'[d[1]])
      BY <1>1, <3>1, ClaimFacts DEF claimVars
    <3>3. ASSUME NEW v \in Workers, at'[v] = d[1], mine'[v] # 0 PROVE phase'[v] \in Settling
      <4>1. v = w
        BY <1>1, <3>1, <3>3, SoleClaimant DEF claimVars
      <4> QED
        BY <1>1, <3>1, <4>1 DEF WorkerTypes, Settling
    <3> QED
      BY <3>2, <3>3
  <2>2. CASE d \in done
    <3>1. /\ d[1] \in Items /\ dead[d[1]] = {} /\ Exists(pending[d[1]])
          /\ pending[d[1]].tag = d[2]
      BY <1>1, <1>3, <2>2, PendingKept
    <3>2. /\ Exists(lease[d[1]])
          /\ \A v \in Workers : at[v] = d[1] /\ mine[v] # 0 => phase[v] \in Settling
      BY <2>2, <3>1 DEF OInv, StillClaimed
    <3>3. Exists(lease'[d[1]])
      BY <1>1, <3>1, <3>2, ClaimMoves
    <3>4. ASSUME NEW v \in Workers, v # w, at'[v] = d[1], mine'[v] # 0
          PROVE  phase'[v] \in Settling
      BY <1>1, <3>2, <3>4 DEF Others
    <3>5. ASSUME at'[w] = d[1], mine'[w] # 0 PROVE phase'[w] \in Settling
      <4>1. at[w] = d[1] /\ phase[w] \in Settling
        BY <1>1, <3>1, <3>2, <3>5, ClaimMoves
      <4>2. ~Ended(w)
        BY <1>1, <3>1, <3>5, ItemAssumption DEF Ended, WorkerTypes
      <4>3. phase'[w] = "removePending" \/ FindPending(w) \/ RemovePending(w)
        <5>1. phase'[w] \in {"removePending", "findLease"}
          BY <1>1, <4>1, <4>2 DEF Settling, PhaseMoves, Enter, WorkerTypes
        <5>2. phase[w] \in {"findPending", "removePending"} /\ phase \in [Workers -> Phases]
          BY <1>1, <4>1 DEF Settling, WorkerTypes
        <5> QED
          BY <5>1, <5>2 DEF Step, ListPending, Crash, TryCandidate, Acquiring, NotAcquired,
             AcquireRaised, Load, TransformReturns, TransformRaises, SinkTakes, SinkRaises,
             CheckLease, WriteTerminal, RemoveLease, Finish, Enter
      <4>4. ~RemovePending(w)
        <5>1. ASSUME RemovePending(w) PROVE pending'[d[1]] = Absent
          BY <1>1, <3>1, <4>1, <5>1 DEF RemovePending, StoreTypes
        <5> QED
          BY <5>1, CellFacts
      <4>5. FindPending(w) => phase'[w] = "removePending"
        BY <1>1, <3>1, <4>1 DEF FindPending, Enter, WorkerTypes
      <4> QED
        BY <4>3, <4>4, <4>5 DEF Settling
    <3> QED
      BY <3>3, <3>4, <3>5
  <2> QED
    BY <2>1, <2>2
<1>7. FirstOutcome'
  <2> SUFFICES ASSUME NEW v \in Workers, phase'[v] \in Working, dead'[at'[v]] = {},
                      NEW d \in done', d[1] = at'[v], d[2] = got'[v]
               PROVE  FALSE
    BY DEF FirstOutcome
  <2>1. CASE d \notin done
    <3>1. /\ d[1] = at[w] /\ at[w] \in Items /\ UNCHANGED claimVars /\ dead[at[w]] = {}
          /\ phase' = [phase EXCEPT ![w] = "findPending"] /\ mine[w] # 0
      BY <1>1, <1>2, <1>4, <2>1 DEF WriteTerminal, Working
    <3>2. v # w
      BY <1>1, <3>1 DEF WorkerTypes, Working
    <3>3. phase[v] \in Working /\ at[v] = at[w] /\ mine[v] # 0
      BY <1>1, <1>2, <3>1, <3>2 DEF Others, claimVars
    <3> QED
      BY <1>1, <3>1, <3>2, <3>3, SoleClaimant
  <2>2. CASE d \in done
    <3>1. CASE v # w
      BY <1>1, <2>2, <3>1 DEF Others, OInv, FirstOutcome
    <3>2. CASE v = w
      <4>1. CASE phase[w] \in Working /\ UNCHANGED <<at, got>>
        BY <1>1, <2>2, <3>2, <4>1 DEF OInv, FirstOutcome
      <4>2. CASE /\ phase[w] = "claiming" /\ pc[w] = "held" /\ pending[at[w]].st = "full"
                 /\ got' = [got EXCEPT ![w] = pending[at[w]].tag] /\ UNCHANGED <<at, mine>>
        <5>1. /\ d[1] = at[w] /\ Exists(pending[d[1]]) /\ pending[d[1]].tag = d[2]
              /\ dead[d[1]] = {}
          BY <1>1, <3>2, <4>2 DEF WorkerTypes, Exists
        <5>2. mine[w] # 0
          BY <1>1, <4>2 DEF InPhase, InPhaseOf
        <5> QED
          BY <2>2, <4>2, <5>1, <5>2 DEF OInv, StillClaimed, Settling
      <4>3. \/ phase[w] \in Working /\ UNCHANGED <<at, got>>
            \/ /\ phase[w] = "claiming" /\ pc[w] = "held" /\ pending[at[w]].st = "full"
               /\ got' = [got EXCEPT ![w] = pending[at[w]].tag] /\ UNCHANGED <<at, mine>>
        <5>1. phase'[w] \in {"transform", "sink", "check", "terminal"} /\ phase \in [Workers -> Phases]
          BY <1>1, <3>2 DEF WorkerTypes, Working
        <5> QED
          BY <1>1, <5>1 DEF PhaseMoves, Ended, Enter, Working
      <4> QED
        BY <4>1, <4>2, <4>3
    <3> QED
      BY <3>1, <3>2
  <2> QED
    BY <2>1, <2>2
<1> QED
  BY <1>5, <1>6, <1>7 DEF OInv

LEMMA OutcomeStep ==
    ASSUME EInv, OInv, [Next]_vars
    PROVE  OInv'
<1>1. ASSUME NEW w \in Workers, ListPending(w) \/ Step(w) \/ Crash(w) PROVE OInv'
  BY <1>1, WorkerOutcome
<1>2. ASSUME UNCHANGED <<lease, issued, pc, at, mine, engineVars>>,
             UNCHANGED <<dead, succ, seen>> \/ \E i \in Items : Lapse(i),
             UNCHANGED <<storeVars, prod>> \/ \E e \in Producers : Produce(e)
      PROVE  OInv'
  <2>1. done' = done
    BY <1>2 DEF Produce, EnqueueCreate, EnqueueWrite, EnqueueExists, EnqueuePlace, EnqueueFails,
       EnqueueCrash, PlacePending, storeVars
  <2>2. StoreTypes /\ Numbered /\ P!IInv
    BY TypesSplit DEF EInv
  <2>3. \A i \in Items : dead'[i] = {} => dead[i] = {}
    <3>1. dead \in [Items -> SUBSET (1..MaxTags)]
      BY <2>2, ClaimFacts DEF Claim!TypeOK
    <3> QED
      BY <1>2, <3>1 DEF Lapse, Claim!Lapse
  <2>4. \A d \in done : d[1] \in Items /\ d[2] <= placed[d[1]]
    BY <2>2 DEF StoreTypes, Numbered
  <2>5. StillClaimed'
    <3> SUFFICES ASSUME NEW d \in done, dead'[d[1]] = {}, Exists(pending'[d[1]]),
                        pending'[d[1]].tag = d[2]
                 PROVE  /\ Exists(lease[d[1]])
                        /\ \A w \in Workers : at[w] = d[1] /\ mine[w] # 0 => phase[w] \in Settling
      BY <1>2, <2>1 DEF StillClaimed, engineVars, Exists
    <3>1. Exists(pending[d[1]]) /\ pending[d[1]].tag = d[2] /\ dead[d[1]] = {}
      BY <2>3, <2>4, PendingKept
    <3> QED
      BY <3>1 DEF OInv, StillClaimed
  <2>6. FirstOutcome'
    <3> SUFFICES ASSUME NEW w \in Workers, phase[w] \in Working, dead'[at[w]] = {},
                        NEW d \in done, d[1] = at[w], d[2] = got[w]
                 PROVE  FALSE
      BY <1>2, <2>1 DEF FirstOutcome, engineVars
    <3> QED
      BY <2>3, <2>4 DEF OInv, FirstOutcome
  <2>7. OneOutcomeUnlessLapse'
    BY <2>1, <2>3, <2>4 DEF OInv, OneOutcomeUnlessLapse
  <2> QED
    BY <2>5, <2>6, <2>7 DEF OInv
<1> QED
  BY <1>1, <1>2, OtherMoves

\* C2: on either backend, one submission of an item gets two outcomes only if
\* some lease of the item ran out of time.  No stale listing, crash, failed
\* call, late enqueue or race of workers gives a settled submission to another
\* worker: it stays under the lease of the worker that settled it until its
\* file is gone.
THEOREM OneOutcome == Spec => []OneOutcomeUnlessLapse
<1>1. Init => OInv
  BY DEF Init, OInv, StillClaimed, FirstOutcome, OneOutcomeUnlessLapse
<1>2. EInv /\ OInv /\ [Next]_vars => OInv'
  BY OutcomeStep
<1>3. OInv => OneOutcomeUnlessLapse
  BY DEF OInv
<1> QED
  BY <1>1, <1>2, <1>3, EngineSound, PTL DEF Spec

-------------------------------------------------------------------------------
(* The queue implements the at-least-once queue *)

\* What the failing write of a local create may take away: on a local disk
\* enqueue unlinks whatever file is at its path by then, so the promise needs
\* that no other producer can have put one there.
NoRivalWriter == ~Local \/ \A e, f \in Producers : e = f

\* Whoever works on an item has it still waiting, or settled by another; the
\* file that a producer is about to write, or to unlink, is its own empty one,
\* unless the item has an outcome.
Kept ==
    /\ \A w \in Workers : phase[w] \in Working => pending[at[w]].st = "full" \/ HasOutcome(at[w])
    /\ \A e \in Producers : prod[e].pc = "writing" =>
          Local /\ (pending[prod[e].item] = Empty(prod[e].tag) \/ HasOutcome(prod[e].item))

LEMMA WorkerKept ==
    ASSUME EInv, Recorded, Kept, NEW w \in Workers, ListPending(w) \/ Step(w) \/ Crash(w)
    PROVE  Kept'
<1>1. /\ P!IInv /\ StoreTypes /\ WorkerTypes /\ InPhase /\ Numbered
      /\ StoreMoves(w) /\ PhaseMoves(w) /\ Others(w) /\ UNCHANGED prod
  BY TypesSplit, TypedWorkers, WorkerStores, WorkerPhases, WorkerMoves DEF EInv
<1>2. \A v \in Workers : phase[v] \in Working \cup Settling \/ pc[v] = "held" => at[v] \in Items
  BY <1>1, ClaimFacts DEF InPhase, InPhaseOf
<1>3. \A i \in Items : HasOutcome(i) => \E d \in done' : d[1] = i
  <2>1. done \subseteq done'
    BY <1>1 DEF StoreMoves, WriteTerminal
  <2> QED
    BY <2>1 DEF HasOutcome
<1>4. ASSUME NEW i \in Items
      PROVE  pending'[i] = pending[i] \/ (pending'[i] = Absent /\ \E d \in done' : d[1] = i)
  <2>1. pending \in [Items -> Cell]
    BY <1>1 DEF StoreTypes
  <2>2. CASE pending' = pending
    BY <2>2
  <2>3. CASE phase[w] = "removePending" /\ pending' = [pending EXCEPT ![at[w]] = Absent]
    BY <1>2, <1>3, <2>1, <2>3 DEF Recorded, Settling
  <2> QED
    BY <1>1, <2>2, <2>3 DEF StoreMoves
<1>5. ASSUME NEW v \in Workers, phase'[v] \in Working
      PROVE  pending'[at'[v]].st = "full" \/ \E d \in done' : d[1] = at'[v]
  <2>1. CASE phase[v] \in Working /\ at'[v] = at[v]
    BY <1>2, <1>3, <1>4, <2>1 DEF Kept
  <2>2. CASE v # w
    BY <1>1, <1>5, <2>1, <2>2 DEF Others
  <2>3. CASE v = w
    <3>1. \/ phase[w] \in Working /\ UNCHANGED <<at, got>>
          \/ pc[w] = "held" /\ pending[at[w]].st = "full" /\ UNCHANGED <<at, mine>>
      <4>1. phase'[w] \in {"transform", "sink", "check", "terminal"} /\ phase \in [Workers -> Phases]
        BY <1>1, <1>5, <2>3 DEF WorkerTypes, Working
      <4> QED
        BY <1>1, <4>1 DEF PhaseMoves, Ended, Enter, Working
    <3> QED
      BY <1>2, <1>4, <2>1, <2>3, <3>1
  <2> QED
    BY <2>2, <2>3
<1>6. ASSUME NEW e \in Producers, prod[e].pc = "writing"
      PROVE  Local /\ \/ pending'[prod[e].item] = Empty(prod[e].tag)
                      \/ \E d \in done' : d[1] = prod[e].item
  <2>1. prod[e].item \in Items
    BY <1>1, <1>6 DEF Numbered
  <2> QED
    BY <1>3, <1>4, <1>6, <2>1 DEF Kept
<1> QED
  BY <1>1, <1>5, <1>6 DEF Kept, HasOutcome, Empty

\* A producer's step leaves what waits, or takes its own file away.
LEMMA ProduceKept ==
    ASSUME NoRivalWriter, EInv, Kept, NEW e \in Producers, Produce(e)
    PROVE  /\ Kept' /\ UNCHANGED <<done, sink>>
           /\ \/ \A i \in Items : pending'[i].st = "full" <=> pending[i].st = "full"
              \/ \E j \in Items :
                    /\ \A i \in Items \ {j} : pending'[i] = pending[i]
                    /\ pending'[j].st = "full" \/ (HasOutcome(j) /\ pending'[j].st # "full")
<1>1. /\ P!IInv /\ StoreTypes /\ ProducerTypes /\ WorkerTypes /\ InPhase /\ Numbered
      /\ UNCHANGED <<at, phase>>
  BY TypesSplit, TypedWorkers, ProduceMoves DEF EInv, claimVars, engineVars
<1>2. \A v \in Workers : phase[v] \in Working => at[v] \in Items
  BY <1>1, ClaimFacts DEF InPhase, InPhaseOf
<1>3. UNCHANGED <<done, sink>>
  BY DEF Produce, EnqueueCreate, EnqueueWrite, EnqueueExists, EnqueuePlace, EnqueueFails,
     EnqueueCrash, PlacePending, storeVars
<1>4. prod[e].pc # "idle" => prod[e].item \in Items
  BY <1>1 DEF Numbered
\* the file of one item changes to a cell c, and e goes on with the call p
<1>5. ASSUME NEW j \in Items, NEW c, NEW p,
             \A i \in Items \ {j} : pending'[i] = pending[i],
             pending'[j] = c, prod' = [prod EXCEPT ![e] = p],
             p.pc = "writing" => Local /\ p.item = j /\ c = Empty(p.tag),
             \/ c.st = "full"
             \/ pending[j].st # "full" /\ c.st # "full"
             \/ HasOutcome(j) /\ c.st # "full",
             c = pending[j] \/ \A f \in Producers \ {e} : prod[f].pc # "writing"
      PROVE  Kept'
  <2>1. ASSUME NEW w \in Workers, phase[w] \in Working
        PROVE  pending'[at[w]].st = "full" \/ HasOutcome(at[w])
    BY <1>2, <1>5, <2>1 DEF Kept
  <2>2. ASSUME NEW f \in Producers, prod'[f].pc = "writing"
        PROVE  Local /\ (pending'[prod'[f].item] = Empty(prod'[f].tag) \/ HasOutcome(prod'[f].item))
    <3>1. CASE f = e
      <4>1. prod'[f] = p
        BY <1>1, <1>5, <3>1 DEF ProducerTypes
      <4> QED
        BY <1>5, <2>2, <4>1
    <3>2. CASE f # e
      <4>1. prod'[f] = prod[f] /\ prod[f].item \in Items
        BY <1>1, <1>5, <2>2, <3>2 DEF ProducerTypes, Numbered
      <4>2. pending'[prod[f].item] = pending[prod[f].item]
        BY <1>5, <2>2, <3>2, <4>1
      <4> QED
        BY <2>2, <4>1, <4>2 DEF Kept
    <3> QED
      BY <3>1, <3>2
  <2> QED
    BY <1>1, <1>3, <2>1, <2>2 DEF Kept, HasOutcome, Empty
<1>6. ASSUME NEW j \in Items, \A i \in Items \ {j} : pending'[i] = pending[i],
             \/ pending'[j].st = "full"
             \/ pending[j].st # "full" /\ pending'[j].st # "full"
             \/ HasOutcome(j) /\ pending'[j].st # "full"
      PROVE  \/ \A i \in Items : pending'[i].st = "full" <=> pending[i].st = "full"
             \/ \E k \in Items :
                    /\ \A i \in Items \ {k} : pending'[i] = pending[i]
                    /\ pending'[k].st = "full" \/ (HasOutcome(k) /\ pending'[k].st # "full")
  <2>1. CASE pending[j].st # "full" /\ pending'[j].st # "full"
    BY <1>6, <2>1
  <2>2. CASE pending'[j].st = "full" \/ (HasOutcome(j) /\ pending'[j].st # "full")
    BY <1>6, <2>2
  <2> QED
    BY <1>6, <2>1, <2>2
<1>7. \A f \in Producers \ {e} : prod[f].pc # "writing"
  BY DEF NoRivalWriter, Kept
<1>8. \A j \in Items : pending[j] \in Cell /\ placed[j] \in Nat /\ placed[j] + 1 \in Nat
  BY <1>1, BoundAssumption DEF StoreTypes
<1>9. ASSUME NEW i \in Items, EnqueueCreate(e, i), ~Exists(pending[i])
      PROVE  /\ Kept'
             /\ pending'[i].st = "full" \/ (pending[i].st # "full" /\ pending'[i].st # "full")
             /\ \A j \in Items \ {i} : pending'[j] = pending[j]
  <2> DEFINE c == Created(placed[i] + 1)
             p == [pc |-> "writing", item |-> i, tag |-> placed[i] + 1]
  <2>1. /\ pending' = [pending EXCEPT ![i] = c]
        /\ \/ ~Local /\ prod' = [prod EXCEPT ![e] = Idle]
           \/ Local /\ prod' = [prod EXCEPT ![e] = p]
    BY <1>9 DEF EnqueueCreate, PlacePending, Accept
  <2>2. /\ pending[i].st # "full"
        /\ ~Local => c.st = "full"
        /\ Local => c = Empty(p.tag) /\ c.st # "full"
    BY <1>8, <1>9, CellFacts DEF Exists
  <2>3. Idle.pc # "writing" /\ p.item = i
    BY DEF Idle
  <2> HIDE DEF c, p
  <2>4. pending'[i] = c /\ \A j \in Items \ {i} : pending'[j] = pending[j]
    BY <1>1, <2>1 DEF StoreTypes
  <2>5. Kept'
    BY <1>5, <1>7, <2>1, <2>2, <2>3, <2>4
  <2> QED
    BY <2>1, <2>2, <2>4, <2>5
\* the item of the call goes on to another cell, and the call is over
<1>10. ASSUME NEW j \in Items, NEW c, pending' = [pending EXCEPT ![j] = c],
              prod' = [prod EXCEPT ![e] = Idle],
              \/ c.st = "full"
              \/ pending[j].st # "full" /\ c.st # "full"
              \/ HasOutcome(j) /\ c.st # "full"
       PROVE  /\ Kept'
              /\ \/ pending'[j].st = "full"
                 \/ pending[j].st # "full" /\ pending'[j].st # "full"
                 \/ HasOutcome(j) /\ pending'[j].st # "full"
              /\ \A i \in Items \ {j} : pending'[i] = pending[i]
  <2>1. pending'[j] = c /\ \A i \in Items \ {j} : pending'[i] = pending[i]
    BY <1>1, <1>10 DEF StoreTypes
  <2>2. Idle.pc # "writing"
    BY DEF Idle
  <2>3. Kept'
    BY <1>5, <1>7, <1>10, <2>1, <2>2
  <2> QED
    BY <1>10, <2>1, <2>3
\* the files stay as they are
<1>11. ASSUME NEW j \in Items, NEW p, p.pc # "writing", UNCHANGED pending,
              prod' = [prod EXCEPT ![e] = p]
       PROVE  Kept'
  BY <1>5, <1>11
<1>12. ASSUME NEW i \in Items, EnqueueCreate(e, i), Exists(pending[i])
       PROVE  Kept' /\ UNCHANGED pending
  <2> DEFINE p == [pc |-> "exists", item |-> i, tag |-> 0]
  <2>1. prod' = [prod EXCEPT ![e] = p] /\ UNCHANGED pending /\ p.pc # "writing"
    BY <1>12 DEF EnqueueCreate, storeVars
  <2> HIDE DEF p
  <2> QED
    BY <1>11, <2>1
<1>13. CASE EnqueueWrite(e)
  <2> DEFINE j == prod[e].item
             c == Finished(pending[j], prod[e].tag)
  <2>1. /\ pending' = [pending EXCEPT ![j] = c] /\ prod' = [prod EXCEPT ![e] = Idle]
        /\ j \in Items /\ prod[e].tag \in Nat
        /\ pending[j] = Empty(prod[e].tag) \/ HasOutcome(j)
    BY <1>1, <1>4, <1>13, BoundAssumption DEF EnqueueWrite, Accept, ProducerTypes, Kept
  <2>2. c.st = "full" \/ c = pending[j]
    BY DEF Finished, Full
  <2> HIDE DEF j, c
  <2> QED
    BY <1>3, <1>6, <1>10, <2>1, <2>2
<1>14. CASE EnqueueFails(e)
  <2> DEFINE j == prod[e].item
  <2>1. /\ pending' = [pending EXCEPT ![j] = Absent] /\ prod' = [prod EXCEPT ![e] = Idle]
        /\ j \in Items
    BY <1>4, <1>14 DEF EnqueueFails
  <2>2. pending[j].st # "full" \/ HasOutcome(j)
    <3>1. pending[j] = Empty(prod[e].tag) \/ HasOutcome(j)
      BY <1>14 DEF EnqueueFails, Kept
    <3>2. Empty(prod[e].tag).st # "full"
      BY DEF Empty
    <3> HIDE DEF j
    <3> QED
      BY <3>1, <3>2
  <2> HIDE DEF j
  <2> QED
    BY <1>3, <1>6, <1>10, <2>1, <2>2, CellFacts
<1>15. CASE EnqueuePlace(e)
  <2> DEFINE j == prod[e].item
             c == Full(placed[j] + 1)
  <2>1. /\ pending' = [pending EXCEPT ![j] = c] /\ prod' = [prod EXCEPT ![e] = Idle]
        /\ j \in Items /\ c.st = "full"
    BY <1>4, <1>15 DEF EnqueuePlace, PlacePending, Accept, Full
  <2> HIDE DEF j, c
  <2> QED
    BY <1>3, <1>6, <1>10, <2>1
<1>16. CASE EnqueueExists(e) \/ EnqueueCrash(e)
  <2> DEFINE p == [prod[e] EXCEPT !.pc = "place"]
  <2>1. prod' = [prod EXCEPT ![e] = Idle] \/ prod' = [prod EXCEPT ![e] = p]
    BY <1>16, Zenon DEF EnqueueExists, EnqueueCrash, Accept
  <2>2. UNCHANGED pending /\ prod[e].item \in Items
    BY <1>4, <1>16 DEF EnqueueExists, EnqueueCrash, storeVars
  <2>3. p.pc # "writing" /\ Idle.pc # "writing"
    BY <1>1 DEF ProducerTypes, Idle
  <2> HIDE DEF p
  <2> QED
    BY <1>3, <1>11, <2>1, <2>2, <2>3
<1>17. ASSUME NEW i \in Items, EnqueueCreate(e, i)
       PROVE  /\ Kept'
              /\ \/ \A j \in Items : pending'[j].st = "full" <=> pending[j].st = "full"
                 \/ \E j \in Items :
                       /\ \A k \in Items \ {j} : pending'[k] = pending[k]
                       /\ pending'[j].st = "full" \/ (HasOutcome(j) /\ pending'[j].st # "full")
  BY <1>6, <1>9, <1>12, <1>17
<1> QED
  BY <1>3, <1>13, <1>14, <1>15, <1>16, <1>17 DEF Produce

LEMMA KeptStep ==
    ASSUME NoRivalWriter, EInv, Recorded, Kept, [Next]_vars
    PROVE  Kept'
<1>1. ASSUME UNCHANGED <<pc, at, mine, engineVars, storeVars, prod>> PROVE Kept'
  BY <1>1 DEF Kept, HasOutcome, Empty, engineVars, storeVars
<1> QED
  BY <1>1, WorkerKept, ProduceKept, OtherMoves

\* What an abstract queue sees of the station's files
Available == {i \in Items : pending[i].st = "full"}
Settled   == {<<d[1], d[3]>> : d \in done}
Output    == {s[1] : s \in sink}

\* An item with a record has an outcome for the abstract queue, and the converse.
LEMMA SameOutcomes ==
    ASSUME StoreTypes, NEW i \in Items
    PROVE  HasOutcome(i) <=> Promise!HasOutcome(i)
<1>1. \A d \in done : d[3] \in {"completed", "failed"}
  BY DEF StoreTypes, Outcomes
<1> QED
  BY <1>1 DEF HasOutcome, Promise!HasOutcome

\* Every step of the station is a step of the at-least-once queue, or none that
\* it sees.
LEMMA PromiseStep ==
    ASSUME NoRivalWriter, EInv, SunkFirst, Recorded, Kept, [Next]_vars
    PROVE  [Promise!Next]_<<Available, Settled, Output>>
<1>1. /\ P!IInv /\ StoreTypes /\ ProducerTypes /\ WorkerTypes /\ InPhase /\ Numbered
      /\ \A w \in Workers : phase[w] \in Working \cup Settling => at[w] \in Items
  BY TypesSplit, TypedWorkers, ClaimFacts DEF EInv, InPhase, InPhaseOf
<1> USE DEF Available, Settled, Output
<1>2. ASSUME UNCHANGED <<done, sink>>,
             \/ \A i \in Items : pending'[i].st = "full" <=> pending[i].st = "full"
             \/ \E j \in Items :
                   /\ \A i \in Items \ {j} : pending'[i] = pending[i]
                   /\ pending'[j].st = "full" \/ (HasOutcome(j) /\ pending'[j].st # "full")
      PROVE  [Promise!Next]_<<Available, Settled, Output>>
  <2>1. UNCHANGED <<Settled, Output>>
    BY <1>2
  <2>2. CASE \A i \in Items : pending'[i].st = "full" <=> pending[i].st = "full"
    BY <2>1, <2>2
  <2>3. ASSUME NEW j \in Items, \A i \in Items \ {j} : pending'[i] = pending[i],
               pending'[j].st = "full"
        PROVE  Promise!Next
    <3>1. Available' = Available \cup {j}
      BY <2>3
    <3> QED
      BY <2>1, <3>1 DEF Promise!Next, Promise!Place
  <2>4. ASSUME NEW j \in Items, \A i \in Items \ {j} : pending'[i] = pending[i],
               HasOutcome(j), pending'[j].st # "full"
        PROVE  Promise!Next
    <3>1. Available' = Available \ {j}
      BY <2>4
    <3>2. Promise!HasOutcome(j)
      BY <1>1, <2>4, SameOutcomes
    <3> QED
      BY <2>1, <3>1, <3>2 DEF Promise!Next, Promise!Remove
  <2> QED
    BY <1>2, <2>2, <2>3, <2>4
<1>3. ASSUME NEW e \in Producers, Produce(e)
      PROVE  [Promise!Next]_<<Available, Settled, Output>>
  BY <1>2, <1>3, ProduceKept
<1>4. ASSUME NEW w \in Workers, phase[w] \in Working
      PROVE  at[w] \in Available \/ Promise!HasOutcome(at[w])
  BY <1>1, <1>4, SameOutcomes DEF Kept
<1>5. ASSUME NEW w \in Workers, ListPending(w) \/ Step(w) \/ Crash(w)
      PROVE  [Promise!Next]_<<Available, Settled, Output>>
  <2>1. CASE phase[w] = "sink" /\ sink' \in {sink, sink \cup {<<at[w], got[w]>>}}
             /\ UNCHANGED <<pending, done>>
    <3>1. at[w] \in Items /\ (at[w] \in Available \/ Promise!HasOutcome(at[w]))
      BY <1>1, <1>4, <2>1 DEF Working
    <3>2. Output' = Output \/ Output' = Output \cup {at[w]}
      BY <2>1
    <3>3. UNCHANGED <<Available, Settled>>
      BY <2>1
    <3> QED
      BY <3>1, <3>2, <3>3 DEF Promise!Next, Promise!Deliver
  <2>2. CASE WriteTerminal(w)
    <3>1. /\ phase[w] = "terminal" /\ done' = done \cup {<<at[w], got[w], verdict[w]>>}
          /\ UNCHANGED <<pending, sink>>
      BY <2>2 DEF WriteTerminal
    <3>2. /\ at[w] \in Items /\ (at[w] \in Available \/ Promise!HasOutcome(at[w]))
          /\ verdict[w] \in {"completed", "failed"}
      BY <1>1, <1>4, <3>1 DEF Working, WorkerTypes, Outcomes
    <3>3. verdict[w] = "completed" => at[w] \in Output
      <4>1. verdict[w] = "completed" => <<at[w], got[w]>> \in sink
        BY <3>1 DEF SunkFirst, SunkAt
      <4>2. <<at[w], got[w]>> \in sink => <<at[w], got[w]>>[1] \in Output
        OBVIOUS
      <4>3. <<at[w], got[w]>>[1] = at[w]
        OBVIOUS
      <4> HIDE DEF Output
      <4> QED
        BY <4>1, <4>2, <4>3
    <3>4. Settled' = Settled \cup {<<at[w], verdict[w]>>}
      <4> DEFINE t == <<at[w], got[w], verdict[w]>>
      <4>1. t[1] = at[w] /\ t[3] = verdict[w] /\ done' = done \cup {t}
        BY <3>1
      <4> HIDE DEF t
      <4>2. {<<d[1], d[3]>> : d \in done \cup {t}} = Settled \cup {<<t[1], t[3]>>}
        OBVIOUS
      <4> QED
        BY <4>1, <4>2
    <3>5. UNCHANGED <<Available, Output>>
      BY <3>1
    <3> QED
      BY <3>2, <3>3, <3>4, <3>5 DEF Promise!Next, Promise!Settle
  <2>3. CASE phase[w] = "removePending" /\ pending' = [pending EXCEPT ![at[w]] = Absent]
             /\ UNCHANGED <<done, sink>>
    <3>1. /\ at[w] \in Items /\ HasOutcome(at[w])
          /\ pending'[at[w]] = Absent /\ \A i \in Items \ {at[w]} : pending'[i] = pending[i]
      BY <1>1, <2>3 DEF Settling, Recorded, StoreTypes
    <3> QED
      BY <1>2, <2>3, <3>1, CellFacts
  <2>4. CASE UNCHANGED <<pending, done, sink>>
    BY <2>4
  <2> QED
    BY <1>5, <2>1, <2>2, <2>3, <2>4, WorkerStores DEF StoreMoves
<1>6. ASSUME UNCHANGED storeVars PROVE [Promise!Next]_<<Available, Settled, Output>>
  BY <1>6 DEF storeVars
<1> QED
  BY <1>3, <1>5, <1>6, OtherMoves

\* P6 and C5: enqueue and run_once implement the at-least-once queue of
\* AbstractQueue, for any number of items, workers and submissions, on S3 with
\* any number of producers and on a local disk with one.  An item is taken from
\* pending/ by nobody but after an outcome of it, an outcome and an output are
\* of an item that was placed, and neither is taken back.
THEOREM AtLeastOnce == NoRivalWriter => (Spec => ImplementsPromise)
<1> SUFFICES ASSUME NoRivalWriter PROVE Spec => ImplementsPromise
  OBVIOUS
<1>1. Init => Promise!Init
  BY DEF Init, Promise!Init, Absent
<1>2. Init => Kept
  BY DEF Init, Kept, Working, Idle
<1>3. EInv /\ Recorded /\ Kept /\ [Next]_vars => Kept'
  BY KeptStep
<1>4. EInv /\ SunkFirst /\ Recorded /\ Kept /\ [Next]_vars
        => [Promise!Next]_<<Available, Settled, Output>>
  BY PromiseStep
<1> QED
  BY <1>1, <1>2, <1>3, <1>4, EngineSound, SunkSound, RecordedSound, PTL
     DEF Spec, ImplementsPromise, Promise!Spec, Available, Settled, Output
===============================================================================
