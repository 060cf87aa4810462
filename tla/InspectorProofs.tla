--------------------------- MODULE InspectorProofs ---------------------------
(***************************************************************************)
(* Proofs about Inspector for any items and workers, any bound on the tags *)
(* and any trees beside the queue.  What the lease protocol guarantees is  *)
(* taken from LeaseClaimProofs.                                            *)
(***************************************************************************)
EXTENDS Inspector, SequenceTheorems, TLAPS

P == INSTANCE LeaseClaimProofs WITH Paths <- Items

-------------------------------------------------------------------------------
(* The inspection takes no part in the lease protocol or the queue *)

\* A step of the workers is a step of the lease protocol, and no other step
\* touches a lease or a claim.
LEMMA ClaimOrNot ==
    ASSUME [InspectorNext]_vars
    PROVE  [Claim!Next]_(Claim!vars)
<1>1. ASSUME UNCHANGED claimVars PROVE UNCHANGED Claim!vars
  BY <1>1 DEF claimVars, Claim!vars
<1>2. CASE Inspect
  BY <1>1, <1>2 DEF Inspect
<1>3. CASE QueueStep
  BY <1>1, <1>3 DEF QueueStep
<1>4. CASE ClaimStep
  BY <1>4 DEF ClaimStep, Claim!Next, Claim!Work
<1>5. ASSUME NEW i \in Items, Reach(i) PROVE UNCHANGED claimVars
  BY <1>5 DEF Reach
<1>6. ASSUME NEW i \in Items, Pass(i) PROVE Claim!Next
  BY <1>6 DEF Pass, Claim!Next
<1>7. CASE UNCHANGED vars
  BY <1>1, <1>7 DEF vars
<1> QED
  BY <1>1, <1>2, <1>3, <1>4, <1>5, <1>6, <1>7 DEF InspectorNext

\* Nor does any step but the queue's own move an item.
LEMMA QueueOrNot ==
    ASSUME [InspectorNext]_vars
    PROVE  [Queue!Next]_queueVars
BY DEF InspectorNext, Inspect, QueueStep, ClaimStep, Reach, Pass, vars

\* So what holds of the leases and of the queue by themselves holds beside the
\* inspector.
LEMMA InspectorOnlyReads == InspectorSpec => Claim!Spec /\ Queue!Spec
<1>1. InspectorInit => Claim!Init /\ Queue!Init
  BY DEF InspectorInit
<1>2. [InspectorNext]_vars => [Queue!Next]_<<available, settled, output>>
  BY QueueOrNot DEF queueVars
<1> QED
  BY <1>1, <1>2, ClaimOrNot, PTL DEF InspectorSpec, Claim!Spec, Queue!Spec

\* Inspector instantiates LeaseClaim as Claim; the proofs about LeaseClaim are
\* here instantiated as P, with a copy of every definition of LeaseClaim.
LEMMA SameProtocol ==
    /\ Claim!Init => P!Init
    /\ [Claim!Next]_(Claim!vars) => [P!Next]_(P!vars)
<1>1. Claim!Init => P!Init
  BY DEF P!Init, Claim!Init, P!Absent, Claim!Absent
<1>2. [Claim!Next]_(Claim!vars) => [P!Next]_(P!vars)
  BY DEF P!Next, Claim!Next, P!vars, Claim!vars, P!Work, Claim!Work, P!Step, Claim!Step,
   P!Lapse, Claim!Lapse, P!OutOfTags, Claim!OutOfTags, P!Try, Claim!Try, P!Write, Claim!Write,
   P!WriteFails, Claim!WriteFails, P!CheckExists, Claim!CheckExists, P!Recreate, Claim!Recreate,
   P!Read, Claim!Read, P!Recheck, Claim!Recheck, P!FetchETag, Claim!FetchETag, P!Swap, Claim!Swap,
   P!Rename, Claim!Rename, P!Put, Claim!Put, P!Renew, Claim!Renew, P!Leave, Claim!Leave,
   P!FindLease, Claim!FindLease, P!DeleteLease, Claim!DeleteLease, P!Return, Claim!Return,
   P!Abandon, Claim!Abandon, P!CreateIfAbsent, Claim!CreateIfAbsent, P!Place, Claim!Place,
   P!Goto, Claim!Goto, P!Refused, Claim!Refused, P!Raised, Claim!Raised,
   P!leaseVars, Claim!leaseVars, P!workerVars, Claim!workerVars,
   P!Exists, Claim!Exists, P!Created, Claim!Created, P!Finished, Claim!Finished, P!Full, Claim!Full,
   P!Empty, Claim!Empty, P!Absent, Claim!Absent, P!ETag, Claim!ETag, P!Local, Claim!Local
<1> QED
  BY <1>1, <1>2

\* The assumptions of the protocol hold of the constants.
LEMMA ProtocolAssumptions == P!PathAssumption /\ P!TagsAssumption /\ P!BackendAssumption
BY ItemAssumption, TagsAssumption, BackendAssumption
   DEF P!PathAssumption, P!TagsAssumption, P!BackendAssumption

\* The inductive invariant of the protocol holds beside the inspector.
LEMMA ClaimsSound == InspectorSpec => []P!IInv
<1>1. P!Spec => []P!IInv
  BY ProtocolAssumptions, P!Invariance, PTL
<1> QED
  BY <1>1, InspectorOnlyReads, SameProtocol, PTL DEF P!Spec, Claim!Spec


-------------------------------------------------------------------------------
(* The leases, as the inspector finds them *)

\* The facts of the lease protocol that the inspection relies on
LEMMA ClaimFacts ==
    ASSUME P!IInv
    PROVE  /\ Claim!TypeOK
           /\ lease \in [Items -> Cell] /\ issued \in [Items -> 0..MaxTags]
           /\ dead \in [Items -> SUBSET (1..MaxTags)]
           /\ pc \in [Workers -> Claim!PCs] /\ at \in [Workers -> Items \cup {NoPath}]
           /\ \A w \in Workers : pc[w] # "idle" <=> at[w] \in Items
           /\ \A i \in Items : lease[i].tag \in Nat /\ lease[i].tag <= issued[i]
BY DEF P!IInv, P!TypeOK, Claim!TypeOK, P!PCs, Claim!PCs, P!Cell, Claim!Cell, Cell,
   P!Standing, P!Placed

\* Leases and claims are of items that the queue knows, and a lease has a tag.
OfTheQueue ==
    /\ \A i \in Items : Exists(lease[i]) => InQueue(i) /\ lease[i].tag # 0
    /\ \A w \in Workers : at[w] \in Items => InQueue(at[w])

\* What becomes of a lease in a step: it stays, goes, is replaced by one with a
\* later tag, or the body of an empty file arrives.
Moves(i) ==
    /\ issued'[i] \in Nat /\ issued[i] <= issued'[i]
    /\ \/ lease'[i] = lease[i]
       \/ lease'[i] = Absent
       \/ /\ Exists(lease'[i])
          /\ lease'[i].tag = issued[i] + 1 /\ lease'[i].tag = issued'[i]
       \/ /\ lease[i].st = "empty"
          /\ lease'[i] = Full(lease[i].tag)

\* Placing a body moves the lease of that item on.
LEMMA PlaceMoves ==
    ASSUME P!IInv, NEW w \in Workers, NEW i \in Items, NEW cell,
           Claim!Place(w, i, cell), Exists(cell), cell.tag = issued[i] + 1
    PROVE  \A j \in Items : Moves(j)
<1>1. /\ lease' = [lease EXCEPT ![i] = cell] /\ lease \in [Items -> Cell]
      /\ issued' = [issued EXCEPT ![i] = @ + 1] /\ issued \in [Items -> 0..MaxTags]
  BY ClaimFacts DEF Claim!Place
<1>2. \A j \in Items : issued[j] \in Nat
  BY <1>1, TagsAssumption
<1> QED
  BY <1>1, <1>2 DEF Moves

\* So does create_if_absent.
LEMMA CreateMoves ==
    ASSUME P!IInv, NEW w \in Workers, NEW i \in Items, NEW l,
           Claim!CreateIfAbsent(w, i, l)
    PROVE  \A j \in Items : Moves(j)
<1>1. \A j \in Items : issued[j] \in Nat
  BY ClaimFacts, TagsAssumption
<1>2. CASE UNCHANGED Claim!leaseVars
  BY <1>1, <1>2 DEF Moves, Claim!leaseVars
<1>3. CASE Claim!Place(w, i, Claim!Created(issued[i] + 1))
  <2>1. /\ Exists(Claim!Created(issued[i] + 1))
        /\ Claim!Created(issued[i] + 1).tag = issued[i] + 1
    BY DEF Claim!Created, Claim!Full, Claim!Empty, Exists
  <2> QED
    BY <1>3, <2>1, PlaceMoves
<1> QED
  BY <1>2, <1>3 DEF Claim!CreateIfAbsent, Claim!leaseVars

\* And every step of a worker, whichever worker and item.
LEMMA WorkMoves ==
    ASSUME P!IInv, NEW w \in Workers,
           (\E i \in Items : Claim!Try(w, i)) \/ Claim!Step(w) \/ Claim!WriteFails(w)
              \/ Claim!Renew(w) \/ Claim!FindLease(w) \/ Claim!Abandon(w)
    PROVE  \A j \in Items : Moves(j)
<1>1. /\ \A j \in Items : issued[j] \in Nat
      /\ lease \in [Items -> Cell] /\ at \in [Workers -> Items \cup {NoPath}]
  BY ClaimFacts, TagsAssumption
<1>2. CASE UNCHANGED <<lease, issued>>
  BY <1>1, <1>2 DEF Moves
<1>3. CASE pc[w] # "idle" /\ lease' = [lease EXCEPT ![at[w]] = Claim!Absent]
             /\ UNCHANGED issued
  BY <1>1, <1>3, ClaimFacts DEF Moves, Absent, Claim!Absent
<1>4. CASE Claim!Write(w)
  <2>1. at[w] \in Items
    BY <1>4, ClaimFacts DEF Claim!Write
  <2>2. /\ lease'[at[w]] = Claim!Finished(lease[at[w]], mine[w])
        /\ \A j \in Items \ {at[w]} : lease'[j] = lease[j]
        /\ issued' = issued
    BY <1>1, <1>4, <2>1 DEF Claim!Write
  <2>3. \/ lease'[at[w]] = lease[at[w]]
        \/ lease[at[w]] = Claim!Empty(mine[w]) /\ lease'[at[w]] = Claim!Full(mine[w])
    BY <2>2 DEF Claim!Finished
  <2> QED
    BY <1>1, <2>1, <2>2, <2>3 DEF Moves, Claim!Full, Claim!Empty, Full
<1>5. ASSUME at[w] \in Items, Claim!Place(w, at[w], Claim!Full(issued[at[w]] + 1))
      PROVE  \A j \in Items : Moves(j)
  BY <1>5, PlaceMoves DEF Claim!Full, Exists
<1>6. CASE Claim!Swap(w) \/ Claim!Rename(w) \/ Claim!Put(w)
  <2>1. at[w] \in Items
    BY <1>6, ClaimFacts DEF Claim!Swap, Claim!Rename, Claim!Put
  <2> QED
    BY <1>2, <1>5, <1>6, <2>1 DEF Claim!Swap, Claim!Rename, Claim!Put, Claim!leaseVars
<1>7. CASE Claim!Recreate(w)
  <2>1. at[w] \in Items
    BY <1>7, ClaimFacts DEF Claim!Recreate
  <2> QED
    BY <1>7, <2>1, CreateMoves DEF Claim!Recreate
<1>8. ASSUME NEW i \in Items, Claim!Try(w, i) PROVE \A j \in Items : Moves(j)
  BY <1>8, CreateMoves DEF Claim!Try
<1>9. CASE Claim!WriteFails(w) \/ Claim!DeleteLease(w)
  BY <1>3, <1>9 DEF Claim!WriteFails, Claim!DeleteLease
<1>10. CASE Claim!CheckExists(w) \/ Claim!Read(w) \/ Claim!Recheck(w)
              \/ Claim!FetchETag(w) \/ Claim!Return(w)
  BY <1>2, <1>10 DEF Claim!CheckExists, Claim!Read, Claim!Recheck, Claim!FetchETag,
     Claim!Return, Claim!leaseVars
<1>11. CASE Claim!Renew(w) \/ Claim!FindLease(w) \/ Claim!Abandon(w)
  BY <1>2, <1>11 DEF Claim!Renew, Claim!FindLease, Claim!Abandon, Claim!leaseVars
<1> QED
  BY <1>4, <1>6, <1>7, <1>8, <1>9, <1>10, <1>11 DEF Claim!Step

\* No step of the inspector or the clock moves a lease.
LEMMA LeaseMoves ==
    ASSUME P!IInv, [InspectorNext]_vars
    PROVE  \A i \in Items : Moves(i)
<1>1. \A j \in Items : issued[j] \in Nat
  BY ClaimFacts, TagsAssumption
<1>2. CASE UNCHANGED <<lease, issued>>
  BY <1>1, <1>2 DEF Moves
<1>3. CASE ClaimStep
  BY <1>3, WorkMoves DEF ClaimStep
<1> QED
  BY <1>2, <1>3 DEF InspectorNext, Inspect, QueueStep, Reach, Pass, Claim!Lapse, claimVars,
     vars

-------------------------------------------------------------------------------
(* The parts of the inductive invariant *)

\* The pairs of the clock are of items and tags, and the protocol's clock is not
\* ahead of them.
DueTyped ==
    /\ due \subseteq Items \X (1..MaxTags)
    /\ \A i \in Items, t \in 1..MaxTags : t \in dead[i] => <<i, t>> \in due

QueueTyped ==
    /\ available \subseteq Items /\ output \subseteq Items
    /\ settled \subseteq Items \X {"completed", "failed"}

\* The inspector's own state: when it walks no more, nothing is left to read.
ScanTyped ==
    /\ tree \in Trees
    /\ state \in {"idle", "walking", "reported"}
    /\ station \in {"root", "index", "queues", "q"}
    /\ todo \subseteq {"index", "queues", "q"}
    /\ walk \in Seq(SUBSET Dirs)
    /\ names \subseteq QueueBuckets \cup IndexMarkers
    /\ listed \subseteq Items \X QueueBuckets
    /\ unread \subseteq Items
    /\ judged \subseteq Items \X {"active", "expired"}
    /\ state # "walking" => walk = <<>> /\ unread = {}
    /\ snapshot \subseteq {"root", "index", "queues", "q"}
                             \X {"queue", "index", "wal", "unknown"}

\* A lease noted at the start is still the one at its path, or is gone for good.
Noted ==
    \A i \in Items : \A c : <<i, c>> \in start.leases =>
        /\ c.st = "full" /\ c.tag \in Nat /\ c.tag # 0 /\ c.tag <= issued[i]
        /\ lease[i].tag = c.tag => lease[i] = c

\* An item noted at the start is known to the queue ever since, so that the queue
\* is inspected, after the other stations.
ToCome ==
    /\ DOMAIN start = {"items", "leases", "blind"} /\ start.items \subseteq Items
    /\ \A i \in start.items : InQueue(i)
    /\ state # "idle" /\ start.items # {} => station = "q" \/ "q" \in todo

\* The directories that are read next
Ahead == IF walk = <<>> THEN {} ELSE Head(walk)

\* An item is counted, or will be when pending is read, or else has an outcome
\* in a bucket that is still to read or was not to be read after pending.
Accounted(i) ==
    \/ "pending" \in Ahead
    \/ \E b \in QueueBuckets : <<i, b>> \in listed
    \/ \E b \in QueueBuckets : <<i, b>> \in settled /\ b \in Ahead \cup start.blind

\* The lease of an item has been judged, or will be.
Looked(i) ==
    "pending" \in Ahead \/ i \in unread \/ <<i, "active">> \in judged

\* What the walk of q has found out by the time it has read q
Found ==
    /\ start.items # {} => "pending" \in names
    /\ \A i \in start.items : Accounted(i)
    /\ \A i \in Items : <<i, lease[i]>> \in start.leases /\ <<i, lease[i].tag>> \notin due
                           => Looked(i)

\* The queue is the last station, and in it the walk has only q to read, or some
\* of its buckets.
AtQueue ==
    state # "idle" /\ station = "q" =>
        /\ todo = {}
        /\ \/ walk = <<{"q"}>>
           \/ /\ walk = <<>> \/ \E B \in SUBSET QueueBuckets : B # {} /\ walk = <<B>>
              /\ Found

\* Only a lease whose time had come is judged expired.
Judged ==
    \A i \in Items : <<i, "expired">> \in judged => \E t \in 1..MaxTags : <<i, t>> \in due

IndexMarked == tree.current \/ tree.inbox \/ "index" \in tree.sidecars

\* The index is a station for its marks, and its walk sees them all.
AtIndex ==
    /\ "index" \in todo => IndexMarked
    /\ state # "idle" /\ station = "index" =>
        /\ IndexMarked
        /\ \/ walk = <<{"index"}>> /\ names = {}
           \/ /\ walk = <<{"inbox"}>> \/ walk = <<>>
              /\ names = Subdirs("index") \cup Current("index")

\* What the index is by its marks
IndexKind == IF tree.current \/ tree.inbox THEN "index" ELSE "wal"

\* A marked index is still to come, is being walked, or has been told of; what
\* was reported last is in the snapshot; and a root without a sidecar is the only
\* station if it is one.
Told ==
    /\ state # "idle" /\ IndexMarked =>
        \/ "index" \in todo
        \/ station = "index" /\ state = "walking"
        \/ <<"index", IndexKind>> \in snapshot
    /\ state = "reported" => <<station, Role>> \in snapshot
    /\ state # "idle" /\ "root" \notin tree.sidecars =>
        \/ /\ station = "root" /\ todo = {}
           /\ state = "walking" => snapshot = {}
           /\ state = "reported" => snapshot = {<<"root", Role>>}
        \/ station # "root" /\ \A s \in snapshot : s[1] # "root"

IInv ==
    /\ OfTheQueue /\ QueueTyped /\ DueTyped /\ ScanTyped
    /\ Noted /\ ToCome /\ AtQueue /\ Judged /\ AtIndex /\ Told

-------------------------------------------------------------------------------
(* The queue and the clock *)

\* The queue forgets no item, and keeps its types.
LEMMA QueueKeeps ==
    ASSUME QueueTyped, [InspectorNext]_vars
    PROVE  /\ QueueTyped'
           /\ settled \subseteq settled'
           /\ \A i : InQueue(i) => InQueue(i)'
<1>1. CASE UNCHANGED queueVars
  BY <1>1 DEF queueVars, QueueTyped, InQueue
<1>2. CASE Queue!Next
  <2>1. PICK i \in Items :
          Queue!Place(i) \/ Queue!Deliver(i) \/ Queue!Remove(i)
            \/ \E o \in {"completed", "failed"} : Queue!Settle(i, o)
    BY <1>2 DEF Queue!Next
  <2>2. CASE Queue!Place(i)
    BY <2>2 DEF Queue!Place, QueueTyped, InQueue
  <2>3. CASE Queue!Deliver(i)
    BY <2>3 DEF Queue!Deliver, QueueTyped, InQueue
  <2>4. CASE Queue!Remove(i)
    <3>1. PICK o \in {"completed", "failed"} : <<i, o>> \in settled
      BY <2>4 DEF Queue!Remove, Queue!HasOutcome
    <3>2. <<i, o>>[1] = i
      OBVIOUS
    <3>3. ASSUME NEW j, InQueue(j) PROVE InQueue(j)'
      BY <2>4, <3>1, <3>2, <3>3 DEF Queue!Remove, InQueue
    <3> QED
      BY <2>4, <3>3 DEF Queue!Remove, QueueTyped
  <2>5. ASSUME NEW o \in {"completed", "failed"}, Queue!Settle(i, o)
        PROVE  QueueTyped' /\ settled \subseteq settled' /\ \A j : InQueue(j) => InQueue(j)'
    BY <2>5 DEF Queue!Settle, QueueTyped, InQueue
  <2> QED
    BY <2>1, <2>2, <2>3, <2>4, <2>5
<1> QED
  BY <1>1, <1>2, QueueOrNot

\* Leases and claims stay with items the queue knows, as workers try only those.
LEMMA OfTheQueueStep ==
    ASSUME P!IInv, QueueTyped, OfTheQueue, [InspectorNext]_vars
    PROVE  OfTheQueue'
<1>1. \A i : InQueue(i) => InQueue(i)'
  BY QueueKeeps
<1>2. \A w \in Workers : at'[w] \in Items => InQueue(at'[w])
  <2>1. CASE ClaimStep
    <3>1. ASSUME NEW w \in Workers, NEW i \in Items, InQueue(i), Claim!Try(w, i)
          PROVE  \A v \in Workers : at'[v] \in Items => InQueue(at'[v])
      BY <3>1, ClaimFacts DEF Claim!Try, OfTheQueue
    <3>2. ASSUME NEW w \in Workers, at' = at \/ at' = [at EXCEPT ![w] = NoPath]
          PROVE  \A v \in Workers : at'[v] \in Items => InQueue(at'[v])
      BY <3>2, ClaimFacts, ItemAssumption DEF OfTheQueue
    <3>3. ASSUME NEW w \in Workers, Claim!Step(w) \/ Claim!WriteFails(w) \/ Claim!Renew(w)
                    \/ Claim!FindLease(w) \/ Claim!Abandon(w)
          PROVE  at' = at \/ at' = [at EXCEPT ![w] = NoPath]
      BY <3>3 DEF Claim!Step, Claim!Write, Claim!WriteFails, Claim!CheckExists, Claim!Recreate,
         Claim!Read, Claim!Recheck, Claim!FetchETag, Claim!Swap, Claim!Rename, Claim!Put,
         Claim!Renew, Claim!Leave, Claim!FindLease, Claim!DeleteLease, Claim!Return,
         Claim!Abandon
    <3>4. UNCHANGED queueVars
      BY <2>1 DEF ClaimStep
    <3>5. \A v \in Workers : at'[v] \in Items => InQueue(at'[v])
      BY <2>1, <3>1, <3>2, <3>3 DEF ClaimStep
    <3> QED
      BY <3>5
  <2>2. CASE UNCHANGED at
    BY <2>2 DEF OfTheQueue
  <2> QED
    BY <2>1, <2>2 DEF InspectorNext, Inspect, QueueStep, Reach, Pass, Claim!Lapse,
       Claim!workerVars, claimVars, vars
<1>3. ASSUME NEW i \in Items, Exists(lease'[i]) PROVE InQueue(i)' /\ lease'[i].tag # 0
  <2>1. Moves(i) /\ lease[i] \in Cell /\ issued[i] \in Nat
    BY LeaseMoves, ClaimFacts, TagsAssumption
  <2>2. lease'[i].tag # 0
    BY <1>3, <2>1 DEF Moves, OfTheQueue, Exists, Absent, Full
  <2>3. CASE ClaimStep
    <3>1. ASSUME NEW w \in Workers, NEW j \in Items, InQueue(j), Claim!Try(w, j)
          PROVE  InQueue(i)
      <4>1. i # j => lease'[i] = lease[i]
        BY <3>1, ClaimFacts DEF Claim!Try, Claim!CreateIfAbsent, Claim!Place, Claim!leaseVars
      <4> QED
        BY <1>3, <3>1, <4>1 DEF OfTheQueue
    <3>2. ASSUME NEW w \in Workers, Claim!Step(w) \/ Claim!WriteFails(w) \/ Claim!Renew(w)
                    \/ Claim!FindLease(w) \/ Claim!Abandon(w)
          PROVE  InQueue(i)
      <4>1. i # at[w] => lease'[i] = lease[i]
        BY <3>2, ClaimFacts DEF Claim!Step, Claim!Write, Claim!WriteFails, Claim!CheckExists,
           Claim!Recreate, Claim!Read, Claim!Recheck, Claim!FetchETag, Claim!Swap, Claim!Rename,
           Claim!Put, Claim!Renew, Claim!FindLease, Claim!DeleteLease, Claim!Return,
           Claim!Abandon, Claim!CreateIfAbsent, Claim!Place, Claim!leaseVars
      <4> QED
        BY <1>3, <4>1 DEF OfTheQueue
    <3>3. InQueue(i)
      BY <2>3, <3>1, <3>2 DEF ClaimStep
    <3> QED
      BY <1>1, <2>2, <3>3
  <2>4. CASE UNCHANGED lease
    BY <1>1, <1>3, <2>2, <2>4 DEF OfTheQueue
  <2>5. InQueue(i)'
    BY <2>3, <2>4 DEF InspectorNext, Inspect, QueueStep, Reach, Pass, Claim!Lapse, claimVars,
       vars
  <2> QED
    BY <2>2, <2>5
<1>4. ASSUME NEW w \in Workers, at'[w] \in Items PROVE InQueue(at[w])'
  BY <1>1, <1>2, <1>4 DEF InQueue
<1> QED
  BY <1>3, <1>4 DEF OfTheQueue

\* A pair of the clock is added for a lease that is there, and the protocol's
\* clock follows.
LEMMA DueStep ==
    ASSUME P!IInv, OfTheQueue, DueTyped, [InspectorNext]_vars
    PROVE  DueTyped' /\ due \subseteq due'
<1>1. CASE \E i \in Items : Reach(i)
  <2>1. PICK i \in Items : Reach(i)
    BY <1>1
  <2>2. lease[i].tag \in Nat /\ lease[i].tag # 0 /\ lease[i].tag <= issued[i]
        /\ issued[i] \in 0..MaxTags
    BY <2>1, ClaimFacts DEF Reach, OfTheQueue, Exists
  <2>3. lease[i].tag \in 1..MaxTags
    BY <2>2, TagsAssumption
  <2>4. due' = due \cup {<<i, lease[i].tag>>} /\ dead' = dead
    BY <2>1 DEF Reach, claimVars
  <2> QED
    BY <2>3, <2>4 DEF DueTyped
<1>2. CASE \E i \in Items : Pass(i)
  <2>1. PICK i \in Items : Pass(i)
    BY <1>2
  <2>2. /\ due' = due /\ <<i, lease[i].tag>> \in due
        /\ dead' = [dead EXCEPT ![i] = @ \cup {lease[i].tag}]
        /\ dead \in [Items -> SUBSET (1..MaxTags)]
    BY <2>1, ClaimFacts DEF Pass
  <2> QED
    BY <2>2 DEF DueTyped
<1>3. CASE UNCHANGED <<dead, due>>
  BY <1>3 DEF DueTyped
<1>4. CASE ClaimStep
  <2>1. UNCHANGED dead
    BY <1>4 DEF ClaimStep, Claim!Step, Claim!Try, Claim!Write, Claim!WriteFails,
       Claim!CheckExists, Claim!Recreate, Claim!Read, Claim!Recheck, Claim!FetchETag,
       Claim!Swap, Claim!Rename, Claim!Put, Claim!Renew, Claim!FindLease, Claim!DeleteLease,
       Claim!Return, Claim!Abandon, Claim!CreateIfAbsent, Claim!Place, Claim!leaseVars
  <2> QED
    BY <1>3, <1>4, <2>1 DEF ClaimStep
<1> QED
  BY <1>1, <1>2, <1>3, <1>4 DEF InspectorNext, Inspect, QueueStep, claimVars, vars

\* A lease that was noted is not brought back: later ones have later tags.
LEMMA StaysNoted ==
    ASSUME P!IInv, Noted, [InspectorNext]_vars, start'.leases = start.leases
    PROVE  Noted'
<1> SUFFICES ASSUME NEW i \in Items, NEW c, <<i, c>> \in start.leases
             PROVE  /\ c.st = "full" /\ c.tag \in Nat /\ c.tag # 0 /\ c.tag <= issued'[i]
                    /\ lease'[i].tag = c.tag => lease'[i] = c
  BY DEF Noted
<1>1. /\ c.st = "full" /\ c.tag \in Nat /\ c.tag # 0 /\ c.tag <= issued[i]
      /\ lease[i].tag = c.tag => lease[i] = c
  BY DEF Noted
<1>2. Moves(i) /\ issued[i] \in Nat /\ lease[i] \in Cell
  BY LeaseMoves, ClaimFacts, TagsAssumption
<1>3. c.tag <= issued'[i]
  BY <1>1, <1>2 DEF Moves
<1>4. lease'[i].tag = c.tag => lease'[i] = c
  BY <1>1, <1>2 DEF Moves, Absent, Full
<1> QED
  BY <1>1, <1>3, <1>4

\* What the inspector notes at its start
LEMMA NotedAtStart ==
    ASSUME P!IInv, OfTheQueue, UNCHANGED claimVars,
           \/ Discover
           \/ start'.leases = {}
    PROVE  Noted'
<1>1. CASE start'.leases = {}
  BY <1>1 DEF Noted
<1>2. CASE Discover
  <2> SUFFICES ASSUME NEW i \in Items, NEW c, <<i, c>> \in start'.leases
               PROVE  /\ c.st = "full" /\ c.tag \in Nat /\ c.tag # 0 /\ c.tag <= issued'[i]
                      /\ lease'[i].tag = c.tag => lease'[i] = c
    BY DEF Noted
  <2>1. start'.leases = {<<j, lease[j]>> : j \in {j \in Items : lease[j].st = "full"
                                                   /\ <<j, lease[j].tag>> \notin due}}
    BY <1>2 DEF Discover
  <2>2. c = lease[i] /\ lease[i].st = "full"
    BY <2>1
  <2>3. lease[i].tag # 0 /\ lease[i].tag \in Nat /\ lease[i].tag <= issued[i]
    BY <2>2, ClaimFacts DEF OfTheQueue, Exists
  <2> QED
    BY <2>2, <2>3 DEF claimVars
<1> QED
  BY <1>1, <1>2

\* Every step leaves what was noted, notes anew, or drops the notes.
LEMMA NotedStep ==
    ASSUME P!IInv, OfTheQueue, Noted, [InspectorNext]_vars
    PROVE  Noted'
<1>1. CASE UNCHANGED start
  BY <1>1, StaysNoted
<1>2. CASE Inspect
  <2>1. UNCHANGED claimVars
    BY <1>2 DEF Inspect
  <2>2. CASE Discover
    BY <2>1, <2>2, NotedAtStart
  <2>3. CASE NextStation
    <3>1. UNCHANGED start \/ start'.leases = {}
      BY <2>3 DEF NextStation, Idle
    <3> QED
      BY <1>1, <2>1, <3>1, NotedAtStart
  <2>4. ASSUME NEW d \in Dirs, ReadDir(d) PROVE start'.leases = start.leases
    BY <2>4 DEF ReadDir
  <2>5. CASE Report \/ \E i \in Items : ReadLease(i)
    BY <1>1, <2>5 DEF Report, ReadLease
  <2> QED
    BY <1>2, <2>2, <2>3, <2>4, <2>5, StaysNoted DEF Inspect
<1> QED
  BY <1>1, <1>2 DEF InspectorNext, vars

\* No pair leaves the clock, so that what was judged stays true.
LEMMA JudgedStep ==
    ASSUME DueTyped, ScanTyped, Judged, [InspectorNext]_vars, due \subseteq due'
    PROVE  Judged'
<1> SUFFICES ASSUME NEW j \in Items, <<j, "expired">> \in judged'
             PROVE  \E t \in 1..MaxTags : <<j, t>> \in due
  BY DEF Judged
<1>1. CASE <<j, "expired">> \in judged
  BY <1>1 DEF Judged
<1>2. CASE <<j, "expired">> \notin judged
  <2>1. CASE \E i \in Items : ReadLease(i)
    <3>1. PICK i \in Items : ReadLease(i)
      BY <2>1
    <3>2. i = j /\ <<i, lease[i].tag>> \in due
      BY <1>2, <3>1 DEF ReadLease
    <3> QED
      BY <3>2 DEF DueTyped
  <2>2. CASE judged' = judged \/ judged' = {}
    BY <1>2, <2>2
  <2> QED
    BY <2>1, <2>2 DEF InspectorNext, Inspect, Discover, Enter, ReadDir, Report, NextStation,
       Idle, scanVars, vars
<1> QED
  BY <1>1, <1>2

-------------------------------------------------------------------------------
(* The stations and their order *)

Stations == {"root", "index", "queues", "q"}

\* The root comes first, and q when nothing else is left.
LEMMA FirstFacts ==
    ASSUME NEW dirs \in SUBSET Stations, dirs # {}
    PROVE  /\ First(dirs) \in dirs
           /\ First(dirs) = "q" => dirs = {"q"}
           /\ First(dirs) = "root" <=> "root" \in dirs
BY DEF First, Stations

\* The index is a station when it has a mark, the queue when it has a bucket, and
\* the root, if it has no sidecar, when nothing else is.
LEMMA StationFacts ==
    ASSUME tree \in Trees
    PROVE  /\ StationDirs \in SUBSET Stations /\ StationDirs # {}
           /\ "index" \in StationDirs <=> IndexMarked
           /\ available # {} \/ settled # {} => "q" \in StationDirs
           /\ "root" \in StationDirs /\ "root" \notin tree.sidecars => StationDirs = {"root"}
<1>1. StationDirs \in SUBSET Stations /\ StationDirs # {}
  BY DEF StationDirs, Stations
<1>2. Marks("index") # {} <=> IndexMarked
  BY TreeAssumption DEF Marks, IndexMarked, Subdirs, Current
<1>3. available # {} \/ settled # {} => "pending" \in Marks("q")
  BY DEF Marks, Subdirs, Buckets, QueueBuckets
<1>4. "root" \notin tree.sidecars => Marks("root") = {}
  BY DEF Marks, Subdirs, Current, QueueBuckets
<1> QED
  BY <1>1, <1>2, <1>3, <1>4 DEF StationDirs

\* What becomes of the inspector's state: it begins at a station, reads on in
\* one, or returns
Begins(d) == Enter(d) /\ unread' = {}

LEMMA Beginnings ==
    ASSUME ScanTyped, Discover \/ NextStation
    PROVE  \/ \E d \in Stations : Begins(d) /\ todo' \subseteq {"index", "queues", "q"}
                                  /\ (d = "q" => todo' = {})
                                  /\ snapshot' \in {{}, snapshot}
           \/ Idle
<1>1. CASE Discover
  <2>1. First(StationDirs) \in StationDirs /\ StationDirs \in SUBSET Stations
        /\ (First(StationDirs) = "root" <=> "root" \in StationDirs)
        /\ (First(StationDirs) = "q" => StationDirs = {"q"})
    BY FirstFacts, StationFacts DEF ScanTyped
  <2>2. StationDirs \ {First(StationDirs)} \subseteq {"index", "queues", "q"}
    BY <2>1 DEF Stations
  <2> QED
    BY <1>1, <2>1, <2>2 DEF Discover, Begins
<1>2. CASE state = "reported" /\ todo # {} /\ Enter(First(todo))
            /\ todo' = todo \ {First(todo)} /\ UNCHANGED <<unread, snapshot, start>>
  <2>1. todo \in SUBSET Stations /\ "root" \notin todo /\ unread = {}
    BY <1>2 DEF ScanTyped, Stations
  <2>2. First(todo) \in todo /\ (First(todo) = "q" => todo = {"q"})
    BY <1>2, <2>1, FirstFacts
  <2> QED
    BY <1>2, <2>1, <2>2 DEF Begins, ScanTyped, Stations
<1> QED
  BY <1>1, <1>2 DEF NextStation

\* The subdirectories of a directory are directories, and what is seen of names
\* and counted in it is of the queue or the index.
LEMMA DirFacts ==
    ASSUME QueueTyped, NEW d \in Dirs
    PROVE  /\ Subdirs(d) \in SUBSET Dirs
           /\ Current(d) \subseteq IndexMarkers
           /\ Subdirs(d) \cap (QueueBuckets \cup {"inbox"}) \subseteq QueueBuckets \cup IndexMarkers
           /\ ItemsIn(d) \X {d} \subseteq Items \X QueueBuckets
           /\ LeasesIn(d) \subseteq Items
<1>1. Buckets \subseteq QueueBuckets
  BY DEF Buckets, QueueTyped, QueueBuckets
<1>2. Subdirs(d) \in SUBSET Dirs
  BY <1>1 DEF Subdirs, Dirs
<1>3. ItemsIn(d) \subseteq Items /\ (ItemsIn(d) # {} => d \in QueueBuckets)
  BY DEF ItemsIn, QueueTyped, QueueBuckets
<1>4. ItemsIn(d) \X {d} \subseteq Items \X QueueBuckets
  BY <1>3
<1>5. Current(d) \subseteq IndexMarkers /\ LeasesIn(d) \subseteq Items
  BY DEF Current, IndexMarkers, LeasesIn
<1>6. Subdirs(d) \cap (QueueBuckets \cup {"inbox"}) \subseteq QueueBuckets \cup IndexMarkers
  BY DEF IndexMarkers
<1> QED
  BY <1>2, <1>4, <1>5, <1>6

\* The walk stays a sequence of sets of directories.
LEMMA WalkTyped ==
    ASSUME walk \in Seq(SUBSET Dirs), walk # <<>>, NEW d \in Dirs,
           NEW S \in SUBSET Dirs,
           walk' = (IF S = {} THEN <<>> ELSE <<S>>)
                     \o (IF Head(walk) = {d} THEN <<>> ELSE <<Head(walk) \ {d}>>) \o Tail(walk)
    PROVE  walk' \in Seq(SUBSET Dirs)
<1>1. Head(walk) \in SUBSET Dirs /\ Tail(walk) \in Seq(SUBSET Dirs)
  OBVIOUS
<1> DEFINE deeper == IF S = {} THEN <<>> ELSE <<S>>
           beside == IF Head(walk) = {d} THEN <<>> ELSE <<Head(walk) \ {d}>>
<1>2. <<>> \in Seq(SUBSET Dirs) /\ \A x \in SUBSET Dirs : <<x>> \in Seq(SUBSET Dirs)
  OBVIOUS
<1>3. deeper \in Seq(SUBSET Dirs)
  BY <1>2, Zenon
<1>4. Head(walk) \ {d} \in SUBSET Dirs
  BY <1>1
<1>5. beside \in Seq(SUBSET Dirs)
  BY <1>2, <1>4, Zenon
<1>6. walk' = deeper \o beside \o Tail(walk)
  OBVIOUS
<1> HIDE DEF deeper, beside
<1>7. deeper \o beside \in Seq(SUBSET Dirs)
  BY <1>3, <1>5, ConcatProperties, Zenon
<1> QED
  BY <1>1, <1>6, <1>7, ConcatProperties, Zenon

\* Every step keeps the inspector's state well formed.
LEMMA ScanStep ==
    ASSUME QueueTyped, ScanTyped, [InspectorNext]_vars
    PROVE  ScanTyped'
<1>1. CASE UNCHANGED <<tree, scanVars>>
  BY <1>1 DEF ScanTyped, scanVars
<1>2. CASE Inspect
  <2>0. UNCHANGED tree
    BY <1>2 DEF Inspect
  <2>1. ASSUME NEW d \in Stations, Begins(d), todo' \subseteq {"index", "queues", "q"},
               snapshot' \in {{}, snapshot}
        PROVE  ScanTyped'
    <3>1. <<{d}>> \in Seq(SUBSET Dirs)
      BY DEF Stations, Dirs
    <3> QED
      BY <2>0, <2>1, <3>1 DEF Begins, Enter, ScanTyped, Stations
  <2>2. CASE Idle
    BY <2>0, <2>2 DEF Idle, ScanTyped
  <2>3. CASE Discover \/ NextStation
    BY <2>1, <2>2, <2>3, Beginnings
  <2>4. CASE Report
    <3>1. Role \in {"queue", "index", "wal", "unknown"}
      BY DEF Role
    <3> QED
      BY <2>0, <2>4, <3>1 DEF Report, ScanTyped
  <2>5. ASSUME NEW d \in Dirs, ReadDir(d) PROVE ScanTyped'
    <3>1. walk' \in Seq(SUBSET Dirs)
      BY <2>5, DirFacts, WalkTyped DEF ReadDir, ScanTyped
    <3> QED
      BY <2>0, <2>5, <3>1, DirFacts DEF ReadDir, ScanTyped
  <2>6. ASSUME NEW i \in Items, ReadLease(i) PROVE ScanTyped'
    <3>1. state = "walking"
      BY <2>6 DEF ReadLease, ScanTyped
    <3> QED
      BY <2>0, <2>6, <3>1 DEF ReadLease, ScanTyped
  <2> QED
    BY <1>2, <2>3, <2>4, <2>5, <2>6 DEF Inspect
<1> QED
  BY <1>1, <1>2 DEF InspectorNext, vars

\* An item noted stays known to the queue, and no station is left out.
LEMMA ToComeStep ==
    ASSUME QueueTyped, ScanTyped, ToCome, [InspectorNext]_vars,
           \A i : InQueue(i) => InQueue(i)',
           state = "reported" /\ station = "q" => todo = {}
    PROVE  ToCome'
<1>1. ASSUME start'.items = start.items, DOMAIN start' = DOMAIN start,
             state' # "idle" => state # "idle"
                /\ (station = "q" \/ "q" \in todo => station' = "q" \/ "q" \in todo')
      PROVE  ToCome'
  BY <1>1 DEF ToCome
<1>2. CASE Discover
  <2>1. UNCHANGED queueVars
    BY <1>2 DEF InspectorNext, Inspect, QueueStep, ClaimStep, Discover, Enter, scanVars, vars, Reach, Pass
  <2>2. start'.items = available \cup {s[1] : s \in settled}
    BY <1>2 DEF Discover
  <2>3. \A i : i \in start'.items => InQueue(i)
    BY <2>2 DEF InQueue
  <2>4. start'.items # {} => "q" \in StationDirs
    BY <2>2, StationFacts DEF ScanTyped
  <2>5. start'.items # {} => station' = "q" \/ "q" \in todo'
    BY <1>2, <2>4 DEF Discover, Enter
  <2>6. start'.items \subseteq Items
    BY <2>2 DEF QueueTyped
  <2>7. DOMAIN start' = {"items", "leases", "blind"}
    BY <1>2 DEF Discover
  <2> QED
    BY <2>3, <2>5, <2>6, <2>7 DEF ToCome
<1>3. CASE NextStation
  <2>1. CASE Idle
    BY <2>1 DEF Idle, ToCome
  <2>2. CASE Enter(First(todo)) /\ todo' = todo \ {First(todo)} /\ todo # {}
              /\ UNCHANGED start
    BY <1>1, <1>3, <2>2 DEF NextStation, Enter
  <2> QED
    BY <1>3, <2>1, <2>2 DEF NextStation
<1>4. CASE Report \/ \E i \in Items : ReadLease(i)
  BY <1>1, <1>4 DEF Report, ReadLease, ScanTyped
<1>5. ASSUME NEW d \in Dirs, ReadDir(d) PROVE ToCome'
  BY <1>1, <1>5 DEF ReadDir
<1>6. CASE UNCHANGED <<scanVars, start>>
  BY <1>1, <1>6 DEF scanVars
<1> QED
  BY <1>2, <1>3, <1>4, <1>5, <1>6 DEF InspectorNext, Inspect, vars

-------------------------------------------------------------------------------
(* The walk of a station that is no more than two levels deep *)

\* Reading d of the one level that is left
LEMMA WalkOne ==
    ASSUME NEW B, NEW d, NEW S, walk = <<B>>,
           walk' = (IF S = {} THEN <<>> ELSE <<S>>)
                     \o (IF Head(walk) = {d} THEN <<>> ELSE <<Head(walk) \ {d}>>) \o Tail(walk)
    PROVE  /\ S = {} /\ B = {d} => walk' = <<>>
           /\ S = {} /\ B # {d} => walk' = <<B \ {d}>>
           /\ S # {} /\ B = {d} => walk' = <<S>>
<1> DEFINE T == {S, B \ {d}}
<1>1. Head(walk) = B /\ Tail(walk) = <<>>
  OBVIOUS
<1>2. <<>> \in Seq(T) /\ <<S>> \in Seq(T) /\ <<B \ {d}>> \in Seq(T)
  OBVIOUS
<1>3. \A s \in Seq(T) : s \o <<>> = s /\ <<>> \o s = s
  BY ConcatEmptySeq, Zenon
<1> HIDE DEF T
<1>4. CASE S = {} /\ B = {d}
  <2>1. walk' = <<>> \o <<>> \o <<>>
    BY <1>1, <1>4, Zenon
  <2> QED
    BY <1>2, <1>3, <1>4, <2>1
<1>5. CASE S = {} /\ B # {d}
  <2>1. walk' = <<>> \o <<B \ {d}>> \o <<>>
    BY <1>1, <1>5, Zenon
  <2>2. <<>> \o <<B \ {d}>> = <<B \ {d}>> /\ <<B \ {d}>> \o <<>> = <<B \ {d}>>
    BY <1>2, <1>3, Zenon
  <2> QED
    BY <1>5, <2>1, <2>2, Zenon
<1>6. CASE S # {} /\ B = {d}
  <2>1. walk' = <<S>> \o <<>> \o <<>>
    BY <1>1, <1>6, Zenon
  <2>2. <<S>> \o <<>> = <<S>>
    BY <1>2, <1>3, Zenon
  <2> QED
    BY <1>6, <2>1, <2>2, Zenon
<1> QED
  BY <1>4, <1>5, <1>6

\* The index: its directory is read, and then its inbox.
LEMMA AtIndexStep ==
    ASSUME ScanTyped, AtIndex, [InspectorNext]_vars
    PROVE  AtIndex'
<1>1. UNCHANGED tree
  BY DEF InspectorNext, Inspect, vars
<1>2. UNCHANGED <<IndexMarked, Subdirs("index"), Current("index")>>
  BY <1>1 DEF IndexMarked, Subdirs, Current
<1>3. CASE Discover
  <2>1. /\ First(StationDirs) \in StationDirs
        /\ First(StationDirs) = "root" <=> "root" \in StationDirs
        /\ "index" \in StationDirs <=> IndexMarked
    BY FirstFacts, StationFacts DEF ScanTyped
  <2>2. /\ todo' = StationDirs \ {First(StationDirs)} /\ station' = First(StationDirs)
        /\ walk' = <<{First(StationDirs)}>> /\ names' = {}
    BY <1>3 DEF Discover, Enter
  <2> QED
    BY <1>1, <1>2, <2>1, <2>2 DEF AtIndex, IndexMarked
<1>4. CASE NextStation
  <2>1. CASE Idle
    BY <2>1 DEF Idle, AtIndex
  <2>2. CASE todo # {} /\ Enter(First(todo)) /\ todo' = todo \ {First(todo)}
    <3>1. First(todo) \in todo /\ First(todo) # "root"
      BY <2>2, FirstFacts DEF ScanTyped, Stations
    <3> QED
      BY <1>1, <1>2, <2>2, <3>1 DEF AtIndex, Enter
  <2> QED
    BY <1>4, <2>1, <2>2 DEF NextStation
<1>5. ASSUME NEW d \in Dirs, ReadDir(d) PROVE AtIndex'
  <2>1. /\ state = "walking" /\ walk # <<>> /\ d \in Head(walk)
        /\ UNCHANGED <<state, station, todo>>
        /\ names' = names \cup (Subdirs(d) \cap (QueueBuckets \cup {"inbox"})) \cup Current(d)
        /\ walk' = (IF Subdirs(d) = {} THEN <<>> ELSE <<Subdirs(d)>>)
                     \o (IF Head(walk) = {d} THEN <<>> ELSE <<Head(walk) \ {d}>>) \o Tail(walk)
    BY <1>5 DEF ReadDir
  <2>2. CASE station # "index"
    BY <1>1, <1>2, <2>1, <2>2 DEF AtIndex
  <2>3. CASE station = "index" /\ walk = <<{"index"}>> /\ names = {}
    <3>1. d = "index"
      BY <2>1, <2>3
    <3>2. Subdirs("index") = {"inbox"} \/ Subdirs("index") = {}
      BY DEF Subdirs
    <3>3. walk' = <<{"inbox"}>> \/ walk' = <<>>
      BY <2>1, <2>3, <3>1, <3>2, WalkOne
    <3>4. names' = Subdirs("index") \cup Current("index")
      BY <2>1, <2>3, <3>1, <3>2
    <3> QED
      BY <1>1, <1>2, <2>1, <2>3, <3>3, <3>4 DEF AtIndex
  <2>4. CASE station = "index" /\ walk = <<{"inbox"}>>
    <3>1. d = "inbox" /\ Subdirs(d) = {} /\ Current(d) = {}
      BY <2>1, <2>4 DEF Subdirs, Current
    <3>2. walk' = <<>>
      BY <2>1, <2>4, <3>1, WalkOne
    <3>3. names' = names
      BY <2>1, <3>1
    <3>4. walk # <<{"index"}>>
      BY <2>4
    <3> QED
      BY <1>1, <1>2, <2>1, <2>4, <3>2, <3>3, <3>4 DEF AtIndex
  <2> QED
    BY <2>1, <2>2, <2>3, <2>4 DEF AtIndex
<1>6. CASE Report
  BY <1>1, <1>2, <1>6 DEF Report, AtIndex
<1>7. ASSUME NEW i \in Items, ReadLease(i) PROVE AtIndex'
  BY <1>1, <1>2, <1>7 DEF ReadLease, AtIndex
<1>8. CASE UNCHANGED scanVars
  BY <1>1, <1>2, <1>8 DEF scanVars, AtIndex
<1> QED
  BY <1>3, <1>4, <1>5, <1>6, <1>7, <1>8 DEF InspectorNext, Inspect, vars

\* By the end of its walk the index has shown its marks.
LEMMA RoleOfIndex ==
    ASSUME tree \in Trees, AtIndex, state # "idle", station = "index", walk = <<>>
    PROVE  Role = IndexKind
<1>1. IndexMarked /\ names = Subdirs("index") \cup Current("index")
  BY DEF AtIndex
<1>2. tree.inbox \in BOOLEAN /\ tree.current \in BOOLEAN
  BY TreeAssumption
<1>3. CASE tree.current \/ tree.inbox
  <2>1. names \cap QueueBuckets = {} /\ names \cap IndexMarkers # {}
    BY <1>1, <1>2, <1>3 DEF Subdirs, Current, QueueBuckets, IndexMarkers
  <2> QED
    BY <1>3, <2>1 DEF Role, IndexKind
<1>4. CASE ~(tree.current \/ tree.inbox)
  <2>1. names = {} /\ station \in tree.sidecars
    BY <1>1, <1>4 DEF Subdirs, Current, IndexMarked
  <2> QED
    BY <1>4, <2>1 DEF Role, IndexKind
<1> QED
  BY <1>3, <1>4

\* No station found at the start is dropped before it is reported.
LEMMA ToldStep ==
    ASSUME ScanTyped, AtIndex, Told, [InspectorNext]_vars
    PROVE  Told'
<1>1. UNCHANGED tree
  BY DEF InspectorNext, Inspect, vars
<1>2. UNCHANGED <<IndexMarked, IndexKind>>
  BY <1>1 DEF IndexMarked, IndexKind
<1>3. CASE Discover
  <2>1. /\ First(StationDirs) \in StationDirs
        /\ First(StationDirs) = "root" <=> "root" \in StationDirs
        /\ "index" \in StationDirs <=> IndexMarked
        /\ "root" \in StationDirs /\ "root" \notin tree.sidecars => StationDirs = {"root"}
    BY FirstFacts, StationFacts DEF ScanTyped
  <2>2. /\ todo' = StationDirs \ {First(StationDirs)} /\ station' = First(StationDirs)
        /\ state' = "walking" /\ snapshot' = {}
    BY <1>3 DEF Discover, Enter
  <2> QED
    BY <1>1, <1>2, <2>1, <2>2 DEF Told
<1>4. CASE NextStation
  <2>1. CASE Idle
    BY <2>1 DEF Idle, Told
  <2>2. CASE state = "reported" /\ todo # {} /\ Enter(First(todo))
               /\ todo' = todo \ {First(todo)} /\ UNCHANGED snapshot
    <3>1. First(todo) \in todo /\ First(todo) # "root"
      BY <2>2, FirstFacts DEF ScanTyped, Stations
    <3>2. state' = "walking" /\ station' = First(todo)
      BY <2>2 DEF Enter
    <3> QED
      BY <1>1, <1>2, <2>2, <3>1, <3>2 DEF Told
  <2> QED
    BY <1>4, <2>1, <2>2 DEF NextStation
<1>5. CASE Report
  <2>1. /\ state = "walking" /\ state' = "reported" /\ walk = <<>>
        /\ snapshot' = snapshot \cup {<<station, Role>>}
        /\ UNCHANGED <<todo, station, names>>
    BY <1>5 DEF Report
  <2>2. Role' = Role
    BY <1>1, <2>1 DEF Role
  <2>3. station = "index" => Role = IndexKind
    BY <2>1, RoleOfIndex DEF ScanTyped
  <2>4. <<station, Role>>[1] = station
    OBVIOUS
  <2> QED
    BY <1>1, <1>2, <2>1, <2>2, <2>3, <2>4 DEF Told
<1>6. ASSUME state = "walking", UNCHANGED <<state, todo, station, snapshot>> PROVE Told'
  BY <1>1, <1>2, <1>6 DEF Told
<1>7. ASSUME NEW d \in Dirs, ReadDir(d) PROVE Told'
  BY <1>6, <1>7 DEF ReadDir
<1>8. ASSUME NEW i \in Items, ReadLease(i) PROVE Told'
  BY <1>6, <1>8 DEF ReadLease, ScanTyped
<1>9. CASE UNCHANGED scanVars
  <2>1. UNCHANGED <<state, todo, station, snapshot, Role>>
    BY <1>1, <1>9 DEF scanVars, Role
  <2> QED
    BY <1>1, <1>2, <2>1 DEF Told
<1> QED
  BY <1>3, <1>4, <1>5, <1>7, <1>8, <1>9 DEF InspectorNext, Inspect, vars

-------------------------------------------------------------------------------
(* The queue *)

\* q itself is read: if an item was there, so is pending, and it is ahead.
LEMMA ReadQueue ==
    ASSUME QueueTyped, OfTheQueue, Noted, ToCome, UNCHANGED <<claimVars, queueVars, due>>,
           ReadDir("q"), walk = <<{"q"}>>
    PROVE  /\ walk' = <<>> \/ \E B \in SUBSET QueueBuckets : B # {} /\ walk' = <<B>>
           /\ Found'
<1>1. /\ walk' = (IF Subdirs("q") = {} THEN <<>> ELSE <<Subdirs("q")>>)
                     \o (IF Head(walk) = {"q"} THEN <<>> ELSE <<Head(walk) \ {"q"}>>) \o Tail(walk)
      /\ names' = names \cup (Subdirs("q") \cap (QueueBuckets \cup {"inbox"})) \cup Current("q")
      /\ start' = start
  BY DEF ReadDir
<1>2. Subdirs("q") = Buckets /\ Buckets \subseteq QueueBuckets
  BY DEF Subdirs, Buckets, QueueTyped, QueueBuckets
<1>3. IF Buckets = {} THEN walk' = <<>> ELSE walk' = <<Buckets>>
  BY <1>1, <1>2, WalkOne
<1>4. ASSUME NEW i, InQueue(i)
      PROVE  "pending" \in Buckets
  BY <1>4 DEF InQueue, Buckets
<1>5. "pending" \in Buckets => "pending" \in Ahead' /\ "pending" \in names'
  BY <1>1, <1>2, <1>3 DEF Ahead, QueueBuckets
<1>6. ASSUME NEW i \in Items, <<i, lease[i]>> \in start.leases PROVE "pending" \in Buckets
  <2>1. lease[i].st = "full"
    BY <1>6 DEF Noted
  <2> QED
    BY <1>4, <2>1 DEF OfTheQueue, Exists
<1>7. start.items # {} => "pending" \in Buckets
  BY <1>4 DEF ToCome
<1>8. lease' = lease
  BY DEF claimVars
<1>9. Found'
  BY <1>1, <1>5, <1>6, <1>7, <1>8 DEF Found, Accounted, Looked
<1> QED
  BY <1>2, <1>3, <1>9

\* A bucket is read: pending shows every item that waits and every lease, and of
\* an item that does not wait there is an outcome, ahead or blind; another bucket
\* shows the items that have come to rest there.
LEMMA ReadBucket ==
    ASSUME QueueTyped, ToCome, Found, UNCHANGED <<claimVars, queueVars, due>>,
           NEW B \in SUBSET QueueBuckets, walk = <<B>>, NEW d \in B, ReadDir(d),
           P!IInv, Noted
    PROVE  /\ walk' = <<>> \/ \E C \in SUBSET QueueBuckets : C # {} /\ walk' = <<C>>
           /\ Found'
<1>1. /\ walk' = (IF Subdirs(d) = {} THEN <<>> ELSE <<Subdirs(d)>>)
                     \o (IF Head(walk) = {d} THEN <<>> ELSE <<Head(walk) \ {d}>>) \o Tail(walk)
      /\ names' = names \cup (Subdirs(d) \cap (QueueBuckets \cup {"inbox"})) \cup Current(d)
      /\ listed' = listed \cup (ItemsIn(d) \X {d})
      /\ unread = {} /\ unread' = LeasesIn(d) /\ judged' = judged
      /\ start' = IF d = "pending"
                  THEN [start EXCEPT !.blind = QueueBuckets \ Head(walk)] ELSE start
  BY DEF ReadDir
<1>2. Subdirs(d) = {} /\ d \in QueueBuckets
  BY DEF Subdirs, QueueBuckets
<1>3. IF B = {d} THEN walk' = <<>> ELSE walk' = <<B \ {d}>>
  BY <1>1, <1>2, WalkOne
<1>4. Ahead = B /\ Ahead' = B \ {d}
  BY <1>3 DEF Ahead
<1>5. start'.items = start.items /\ start'.leases = start.leases /\ names \subseteq names'
  BY <1>1
<1>6. ASSUME NEW i \in start.items PROVE Accounted(i)'
  <2>1. CASE d = "pending"
    <3>1. CASE i \in available
      <4>1. <<i, "pending">> \in listed'
        BY <1>1, <2>1, <3>1 DEF ItemsIn
      <4> QED
        BY <4>1 DEF Accounted, QueueBuckets
    <3>2. CASE i \notin available
      <4>1. PICK s \in settled : s[1] = i
        BY <3>2 DEF ToCome, InQueue
      <4>2. s[2] \in {"completed", "failed"} /\ s = <<i, s[2]>>
        BY <4>1 DEF QueueTyped
      <4>3. start'.blind = QueueBuckets \ B
        BY <1>1, <2>1 DEF ToCome
      <4> QED
        BY <1>4, <2>1, <4>2, <4>3 DEF Accounted, QueueBuckets, queueVars
    <3> QED
      BY <3>1, <3>2
  <2>2. CASE d # "pending"
    <3>1. start' = start /\ settled' = settled /\ listed \subseteq listed'
      BY <1>1, <2>2 DEF queueVars
    <3>2. CASE "pending" \in B
      BY <1>4, <2>2, <3>2 DEF Accounted
    <3>3. CASE \E b \in QueueBuckets : <<i, b>> \in listed
      BY <3>1, <3>3 DEF Accounted
    <3>4. ASSUME NEW b \in QueueBuckets, <<i, b>> \in settled, b \in B \cup start.blind
          PROVE  Accounted(i)'
      <4>1. CASE b = d
        <5>1. <<i, b>> \in {s \in settled : s[2] = d} /\ <<i, b>>[1] = i
          BY <3>4, <4>1
        <5>2. i \in ItemsIn(d)
          BY <2>2, <5>1 DEF ItemsIn
        <5> QED
          BY <1>1, <1>2, <5>2 DEF Accounted
      <4>2. CASE b # d
        BY <1>4, <3>1, <3>4, <4>2 DEF Accounted
      <4> QED
        BY <4>1, <4>2
    <3> QED
      BY <1>4, <3>2, <3>3, <3>4 DEF Found, Accounted
  <2> QED
    BY <2>1, <2>2
<1>7. ASSUME NEW i \in Items, <<i, lease[i]>> \in start.leases, <<i, lease[i].tag>> \notin due
      PROVE  Looked(i)'
  <2>1. CASE d = "pending"
    <3>1. Exists(lease[i])
      BY <1>7 DEF Noted, Exists
    <3> QED
      BY <1>1, <2>1, <3>1 DEF Looked, LeasesIn
  <2>2. CASE d # "pending"
    BY <1>1, <1>4, <1>7, <2>2 DEF Found, Looked
  <2> QED
    BY <2>1, <2>2
<1>8. lease' = lease /\ due' = due
  BY DEF claimVars
<1>9. Found'
  BY <1>5, <1>6, <1>7, <1>8 DEF Found
<1> QED
  BY <1>3, <1>9

\* What the workers do undoes nothing of what the walk has found.
LEMMA WorkedFound ==
    ASSUME P!IInv, DueTyped, Noted, Found, [InspectorNext]_vars, UNCHANGED <<scanVars, start>>,
           settled \subseteq settled', due \subseteq due'
    PROVE  Found'
<1>1. UNCHANGED <<walk, unread, names, listed, judged, Ahead>>
  BY DEF scanVars, Ahead
<1>2. ASSUME NEW i \in start.items PROVE Accounted(i)'
  BY <1>1 DEF Found, Accounted
<1>3. ASSUME NEW i \in Items, <<i, lease'[i]>> \in start.leases,
             <<i, lease'[i].tag>> \notin due'
      PROVE  Looked(i)'
  <2>1. /\ lease'[i].st = "full" /\ lease'[i].tag <= issued[i] /\ lease'[i].tag # 0
        /\ lease[i].tag = lease'[i].tag => lease[i] = lease'[i]
    BY <1>3 DEF Noted
  <2>2. Moves(i) /\ issued[i] \in Nat
    BY LeaseMoves, ClaimFacts, TagsAssumption
  <2>3. lease'[i] = lease[i]
    BY <2>1, <2>2 DEF Moves, Absent, Full
  <2> QED
    BY <1>1, <1>3, <2>3 DEF Found, Looked
<1> QED
  BY <1>1, <1>2, <1>3 DEF Found

\* Whatever comes between two readings, the walk of the queue loses nothing.
LEMMA AtQueueStep ==
    ASSUME P!IInv, QueueTyped, OfTheQueue, DueTyped, ScanTyped, Noted, ToCome, AtQueue,
           [InspectorNext]_vars, settled \subseteq settled', due \subseteq due'
    PROVE  AtQueue'
<1>1. CASE Inspect
  <2>1. UNCHANGED <<claimVars, queueVars, due>>
    BY <1>1 DEF Inspect
  <2>2. CASE Discover \/ NextStation
    <3>1. CASE Idle
      BY <3>1 DEF Idle, AtQueue
    <3>2. ASSUME NEW d \in Stations, Begins(d), d = "q" => todo' = {} PROVE AtQueue'
      BY <3>2 DEF Begins, Enter, AtQueue
    <3> QED
      BY <2>2, <3>1, <3>2, Beginnings
  <2>3. CASE Report
    <3>1. UNCHANGED <<todo, station, walk, unread, names, listed, judged, start>>
          /\ state # "idle" /\ lease' = lease /\ due' = due /\ settled' = settled
      BY <2>1, <2>3 DEF Report, claimVars, queueVars
    <3> QED
      BY <3>1 DEF AtQueue, Found, Accounted, Looked, Ahead
  <2>4. ASSUME NEW j \in Items, ReadLease(j) PROVE AtQueue'
    <3>1. /\ UNCHANGED <<state, todo, station, walk, names, listed, start>>
          /\ lease' = lease /\ due' = due /\ settled' = settled
      BY <2>1, <2>4 DEF ReadLease, claimVars, queueVars
    <3>2. ASSUME Found PROVE Found'
      <4>1. ASSUME NEW i \in start.items PROVE Accounted(i)'
        BY <3>1, <3>2 DEF Found, Accounted, Ahead
      <4>2. ASSUME NEW i \in Items, <<i, lease[i]>> \in start.leases,
                   <<i, lease[i].tag>> \notin due
            PROVE  Looked(i)'
        <5>1. Looked(i)
          BY <3>2, <4>2 DEF Found
        <5>2. i = j => <<i, "active">> \in judged'
          BY <2>4, <4>2 DEF ReadLease
        <5>3. unread \ {j} \subseteq unread' /\ judged \subseteq judged'
          BY <2>4 DEF ReadLease
        <5> QED
          BY <3>1, <5>1, <5>2, <5>3 DEF Looked, Ahead
      <4> QED
        BY <3>1, <3>2, <4>1, <4>2 DEF Found
    <3> QED
      BY <3>1, <3>2 DEF AtQueue
  <2>5. ASSUME NEW d \in Dirs, ReadDir(d) PROVE AtQueue'
    <3>1. /\ UNCHANGED <<state, todo, station>> /\ walk # <<>> /\ d \in Head(walk)
          /\ state = "walking"
      BY <2>5 DEF ReadDir
    <3>2. CASE station # "q"
      BY <3>1, <3>2 DEF AtQueue
    <3>3. CASE station = "q" /\ walk = <<{"q"}>>
      <4>1. d = "q"
        BY <3>1, <3>3
      <4> QED
        BY <2>1, <2>5, <3>1, <3>3, <4>1, ReadQueue DEF AtQueue
    <3>4. ASSUME station = "q", NEW B \in SUBSET QueueBuckets, walk = <<B>>, Found
          PROVE  AtQueue'
      <4>1. d \in B
        BY <3>1, <3>4
      <4> QED
        BY <2>1, <2>5, <3>1, <3>4, <4>1, ReadBucket DEF AtQueue
    <3> QED
      BY <3>1, <3>2, <3>3, <3>4 DEF AtQueue
  <2> QED
    BY <1>1, <2>2, <2>3, <2>4, <2>5 DEF Inspect
<1>2. CASE UNCHANGED <<scanVars, start>>
  <2>1. Found => Found'
    BY <1>2, WorkedFound
  <2> QED
    BY <1>2, <2>1 DEF AtQueue, scanVars
<1> QED
  BY <1>1, <1>2 DEF InspectorNext, vars

-------------------------------------------------------------------------------
(* The theorems *)

\* The invariant holds at first: nothing in the queue, and the inspector idle.
LEMMA InitInvariant == InspectorInit => IInv
<1> SUFFICES ASSUME InspectorInit PROVE IInv
  OBVIOUS
<1>1. OfTheQueue
  BY ItemAssumption DEF InspectorInit, Claim!Init, OfTheQueue, Claim!Absent, Exists
<1>2. QueueTyped /\ DueTyped
  BY DEF InspectorInit, Claim!Init, Queue!Init, QueueTyped, DueTyped
<1>3. ScanTyped
  BY DEF InspectorInit, ScanTyped
<1>4. Noted /\ ToCome /\ AtQueue /\ Judged /\ AtIndex /\ Told
  BY DEF InspectorInit, Noted, ToCome, AtQueue, Judged, AtIndex, Told
<1> QED
  BY <1>1, <1>2, <1>3, <1>4 DEF IInv

\* Every step preserves it, given that of the lease protocol.
LEMMA NextInvariant ==
    ASSUME P!IInv, IInv, [InspectorNext]_vars
    PROVE  IInv'
<1> USE DEF IInv
<1>1. QueueTyped' /\ settled \subseteq settled' /\ \A i : InQueue(i) => InQueue(i)'
  BY QueueKeeps
<1>2. DueTyped' /\ due \subseteq due'
  BY DueStep
<1>3. state = "reported" /\ station = "q" => todo = {}
  BY DEF AtQueue
<1>4. OfTheQueue' /\ ScanTyped' /\ Noted' /\ Judged' /\ AtIndex' /\ Told'
  BY <1>2, OfTheQueueStep, ScanStep, NotedStep, JudgedStep, AtIndexStep, ToldStep
<1>5. ToCome'
  BY <1>1, <1>3, ToComeStep
<1>6. AtQueue'
  BY <1>1, <1>2, AtQueueStep
<1> QED
  BY <1>1, <1>2, <1>4, <1>5, <1>6

\* It therefore holds of every behaviour.
LEMMA InspectorSound == InspectorSpec => []IInv
<1>1. P!IInv /\ IInv /\ [InspectorNext]_vars => IInv'
  BY NextInvariant
<1> QED
  BY <1>1, InitInvariant, ClaimsSound, PTL DEF InspectorSpec

\* No step of inspect_root, inspect_station, the queue, its workers or the clock
\* takes the inspector's state out of its type: the snapshot is returned when
\* everything listed has been read.
THEOREM InspectorTyped == InspectorSpec => []TypeOK
<1>1. P!IInv /\ IInv => TypeOK
  <2> SUFFICES ASSUME P!IInv, IInv PROVE TypeOK
    OBVIOUS
  <2>1. Claim!TypeOK
    BY ClaimFacts
  <2>2. settled \subseteq Items \X QueueBuckets
    BY DEF IInv, QueueTyped, QueueBuckets
  <2>3. /\ {station} \cup todo \subseteq Dirs
        /\ snapshot \subseteq Dirs \X {"queue", "index", "wal", "unknown"}
    BY DEF IInv, ScanTyped, Dirs
  <2> QED
    BY <2>1, <2>2, <2>3 DEF IInv, QueueTyped, DueTyped, ScanTyped, TypeOK
<1> QED
  BY <1>1, ClaimsSound, InspectorSound, PTL

\* An item that was in the queue when the inspection began is counted in the
\* queue's snapshot, or has come to rest in a bucket that inspect_station had
\* passed, or did not know of, when it came to pending: no order of reading the
\* buckets and no work on the queue meanwhile loses another item.
THEOREM NothingIsMissed == InspectorSpec => []NothingMissed
<1>1. IInv => NothingMissed
  <2> SUFFICES ASSUME IInv, Over, NEW i \in start.items
               PROVE  /\ station = "q" /\ Role = "queue"
                      /\ \/ \E b \in QueueBuckets : <<i, b>> \in listed
                         \/ \E s \in settled : s[1] = i /\ s[2] \in start.blind
    BY DEF NothingMissed
  <2>1. state = "reported" /\ todo = {} /\ walk = <<>>
    BY DEF Over, IInv, ScanTyped
  <2>2. station = "q"
    BY <2>1 DEF IInv, ToCome
  <2>3. Found /\ Ahead = {}
    BY <2>1, <2>2 DEF IInv, AtQueue, Ahead
  <2>4. names \cap QueueBuckets # {}
    BY <2>3 DEF Found, QueueBuckets
  <2>5. Role = "queue"
    BY <2>4 DEF Role
  <2>6. CASE \E b \in QueueBuckets : <<i, b>> \in listed
    BY <2>2, <2>5, <2>6
  <2>7. ASSUME NEW b \in QueueBuckets, <<i, b>> \in settled, b \in start.blind
        PROVE  \E s \in settled : s[1] = i /\ s[2] \in start.blind
    <3>1. <<i, b>>[1] = i /\ <<i, b>>[2] = b
      OBVIOUS
    <3> QED
      BY <2>7, <3>1
  <2> QED
    BY <2>2, <2>3, <2>5, <2>6, <2>7 DEF Found, Accounted
<1> QED
  BY <1>1, InspectorSound, PTL

\* A lease with time left that is held throughout the inspection is reported
\* active, though it was read some time after it was listed, and no lease is
\* reported expired whose expires_at had not come: _read_lease tells a holder's
\* lease from an expired one whatever the other workers do to the other leases.
THEOREM HeldReportedActive == InspectorSpec => []HeldIsActive
<1>1. IInv => HeldIsActive
  <2> SUFFICES ASSUME IInv, state = "reported", station = "q", NEW i \in Items
               PROVE  /\ <<i, lease[i]>> \in start.leases /\ <<i, lease[i].tag>> \notin due
                            => <<i, "active">> \in judged
                      /\ <<i, "expired">> \in judged => \E t \in 1..MaxTags : <<i, t>> \in due
    BY DEF HeldIsActive
  <2>1. walk = <<>> /\ unread = {}
    BY DEF IInv, ScanTyped
  <2>2. Found /\ Ahead = {}
    BY <2>1 DEF IInv, AtQueue, Ahead
  <2> QED
    BY <2>1, <2>2 DEF Found, Looked, IInv, Judged
<1> QED
  BY <1>1, InspectorSound, PTL

\* By the time an inspection is over, discover_station_dirs has found the index by
\* any mark it has and the queue by its buckets if an item was there, no station
\* has been dropped on the way, and inspect_station has reported both as what they
\* are; a root without a sidecar was reported only if nothing else was.
THEOREM KindsAreTold == InspectorSpec => []KindsTold
<1>1. IInv => KindsTold
  <2> SUFFICES ASSUME IInv, Over PROVE KindsTold
    BY DEF KindsTold
  <2>1. state = "reported" /\ todo = {} /\ walk = <<>> /\ tree \in Trees
    BY DEF Over, IInv, ScanTyped
  <2>2. IndexMarked => <<"index", IndexKind>> \in snapshot
    BY <2>1 DEF IInv, Told
  <2>3. start.items # {} => <<"q", "queue">> \in snapshot
    <3> SUFFICES ASSUME start.items # {} PROVE <<"q", "queue">> \in snapshot
      OBVIOUS
    <3>1. station = "q"
      BY <2>1 DEF IInv, ToCome
    <3>2. Found
      BY <2>1, <3>1 DEF IInv, AtQueue
    <3>3. names \cap QueueBuckets # {}
      BY <3>2 DEF Found, QueueBuckets
    <3>4. Role = "queue"
      BY <3>3 DEF Role
    <3> QED
      BY <2>1, <3>1, <3>4 DEF IInv, Told
  <2>4. ASSUME NEW s \in snapshot, s[1] = "root", "root" \notin tree.sidecars
        PROVE  snapshot = {s}
    BY <2>1, <2>4 DEF IInv, Told
  <2> QED
    BY <2>2, <2>3, <2>4 DEF KindsTold, IndexMarked, IndexKind
<1> QED
  BY <1>1, InspectorSound, PTL
===============================================================================
