--------------------------- MODULE LeaseClaimProofs ---------------------------
(***************************************************************************)
(* Proofs about LeaseClaim for any set of workers and paths, any bound on  *)
(* the tags and both backends.                                             *)
(***************************************************************************)
EXTENDS LeaseClaim, TLAPS

\* What the backend's operators make of a cell
LEMMA AbsentFacts == Absent \in Cell /\ ~Exists(Absent) /\ Absent.tag = 0
BY DEF Absent, Cell, Exists

LEMMA FullFacts ==
    ASSUME NEW t \in Nat
    PROVE  Full(t) \in Cell /\ Exists(Full(t)) /\ Full(t).tag = t
BY DEF Full, Cell, Exists

LEMMA CreatedFacts ==
    ASSUME NEW t \in Nat
    PROVE  Created(t) \in Cell /\ Exists(Created(t)) /\ Created(t).tag = t
BY DEF Created, Full, Empty, Cell, Exists

LEMMA FinishedFacts ==
    ASSUME NEW c \in Cell, NEW t \in Nat
    PROVE  /\ Finished(c, t) \in Cell
           /\ Finished(c, t).tag = c.tag
           /\ Exists(c) => Exists(Finished(c, t))
BY DEF Finished, Full, Empty, Cell, Exists

LEMMA ETagFacts ==
    ASSUME NEW c \in Cell
    PROVE  ETag(c) \in Nat /\ ETag(c) <= c.tag
BY DEF ETag, Cell

\* Cells carry tags that were placed, and workers remember only such tags.
Placed ==
    /\ \A p \in Paths : lease[p].tag <= issued[p]
    /\ \A w \in Workers : at[w] \in Paths => mine[w] <= issued[at[w]]

\* A worker is on a path exactly during its calls, and claims nothing outside.
Standing ==
    \A w \in Workers : /\ pc[w] # "idle" <=> at[w] \in Paths
                       /\ at[w] \notin Paths => mine[w] = 0

\* No two workers claim a path by the same lease body.
Distinct ==
    \A v, w \in Workers :
        v # w /\ at[v] = at[w] /\ mine[v] # 0 => mine[v] # mine[w]

\* The calls of acquire_lease before any reclaim, and its failures
Asking == {"exists", "recreate", "read", "recheck", "lost", "raised"}

\* Without a lapse nobody gets past the expiry test of another's lease: who is
\* further than that has a lease of its own.
NoReclaim ==
    \A w \in Workers :
        at[w] \in Paths /\ dead[at[w]] = {} /\ mine[w] = 0 => pc[w] \in Asking

IInv == TypeOK /\ Placed /\ Standing /\ Distinct /\ NoReclaim /\ HolderKeepsLease

-------------------------------------------------------------------------------

\* Moving on to another call keeps the types.
LEMMA GotoTyped ==
    ASSUME TypeOK, NEW w \in Workers, NEW l \in PCs, Goto(w, l)
    PROVE  pc' \in [Workers -> PCs]
BY DEF TypeOK, Goto

\* Placing a body keeps the types and counts it.
LEMMA PlaceTyped ==
    ASSUME TypeOK, NEW w \in Workers, NEW p \in Paths, NEW cell \in Cell,
           Place(w, p, cell)
    PROVE  /\ issued[p] + 1 \in 1..MaxTags
           /\ lease' \in [Paths -> Cell]
           /\ issued' \in [Paths -> 0..MaxTags]
           /\ dead' \in [Paths -> SUBSET (1..MaxTags)]
           /\ mine' \in [Workers -> 0..MaxTags]
           /\ seen' \in [Workers -> 0..MaxTags]
<1>1. issued[p] + 1 \in 1..MaxTags
  BY TagsAssumption DEF TypeOK, Place
<1>2. lease' \in [Paths -> Cell] /\ dead' \in [Paths -> SUBSET (1..MaxTags)]
  BY DEF TypeOK, Place
<1>3. issued' \in [Paths -> 0..MaxTags]
  BY <1>1 DEF TypeOK, Place
<1>4. mine' \in [Workers -> 0..MaxTags]
  BY <1>1 DEF TypeOK, Place
<1>5. seen' \in [Workers -> 0..MaxTags]
  BY TagsAssumption DEF TypeOK, Place
<1> QED
  BY <1>1, <1>2, <1>3, <1>4, <1>5

\* A swap recorded keeps the type of the record.
LEMMA SuccTyped ==
    ASSUME TypeOK, NEW p \in Paths, NEW a \in 0..MaxTags, NEW b \in 1..MaxTags,
           succ' = [succ EXCEPT ![p] = @ \cup {<<a, b>>}]
    PROVE  succ' \in [Paths -> SUBSET ((0..MaxTags) \X (1..MaxTags))]
BY DEF TypeOK

\* An etag fits where a worker keeps it.
LEMMA ETagTyped ==
    ASSUME TypeOK, Placed, NEW p \in Paths
    PROVE  ETag(lease[p]) \in 0..MaxTags
<1>1. lease[p] \in Cell /\ issued[p] \in 0..MaxTags /\ lease[p].tag <= issued[p]
  BY DEF TypeOK, Placed
<1>2. lease[p].tag \in Nat
  BY <1>1 DEF Cell
<1>3. ETag(lease[p]) \in Nat /\ ETag(lease[p]) <= lease[p].tag
  BY <1>1, ETagFacts
<1> QED
  BY <1>1, <1>2, <1>3, TagsAssumption

\* create_if_absent keeps the types.
LEMMA CreateTyped ==
    ASSUME TypeOK, NEW w \in Workers, NEW p \in Paths, NEW l \in PCs,
           CreateIfAbsent(w, p, l), at' \in [Workers -> Paths \cup {NoPath}]
    PROVE  TypeOK'
<1>1. CASE ~Exists(lease[p]) /\ Place(w, p, Created(issued[p] + 1))
           /\ Goto(w, IF Local THEN "writing" ELSE "held") /\ UNCHANGED succ
  <2>1. issued[p] + 1 \in Nat
    BY TagsAssumption DEF TypeOK
  <2>2. Created(issued[p] + 1) \in Cell
    BY <2>1, CreatedFacts
  <2>3. (IF Local THEN "writing" ELSE "held") \in PCs
    BY DEF PCs
  <2>4. pc' \in [Workers -> PCs]
    BY <1>1, <2>3, GotoTyped
  <2>5. succ' \in [Paths -> SUBSET ((0..MaxTags) \X (1..MaxTags))]
    BY <1>1 DEF TypeOK
  <2> QED
    BY <1>1, <2>2, <2>4, <2>5, PlaceTyped DEF TypeOK
<1>2. CASE Exists(lease[p]) /\ Goto(w, l) /\ UNCHANGED <<leaseVars, mine, seen>>
  BY <1>2 DEF TypeOK, Goto, leaseVars
<1> QED
  BY <1>1, <1>2 DEF CreateIfAbsent

\* replace_if_match keeps the types.
LEMMA ReplaceTyped ==
    ASSUME TypeOK, NEW w \in Workers, at[w] \in Paths,
           Place(w, at[w], Full(issued[at[w]] + 1)),
           \/ succ' = [succ EXCEPT ![at[w]] = @ \cup {<<seen[w], issued[at[w]] + 1>>}]
           \/ UNCHANGED succ,
           Goto(w, "held"), UNCHANGED at
    PROVE  TypeOK'
<1>1. issued[at[w]] + 1 \in Nat /\ seen[w] \in 0..MaxTags /\ "held" \in PCs
  BY TagsAssumption DEF TypeOK, PCs
<1>2. Full(issued[at[w]] + 1) \in Cell
  BY <1>1, FullFacts
<1>3. pc' \in [Workers -> PCs]
  BY <1>1, GotoTyped
<1>4. issued[at[w]] + 1 \in 1..MaxTags
  BY <1>2, PlaceTyped
<1>5. succ' \in [Paths -> SUBSET ((0..MaxTags) \X (1..MaxTags))]
  BY <1>1, <1>4, SuccTyped DEF TypeOK
<1> QED
  BY <1>2, <1>3, <1>5, PlaceTyped DEF TypeOK

\* Leaving a call keeps the types.
LEMMA LeaveTyped ==
    ASSUME TypeOK, NEW w \in Workers, Leave(w)
    PROVE  /\ pc' \in [Workers -> PCs]
           /\ at' \in [Workers -> Paths \cup {NoPath}]
           /\ mine' \in [Workers -> 0..MaxTags]
           /\ seen' \in [Workers -> 0..MaxTags]
BY TagsAssumption DEF TypeOK, Leave, Goto, PCs

\* Every step keeps the types; that a worker inside a call stands on a path,
\* and that tags on a path have been placed there, is needed on the way.
LEMMA TypeStep ==
    ASSUME TypeOK, Placed, Standing, [Next]_vars
    PROVE  TypeOK'
<1>1. ASSUME NEW w \in Workers, NEW p \in Paths, Try(w, p) PROVE TypeOK'
  <2>1. "exists" \in PCs
    BY DEF PCs
  <2>2. at' \in [Workers -> Paths \cup {NoPath}]
    BY <1>1 DEF Try, TypeOK
  <2> QED
    BY <1>1, <2>1, <2>2, CreateTyped DEF Try
<1>2. ASSUME NEW w \in Workers, Step(w) PROVE TypeOK'
  <2>0. pc[w] # "idle"
    BY <1>2 DEF Step, Write, CheckExists, Recreate, Read, Recheck, FetchETag, Swap,
       Rename, Put, DeleteLease, Return
  <2>1. at[w] \in Paths /\ lease[at[w]] \in Cell /\ mine[w] \in 0..MaxTags
    BY <2>0 DEF Standing, TypeOK
  <2>2. ETag(lease[at[w]]) \in 0..MaxTags
    BY <2>1, ETagTyped
  <2>3. CASE Write(w)
    <3>1. Finished(lease[at[w]], mine[w]) \in Cell
      BY <2>1, FinishedFacts, TagsAssumption
    <3> QED
      BY <2>1, <2>3, <3>1 DEF Write, Goto, TypeOK, PCs
  <2>4. CASE CheckExists(w)
    BY <2>4 DEF CheckExists, Goto, leaseVars, TypeOK, PCs
  <2>5. CASE Recreate(w)
    <3>1. "lost" \in PCs
      BY DEF PCs
    <3>2. at' \in [Workers -> Paths \cup {NoPath}]
      BY <2>5 DEF Recreate, TypeOK
    <3> QED
      BY <2>1, <2>5, <3>1, <3>2, CreateTyped DEF Recreate
  <2>6. CASE Read(w)
    BY <2>2, <2>6 DEF Read, Goto, leaseVars, TypeOK, PCs
  <2>7. CASE Recheck(w)
    BY <2>7 DEF Recheck, Goto, leaseVars, TypeOK, PCs
  <2>8. CASE FetchETag(w)
    BY <2>2, <2>8, TagsAssumption DEF FetchETag, Goto, leaseVars, TypeOK, PCs
  <2>9. CASE Swap(w)
    <3>1. CASE UNCHANGED <<leaseVars, mine, seen>>
      <4>1. Refused(w) \in PCs /\ Raised(w) \in PCs /\ "rename" \in PCs /\ "held" \in PCs
        BY DEF Refused, Raised, PCs
      <4>2. pc' \in [Workers -> PCs]
        BY <2>9, <4>1, GotoTyped DEF Swap
      <4> QED
        BY <2>9, <3>1, <4>2 DEF Swap, leaseVars, TypeOK
    <3> QED
      BY <2>1, <2>9, <3>1, ReplaceTyped DEF Swap
  <2>10. CASE Rename(w)
    BY <2>1, <2>10, ReplaceTyped DEF Rename
  <2>11. CASE Put(w)
    <3>1. CASE UNCHANGED <<lease, issued, dead, mine, seen>>
      BY <2>11, <3>1 DEF Put, Goto, TypeOK, PCs
    <3> QED
      BY <2>1, <2>11, <3>1, ReplaceTyped DEF Put
  <2>12. CASE DeleteLease(w)
    <3>1. lease' \in [Paths -> Cell]
      BY <2>12, AbsentFacts DEF DeleteLease, TypeOK
    <3> QED
      BY <2>12, <3>1, LeaveTyped DEF DeleteLease, TypeOK
  <2>13. CASE Return(w)
    BY <2>13, LeaveTyped DEF Return, leaseVars, TypeOK
  <2> QED
    BY <1>2, <2>3, <2>4, <2>5, <2>6, <2>7, <2>8, <2>9, <2>10, <2>11, <2>12, <2>13
       DEF Step
<1>3. ASSUME NEW w \in Workers, WriteFails(w) PROVE TypeOK'
  <2>1. lease' \in [Paths -> Cell]
    BY <1>3, AbsentFacts DEF WriteFails, TypeOK
  <2>2. mine' \in [Workers -> 0..MaxTags] /\ pc' \in [Workers -> PCs]
    BY <1>3, TagsAssumption DEF WriteFails, Goto, TypeOK, PCs
  <2> QED
    BY <1>3, <2>1, <2>2 DEF WriteFails, TypeOK
<1>4. ASSUME NEW w \in Workers, Renew(w) PROVE TypeOK'
  BY <1>4 DEF Renew, Goto, leaseVars, TypeOK, PCs
<1>5. ASSUME NEW w \in Workers, FindLease(w) PROVE TypeOK'
  <2>1. CASE Leave(w)
    BY <1>5, <2>1, LeaveTyped DEF FindLease, leaseVars, TypeOK
  <2>2. CASE Goto(w, "deleting") /\ UNCHANGED <<at, mine, seen>>
    BY <1>5, <2>2 DEF FindLease, Goto, leaseVars, TypeOK, PCs
  <2> QED
    BY <1>5, <2>1, <2>2 DEF FindLease
<1>6. ASSUME NEW w \in Workers, Abandon(w) PROVE TypeOK'
  BY <1>6, LeaveTyped DEF Abandon, leaseVars, TypeOK
<1>7. ASSUME NEW p \in Paths, Lapse(p) PROVE TypeOK'
  <2>1. PICK t \in 1..issued[p] : dead' = [dead EXCEPT ![p] = @ \cup {t}]
    BY <1>7 DEF Lapse
  <2>2. t \in 1..MaxTags
    BY <2>1, TagsAssumption DEF TypeOK
  <2> QED
    BY <1>7, <2>1, <2>2 DEF Lapse, workerVars, TypeOK
<1>8. CASE UNCHANGED vars
  BY <1>8 DEF vars, TypeOK
<1> QED
  BY <1>1, <1>2, <1>3, <1>4, <1>5, <1>6, <1>7, <1>8 DEF Next, Work, OutOfTags

-------------------------------------------------------------------------------
(* The inductive invariant, by the four ways a step can bear on it *)

Rest == Placed /\ Standing /\ Distinct /\ NoReclaim /\ HolderKeepsLease

\* w goes on in its call and touches no lease.
LEMMA QuietStep ==
    ASSUME IInv, NEW w \in Workers, NEW l \in PCs,
           pc[w] # "idle", l # "idle", Goto(w, l),
           at[w] \in Paths /\ dead[at[w]] = {} /\ mine[w] = 0 => l \in Asking,
           UNCHANGED <<lease, issued, dead, at, mine>>
    PROVE  Rest'
<1> USE DEF IInv
<1>1. pc' = [pc EXCEPT ![w] = l] /\ pc \in [Workers -> PCs]
  BY DEF Goto, TypeOK
<1>2. Placed' /\ Distinct' /\ HolderKeepsLease'
  BY DEF Placed, Distinct, HolderKeepsLease, Claimants
<1>3. Standing'
  BY <1>1 DEF Standing
<1>4. NoReclaim'
  BY <1>1 DEF NoReclaim
<1> QED
  BY <1>2, <1>3, <1>4 DEF Rest

\* w leaves its call, and any lease it had.
LEMMA LeaveStep ==
    ASSUME IInv, NEW w \in Workers, Leave(w), UNCHANGED <<lease, issued, dead>>
    PROVE  Rest'
<1> USE PathAssumption DEF IInv
<1>1. /\ pc' = [pc EXCEPT ![w] = "idle"] /\ pc \in [Workers -> PCs]
      /\ at' = [at EXCEPT ![w] = NoPath] /\ at \in [Workers -> Paths \cup {NoPath}]
      /\ mine' = [mine EXCEPT ![w] = 0] /\ mine \in [Workers -> 0..MaxTags]
  BY DEF Leave, Goto, TypeOK
<1>2. Placed'
  BY <1>1 DEF Placed
<1>3. Standing'
  BY <1>1 DEF Standing
<1>4. Distinct'
  BY <1>1 DEF Distinct
<1>5. NoReclaim'
  BY <1>1 DEF NoReclaim
<1>6. HolderKeepsLease'
  BY <1>1 DEF HolderKeepsLease, Claimants
<1> QED
  BY <1>2, <1>3, <1>4, <1>5, <1>6 DEF Rest

\* w places the next body on p, where nobody else claims a lease that cannot
\* have lapsed.
LEMMA PlaceStep ==
    ASSUME IInv, NEW w \in Workers, NEW p \in Paths, NEW cell \in Cell, NEW l \in PCs,
           Place(w, p, cell), Exists(cell), cell.tag = issued[p] + 1,
           Goto(w, l), l # "idle",
           at' = [at EXCEPT ![w] = p], at[w] \in Paths => at[w] = p,
           dead[p] = {} => \A v \in Claimants(p) : v = w
    PROVE  Rest'
<1> USE DEF IInv
<1>1. /\ lease' = [lease EXCEPT ![p] = cell] /\ lease \in [Paths -> Cell]
      /\ issued' = [issued EXCEPT ![p] = @ + 1] /\ issued \in [Paths -> 0..MaxTags]
      /\ mine' = [mine EXCEPT ![w] = issued[p] + 1] /\ mine \in [Workers -> 0..MaxTags]
      /\ pc' = [pc EXCEPT ![w] = l] /\ pc \in [Workers -> PCs]
      /\ at \in [Workers -> Paths \cup {NoPath}]
      /\ dead' = dead
  BY DEF Place, Goto, TypeOK
<1>2. issued[p] \in Nat /\ issued[p] + 1 # 0
  BY <1>1, TagsAssumption
<1>3. Placed'
  <2>1. ASSUME NEW q \in Paths PROVE lease'[q].tag <= issued'[q]
    BY <1>1, <1>2 DEF Placed
  <2>2. ASSUME NEW v \in Workers, at'[v] \in Paths PROVE mine'[v] <= issued'[at'[v]]
    <3>1. CASE v = w
      BY <1>1, <1>2, <3>1
    <3>2. CASE v # w
      <4>1. at'[v] = at[v] /\ mine'[v] = mine[v] /\ mine[v] <= issued[at[v]]
        BY <1>1, <2>2, <3>2 DEF Placed
      <4>2. issued[at[v]] <= issued'[at[v]]
        BY <1>1, <1>2, <2>2, <4>1, TagsAssumption
      <4>3. mine[v] \in Nat /\ issued[at[v]] \in Nat /\ issued'[at[v]] \in Nat
        BY <1>1, <1>2, <2>2, <4>1, TagsAssumption
      <4> QED
        BY <4>1, <4>2, <4>3
    <3> QED
      BY <3>1, <3>2
  <2> QED
    BY <2>1, <2>2 DEF Placed
<1>4. Standing'
  BY <1>1, <1>2 DEF Standing
<1>5. Distinct'
  <2>1. ASSUME NEW v \in Workers, v # w, at'[v] = at'[w] PROVE mine'[v] # mine'[w]
    <3>1. at[v] = p /\ mine'[v] = mine[v] /\ mine'[w] = issued[p] + 1
      BY <1>1, <2>1
    <3>2. mine[v] <= issued[p] /\ mine[v] \in Nat
      BY <1>1, <3>1, TagsAssumption DEF Placed
    <3> QED
      BY <1>2, <3>1, <3>2
  <2> QED
    BY <1>1, <2>1 DEF Distinct
<1>6. NoReclaim'
  BY <1>1, <1>2 DEF NoReclaim
<1>7. HolderKeepsLease'
  <2> SUFFICES ASSUME NEW q \in Paths, dead'[q] = {}, NEW v \in Claimants(q)'
               PROVE  Exists(lease'[q]) /\ lease'[q].tag = mine'[v]
    BY DEF HolderKeepsLease
  <2>1. v \in Workers /\ at'[v] = q /\ mine'[v] # 0
    BY DEF Claimants
  <2>2. CASE v = w
    BY <1>1, <2>1, <2>2
  <2>3. CASE v # w
    <3>1. v \in Claimants(q) /\ mine'[v] = mine[v] /\ dead[q] = {}
      BY <1>1, <2>1, <2>3 DEF Claimants
    <3>2. q # p
      BY <2>3, <3>1
    <3> QED
      BY <1>1, <3>1, <3>2 DEF HolderKeepsLease
  <2> QED
    BY <2>2, <2>3
<1> QED
  BY <1>3, <1>4, <1>5, <1>6, <1>7 DEF Rest

\* Who is past the expiry test while nothing has lapsed is alone on its path.
LEMMA Alone ==
    ASSUME IInv, NEW w \in Workers, at[w] \in Paths, dead[at[w]] = {},
           pc[w] \notin Asking
    PROVE  \A v \in Claimants(at[w]) : v = w
<1>1. w \in Claimants(at[w])
  BY DEF IInv, NoReclaim, Claimants
<1>2. ASSUME NEW v \in Claimants(at[w]) PROVE v = w
  <2>1. lease[at[w]].tag = mine[w] /\ lease[at[w]].tag = mine[v]
    BY <1>1, <1>2 DEF IInv, HolderKeepsLease
  <2>2. v \in Workers /\ at[v] = at[w] /\ mine[v] # 0
    BY <1>2 DEF Claimants
  <2> QED
    BY <2>1, <2>2 DEF IInv, Distinct
<1> QED
  BY <1>2

\* Where nothing has lapsed and no lease file exists, nobody claims one.
LEMMA AbsentUnclaimed ==
    ASSUME IInv, NEW p \in Paths, dead[p] = {}, ~Exists(lease[p])
    PROVE  Claimants(p) = {}
BY DEF IInv, HolderKeepsLease, Claimants

\* w begins a call on p and finds a lease there.
LEMMA JoinStep ==
    ASSUME IInv, NEW w \in Workers, NEW p \in Paths, pc[w] = "idle",
           at' = [at EXCEPT ![w] = p], Goto(w, "exists"),
           UNCHANGED <<lease, issued, dead, mine>>
    PROVE  Rest'
<1> USE DEF IInv
<1>1. /\ pc' = [pc EXCEPT ![w] = "exists"] /\ pc \in [Workers -> PCs]
      /\ at \in [Workers -> Paths \cup {NoPath}] /\ mine[w] = 0
      /\ issued \in [Paths -> 0..MaxTags]
  BY DEF Goto, TypeOK, Standing
<1>2. Placed'
  BY <1>1, TagsAssumption DEF Placed
<1>3. Standing'
  BY <1>1 DEF Standing
<1>4. Distinct'
  BY <1>1 DEF Distinct
<1>5. NoReclaim'
  BY <1>1 DEF NoReclaim, Asking
<1>6. HolderKeepsLease'
  BY <1>1 DEF HolderKeepsLease, Claimants
<1> QED
  BY <1>2, <1>3, <1>4, <1>5, <1>6 DEF Rest

\* create_if_absent preserves the invariant: it places a body only where no
\* lease file, and therefore no unexpired claim, is.
LEMMA CreateStep ==
    ASSUME IInv, NEW w \in Workers, NEW p \in Paths, ~Exists(lease[p]),
           Place(w, p, Created(issued[p] + 1)),
           Goto(w, IF Local THEN "writing" ELSE "held"),
           at' = [at EXCEPT ![w] = p], at[w] \in Paths => at[w] = p
    PROVE  Rest'
<1>1. issued[p] + 1 \in Nat
  BY TagsAssumption DEF IInv, TypeOK
<1>2. /\ Created(issued[p] + 1) \in Cell /\ Exists(Created(issued[p] + 1))
      /\ Created(issued[p] + 1).tag = issued[p] + 1
  BY <1>1, CreatedFacts
<1>3. dead[p] = {} => \A v \in Claimants(p) : v = w
  BY AbsentUnclaimed
<1>4. PICK l \in PCs : l = (IF Local THEN "writing" ELSE "held")
  BY DEF PCs
<1>5. l # "idle" /\ Goto(w, l)
  BY <1>4
<1> QED
  BY <1>2, <1>3, <1>5, PlaceStep

\* replace_if_match preserves the invariant: whoever has come that far without
\* a lapse renews its own lease.
LEMMA ReplaceStep ==
    ASSUME IInv, NEW w \in Workers, at[w] \in Paths, pc[w] \notin Asking,
           Place(w, at[w], Full(issued[at[w]] + 1)), Goto(w, "held"), UNCHANGED at
    PROVE  Rest'
<1>1. issued[at[w]] + 1 \in Nat /\ at' = [at EXCEPT ![w] = at[w]]
  BY TagsAssumption DEF IInv, TypeOK
<1>2. /\ Full(issued[at[w]] + 1) \in Cell /\ Exists(Full(issued[at[w]] + 1))
      /\ Full(issued[at[w]] + 1).tag = issued[at[w]] + 1
  BY <1>1, FullFacts
<1>3. dead[at[w]] = {} => \A v \in Claimants(at[w]) : v = w
  BY Alone
<1>4. "held" \in PCs /\ "held" # "idle"
  BY DEF PCs
<1> QED
  BY <1>1, <1>2, <1>3, <1>4, PlaceStep

\* w writes the body into the file it opened.
LEMMA WriteStep ==
    ASSUME IInv, NEW w \in Workers, Write(w)
    PROVE  Rest'
<1> USE DEF IInv
<1>1. /\ at[w] \in Paths /\ mine[w] \in Nat /\ lease[at[w]] \in Cell
      /\ pc' = [pc EXCEPT ![w] = "held"] /\ pc \in [Workers -> PCs] /\ pc[w] = "writing"
      /\ lease' = [lease EXCEPT ![at[w]] = Finished(lease[at[w]], mine[w])]
      /\ lease \in [Paths -> Cell]
      /\ UNCHANGED <<issued, dead, at, mine>>
  BY TagsAssumption DEF Write, Goto, TypeOK, Standing
<1>2. \A p \in Paths : /\ lease'[p].tag = lease[p].tag
                       /\ Exists(lease[p]) => Exists(lease'[p])
  BY <1>1, FinishedFacts
<1>3. Placed'
  BY <1>1, <1>2 DEF Placed
<1>4. Standing' /\ Distinct'
  BY <1>1 DEF Standing, Distinct
<1>5. NoReclaim'
  BY <1>1 DEF NoReclaim, Asking
<1>6. HolderKeepsLease'
  BY <1>1, <1>2 DEF HolderKeepsLease, Claimants
<1> QED
  BY <1>3, <1>4, <1>5, <1>6 DEF Rest

\* w removes the lease at its path, claims nothing any more and has failed or
\* left: if no lease has lapsed, the lease was its own.
LEMMA RemoveStep ==
    ASSUME IInv, NEW w \in Workers, at[w] \in Paths, pc[w] \notin Asking,
           lease' = [lease EXCEPT ![at[w]] = Absent],
           mine' = [mine EXCEPT ![w] = 0],
           \/ Goto(w, "raised") /\ UNCHANGED at
           \/ Goto(w, "idle") /\ at' = [at EXCEPT ![w] = NoPath],
           UNCHANGED <<issued, dead>>
    PROVE  Rest'
<1> USE PathAssumption DEF IInv
<1>1. /\ lease \in [Paths -> Cell] /\ mine \in [Workers -> 0..MaxTags]
      /\ issued \in [Paths -> 0..MaxTags]
      /\ pc \in [Workers -> PCs] /\ at \in [Workers -> Paths \cup {NoPath}]
      /\ \A v \in Workers : v # w => pc'[v] = pc[v] /\ at'[v] = at[v] /\ mine'[v] = mine[v]
      /\ mine'[w] = 0
  BY DEF TypeOK, Goto
<1>2. \/ pc'[w] = "raised" /\ at'[w] = at[w]
      \/ pc'[w] = "idle" /\ at'[w] = NoPath
  BY <1>1 DEF Goto
<1>3. Placed'
  BY <1>1, <1>2, AbsentFacts, TagsAssumption DEF Placed
<1>4. Standing'
  BY <1>1, <1>2 DEF Standing
<1>5. Distinct'
  BY <1>1 DEF Distinct
<1>6. NoReclaim'
  BY <1>1, <1>2 DEF NoReclaim, Asking
<1>7. HolderKeepsLease'
  <2> SUFFICES ASSUME NEW q \in Paths, dead'[q] = {}, NEW v \in Claimants(q)'
               PROVE  Exists(lease'[q]) /\ lease'[q].tag = mine'[v]
    BY DEF HolderKeepsLease
  <2>1. v \in Workers /\ v # w /\ at[v] = q /\ mine[v] # 0 /\ mine'[v] = mine[v]
    BY <1>1 DEF Claimants
  <2>2. v \in Claimants(q) /\ dead[q] = {}
    BY <2>1 DEF Claimants
  <2>3. q # at[w]
    BY <2>1, <2>2, Alone
  <2> QED
    BY <1>1, <2>1, <2>2, <2>3 DEF HolderKeepsLease
<1> QED
  BY <1>3, <1>4, <1>5, <1>6, <1>7 DEF Rest

\* A lease lapses: the claims on its path are excused.
LEMMA LapseStep ==
    ASSUME IInv, NEW p \in Paths, Lapse(p)
    PROVE  Rest'
<1> USE DEF IInv
<1>1. /\ \A q \in Paths : dead'[q] = {} => dead[q] = {}
      /\ UNCHANGED <<lease, issued, pc, at, mine>>
  BY DEF Lapse, workerVars, TypeOK
<1>2. Placed' /\ Standing' /\ Distinct'
  BY <1>1 DEF Placed, Standing, Distinct
<1>3. NoReclaim' /\ HolderKeepsLease'
  BY <1>1 DEF NoReclaim, HolderKeepsLease, Claimants
<1> QED
  BY <1>2, <1>3 DEF Rest

\* Every step preserves the invariant.
LEMMA RestStep ==
    ASSUME IInv, [Next]_vars
    PROVE  Rest'
<1>1. ASSUME NEW w \in Workers, NEW p \in Paths, Try(w, p) PROVE Rest'
  <2>1. pc[w] = "idle" /\ at' = [at EXCEPT ![w] = p] /\ at[w] \notin Paths
    BY <1>1 DEF Try, IInv, Standing
  <2>2. CASE Exists(lease[p])
    <3>1. Goto(w, "exists") /\ UNCHANGED <<lease, issued, dead, mine>>
      BY <1>1, <2>2 DEF Try, CreateIfAbsent, leaseVars
    <3> QED
      BY <2>1, <3>1, JoinStep
  <2>3. CASE ~Exists(lease[p])
    <3>1. Place(w, p, Created(issued[p] + 1))
          /\ Goto(w, IF Local THEN "writing" ELSE "held")
      BY <1>1, <2>3 DEF Try, CreateIfAbsent
    <3> QED
      BY <2>1, <2>3, <3>1, CreateStep
  <2> QED
    BY <2>2, <2>3
<1>2. ASSUME NEW w \in Workers, Step(w) PROVE Rest'
  <2>1. at[w] \in Paths /\ pc[w] # "idle"
    BY <1>2 DEF IInv, Standing, Step, Write, CheckExists, Recreate, Read, Recheck,
       FetchETag, Swap, Rename, Put, DeleteLease, Return
  <2>2. at' = at => at' = [at EXCEPT ![w] = at[w]]
    BY DEF IInv, TypeOK
  <2>3. CASE Write(w)
    BY <2>3, WriteStep
  <2>4. CASE CheckExists(w)
    <3>1. PICK l \in {"read", "recreate"} : Goto(w, l)
      BY <2>4 DEF CheckExists
    <3> QED
      BY <2>1, <2>4, <3>1, QuietStep DEF CheckExists, leaseVars, PCs, Asking
  <2>5. CASE Recreate(w)
    <3>1. CASE Exists(lease[at[w]])
      <4>1. Goto(w, "lost") /\ UNCHANGED <<lease, issued, dead, at, mine>>
        BY <2>5, <3>1 DEF Recreate, CreateIfAbsent, leaseVars
      <4> QED
        BY <2>1, <4>1, QuietStep DEF PCs, Asking
    <3>2. CASE ~Exists(lease[at[w]])
      BY <2>1, <2>2, <2>5, <3>2, CreateStep DEF Recreate, CreateIfAbsent
    <3> QED
      BY <3>1, <3>2
  <2>6. CASE Read(w)
    <3>1. PICK l \in {"recreate", "recheck", "etag", "lost"} :
              Goto(w, l) /\ (dead[at[w]] = {} => l # "etag")
      BY <2>6 DEF Read
    <3> QED
      BY <2>1, <2>6, <3>1, QuietStep DEF Read, leaseVars, PCs, Asking
  <2>7. CASE Recheck(w)
    <3>1. PICK l \in {"raised", "recreate"} : Goto(w, l)
      BY <2>7 DEF Recheck
    <3> QED
      BY <2>1, <2>7, <3>1, QuietStep DEF Recheck, leaseVars, PCs, Asking
  <2>8. CASE FetchETag(w)
    <3>1. PICK l \in {"swap", "put"} : Goto(w, l)
      BY <2>8 DEF FetchETag
    <3>2. dead[at[w]] = {} => mine[w] # 0
      BY <2>1, <2>8 DEF FetchETag, IInv, NoReclaim, Asking
    <3> QED
      BY <2>1, <2>8, <3>1, <3>2, QuietStep DEF FetchETag, leaseVars, PCs
  <2>9. CASE Swap(w)
    <3>1. pc[w] \notin Asking /\ (dead[at[w]] = {} => mine[w] # 0)
      BY <2>1, <2>9 DEF Swap, IInv, NoReclaim, Asking
    <3>2. CASE UNCHANGED <<leaseVars, mine, seen>>
      <4>1. PICK l \in {"lost", "raised", "held", "rename"} : Goto(w, l)
        BY <2>9 DEF Swap, Refused, Raised
      <4> QED
        BY <2>1, <2>9, <3>1, <3>2, <4>1, QuietStep DEF Swap, leaseVars, PCs
    <3> QED
      BY <2>1, <2>9, <3>1, <3>2, ReplaceStep DEF Swap
  <2>10. CASE Rename(w)
    BY <2>1, <2>10, ReplaceStep DEF Rename, Asking
  <2>11. CASE Put(w)
    <3>1. pc[w] \notin Asking /\ (dead[at[w]] = {} => mine[w] # 0)
      BY <2>1, <2>11 DEF Put, IInv, NoReclaim, Asking
    <3>2. CASE UNCHANGED <<lease, issued, dead, mine, seen>>
      <4>1. PICK l \in {"held", "rename"} : Goto(w, l)
        BY <2>11 DEF Put
      <4> QED
        BY <2>1, <2>11, <3>1, <3>2, <4>1, QuietStep DEF Put, PCs
    <3> QED
      BY <2>1, <2>11, <3>1, <3>2, ReplaceStep DEF Put
  <2>12. CASE DeleteLease(w)
    <3>1. pc[w] \notin Asking
      BY <2>12 DEF DeleteLease, Asking
    <3> QED
      BY <2>1, <2>12, <3>1, RemoveStep DEF DeleteLease, Leave
  <2>13. CASE Return(w)
    BY <2>13, LeaveStep DEF Return, leaseVars
  <2> QED
    BY <1>2, <2>3, <2>4, <2>5, <2>6, <2>7, <2>8, <2>9, <2>10, <2>11, <2>12, <2>13
       DEF Step
<1>3. ASSUME NEW w \in Workers, WriteFails(w) PROVE Rest'
  <2>1. at[w] \in Paths /\ pc[w] \notin Asking
    BY <1>3 DEF WriteFails, IInv, Standing, Asking
  <2> QED
    BY <1>3, <2>1, RemoveStep DEF WriteFails
<1>4. ASSUME NEW w \in Workers, Renew(w) PROVE Rest'
  <2>1. dead[at[w]] = {} => ~(at[w] \in Paths /\ mine[w] = 0)
    BY <1>4 DEF Renew, IInv, NoReclaim, Asking
  <2> QED
    BY <1>4, <2>1, QuietStep DEF Renew, leaseVars, PCs
<1>5. ASSUME NEW w \in Workers, FindLease(w) PROVE Rest'
  <2>1. dead[at[w]] = {} => ~(at[w] \in Paths /\ mine[w] = 0)
    BY <1>5 DEF FindLease, IInv, NoReclaim, Asking
  <2>2. CASE Leave(w)
    BY <1>5, <2>2, LeaveStep DEF FindLease, leaseVars
  <2>3. CASE Goto(w, "deleting") /\ UNCHANGED <<at, mine, seen>>
    BY <1>5, <2>1, <2>3, QuietStep DEF FindLease, leaseVars, PCs
  <2> QED
    BY <1>5, <2>2, <2>3 DEF FindLease
<1>6. ASSUME NEW w \in Workers, Abandon(w) PROVE Rest'
  BY <1>6, LeaveStep DEF Abandon, leaseVars
<1>7. ASSUME NEW p \in Paths, Lapse(p) PROVE Rest'
  BY <1>7, LapseStep
<1>8. CASE UNCHANGED vars
  BY <1>8 DEF vars, IInv, Rest, Placed, Standing, Distinct, NoReclaim,
     HolderKeepsLease, Claimants
<1> QED
  BY <1>1, <1>2, <1>3, <1>4, <1>5, <1>6, <1>7, <1>8 DEF Next, Work, OutOfTags

-------------------------------------------------------------------------------
(* The theorems *)

\* The invariant holds at first: no lease, nobody in a call.
LEMMA InitInvariant == Init => IInv
<1> SUFFICES ASSUME Init PROVE IInv
  OBVIOUS
<1>1. TypeOK
  BY AbsentFacts, TagsAssumption DEF Init, TypeOK, PCs
<1>2. Placed /\ Standing /\ Distinct
  BY AbsentFacts, PathAssumption DEF Init, Placed, Standing, Distinct
<1>3. NoReclaim /\ HolderKeepsLease
  BY PathAssumption DEF Init, NoReclaim, HolderKeepsLease, Claimants
<1> QED
  BY <1>1, <1>2, <1>3 DEF IInv

\* Every step preserves it.
LEMMA NextInvariant == IInv /\ [Next]_vars => IInv'
<1> SUFFICES ASSUME IInv, [Next]_vars PROVE IInv'
  OBVIOUS
<1>1. TypeOK'
  BY TypeStep DEF IInv
<1>2. Rest'
  BY RestStep
<1> QED
  BY <1>1, <1>2 DEF IInv, Rest

\* It therefore holds of every behaviour.
LEMMA Invariance == Spec => []IInv
<1>1. Init => IInv
  BY InitInvariant
<1>2. IInv /\ [Next]_vars => IInv'
  BY NextInvariant
<1> QED
  BY <1>1, <1>2, PTL DEF Spec

\* No call of acquire_lease, renew or release ever takes a cell, a tag or a
\* program counter out of its type, for any number of workers and paths and
\* on either backend.
THEOREM TypeCorrect == Spec => []TypeOK
<1>1. IInv => TypeOK
  BY DEF IInv
<1> QED
  BY <1>1, Invariance, PTL

\* Until some lease of a path lapses, the lease file of a worker that believes
\* it holds the path is the one that worker placed: nothing acquire_lease,
\* renew, complete or fail does for another worker touches it.
THEOREM HolderKeeps == Spec => []HolderKeepsLease
<1>1. IInv => HolderKeepsLease
  BY DEF IInv
<1> QED
  BY <1>1, Invariance, PTL

\* Until some lease of a path lapses, one worker at most believes it holds the
\* path (C2), on either backend: two holders would hold the same lease file,
\* and no two of them placed the same body.
THEOREM Exclusive == Spec => []ExclusiveUntilLapse
<1>1. IInv => ExclusiveUntilLapse
  <2> SUFFICES ASSUME IInv, NEW p \in Paths, dead[p] = {},
                      NEW v \in Claimants(p), NEW w \in Claimants(p)
               PROVE  v = w
    BY DEF ExclusiveUntilLapse
  <2>1. mine[v] = mine[w]
    BY DEF IInv, HolderKeepsLease
  <2>2. v \in Workers /\ w \in Workers /\ at[v] = at[w] /\ mine[v] # 0
    BY DEF Claimants
  <2> QED
    BY <2>1, <2>2 DEF IInv, Distinct
<1> QED
  BY <1>1, Invariance, PTL

-------------------------------------------------------------------------------
(* On S3, where one request compares and puts, a lease has one successor *)

\* A body that was swapped away is not at the path any more, nor ever again:
\* bodies placed later have later tags.
Superseded ==
    \A p \in Paths : \A a \in succ[p] :
        a[1] # 0 => a[1] <= issued[p] /\ (Exists(lease[p]) => a[1] < lease[p].tag)

SInv == /\ \A w \in Workers : pc[w] # "rename"
        /\ Superseded
        /\ OneSuccessor

\* A step that places nothing leaves at most the bodies that were there.
LEMMA KeepSuperseded ==
    ASSUME IInv, SInv, UNCHANGED <<issued, succ>>,
           \A p \in Paths : Exists(lease'[p]) =>
               Exists(lease[p]) /\ lease'[p].tag = lease[p].tag
    PROVE  Superseded' /\ OneSuccessor'
BY DEF SInv, Superseded, OneSuccessor

\* A step that places a body and swaps none gives it a later tag.
LEMMA PlaceSuperseded ==
    ASSUME IInv, SInv, UNCHANGED succ, NEW w \in Workers, NEW p \in Paths,
           NEW cell \in Cell, Place(w, p, cell), cell.tag = issued[p] + 1
    PROVE  Superseded' /\ OneSuccessor'
<1>1. /\ lease' = [lease EXCEPT ![p] = cell] /\ lease \in [Paths -> Cell]
      /\ issued' = [issued EXCEPT ![p] = @ + 1] /\ issued \in [Paths -> 0..MaxTags]
      /\ succ \in [Paths -> SUBSET ((0..MaxTags) \X (1..MaxTags))]
  BY DEF Place, IInv, TypeOK
<1>2. ASSUME NEW q \in Paths, NEW a \in succ'[q], a[1] # 0
      PROVE  a[1] <= issued'[q] /\ (Exists(lease'[q]) => a[1] < lease'[q].tag)
  <2>1. a[1] <= issued[q] /\ (Exists(lease[q]) => a[1] < lease[q].tag)
    BY <1>2 DEF SInv, Superseded
  <2>2. a[1] \in Nat /\ issued[q] \in Nat
    BY <1>1, TagsAssumption
  <2>3. CASE q = p
    BY <1>1, <2>1, <2>2, <2>3
  <2>4. CASE q # p
    BY <1>1, <2>1, <2>4
  <2> QED
    BY <2>3, <2>4
<1>3. Superseded'
  BY <1>2 DEF Superseded
<1>4. OneSuccessor'
  BY DEF SInv, OneSuccessor
<1> QED
  BY <1>3, <1>4

\* A swap that compared and put in one step: the body it matched had no
\* successor yet.
LEMMA SwapSuperseded ==
    ASSUME IInv, SInv, NEW w \in Workers, NEW p \in Paths,
           Place(w, p, Full(issued[p] + 1)),
           Exists(lease[p]), ETag(lease[p]) = seen[w],
           succ' = [succ EXCEPT ![p] = @ \cup {<<seen[w], issued[p] + 1>>}]
    PROVE  Superseded' /\ OneSuccessor'
<1> DEFINE b == <<seen[w], issued[p] + 1>>
<1>1. /\ lease' = [lease EXCEPT ![p] = Full(issued[p] + 1)] /\ lease \in [Paths -> Cell]
      /\ issued' = [issued EXCEPT ![p] = @ + 1] /\ issued \in [Paths -> 0..MaxTags]
      /\ succ \in [Paths -> SUBSET ((0..MaxTags) \X (1..MaxTags))]
      /\ seen[w] \in Nat
  BY TagsAssumption DEF Place, IInv, TypeOK
<1>2. seen[w] # 0 => seen[w] = lease[p].tag /\ seen[w] <= issued[p]
  BY <1>1 DEF ETag, IInv, Placed
<1>3. issued[p] \in Nat /\ Full(issued[p] + 1).tag = issued[p] + 1
  BY <1>1, TagsAssumption, FullFacts
<1>4. ASSUME NEW q \in Paths, NEW a \in succ[q], a[1] # 0
      PROVE  /\ a[1] <= issued'[q] /\ (Exists(lease'[q]) => a[1] < lease'[q].tag)
             /\ q = p => a[1] # seen[w]
  <2>1. a[1] <= issued[q] /\ (Exists(lease[q]) => a[1] < lease[q].tag)
    BY <1>4 DEF SInv, Superseded
  <2>2. a[1] \in Nat /\ issued[q] \in Nat
    BY <1>1, TagsAssumption
  <2>3. CASE q = p
    BY <1>1, <1>2, <1>3, <1>4, <2>1, <2>2, <2>3
  <2>4. CASE q # p
    BY <1>1, <2>1, <2>4
  <2> QED
    BY <2>3, <2>4
<1>5. \A q \in Paths : \A a \in succ'[q] : a \in succ[q] \/ (q = p /\ a = b)
  BY <1>1
<1>6. Superseded'
  <2> SUFFICES ASSUME NEW q \in Paths, NEW a \in succ'[q], a[1] # 0
               PROVE  /\ a[1] <= issued'[q]
                      /\ Exists(lease'[q]) => a[1] < lease'[q].tag
    BY DEF Superseded
  <2>1. CASE a \in succ[q]
    BY <1>4, <2>1
  <2>2. CASE q = p /\ a = b
    <3>1. a[1] = seen[w] /\ seen[w] <= issued[p] /\ issued'[q] = issued[p] + 1
          /\ lease'[q] = Full(issued[p] + 1)
      BY <1>1, <1>2, <2>2
    <3> QED
      BY <1>1, <1>3, <3>1
  <2> QED
    BY <1>5, <2>1, <2>2
<1>7. OneSuccessor'
  <2> SUFFICES ASSUME NEW q \in Paths, NEW a \in succ'[q], NEW c \in succ'[q],
                      a[1] = c[1], a[1] # 0
               PROVE  a = c
    BY DEF OneSuccessor
  <2>1. CASE a \in succ[q] /\ c \in succ[q]
    BY <2>1 DEF SInv, OneSuccessor
  <2>2. CASE q = p /\ a = b
    BY <1>4, <1>5, <2>2
  <2>3. CASE q = p /\ c = b
    BY <1>4, <1>5, <2>3
  <2> QED
    BY <1>5, <2>1, <2>2, <2>3
<1> QED
  BY <1>6, <1>7

\* On S3 no step but Swap replaces a body under a condition.
LEMMA SuccessorStep ==
    ASSUME ~Local, IInv, SInv, [Next]_vars
    PROVE  SInv'
<1> USE DEF IInv
<1>1. \A w \in Workers : pc'[w] # "rename"
  <2> SUFFICES ASSUME NEW v \in Workers, pc'[v] = "rename" PROVE FALSE
    OBVIOUS
  <2>1. pc \in [Workers -> PCs] /\ pc[v] # "rename"
    BY DEF TypeOK, SInv
  <2>2. ASSUME NEW w \in Workers, NEW l \in {"writing", "held", "exists", "lost", "read",
          "recreate", "recheck", "etag", "swap", "put", "raised", "deleting", "idle"},
          Goto(w, l) PROVE FALSE
    BY <2>1, <2>2 DEF Goto
  <2>3. CASE UNCHANGED pc
    BY <2>1, <2>3
  <2> QED
    BY <2>2, <2>3 DEF Next, Work, Step, Try, Write, WriteFails, CheckExists, Recreate,
       Read, Recheck, FetchETag, Swap, Rename, Put, Renew, Leave, FindLease,
       DeleteLease, Return, Abandon, Lapse, OutOfTags, CreateIfAbsent, Refused,
       Raised, SInv, vars, workerVars
<1>2. \A w \in Workers : ~Rename(w)
  BY DEF Rename, SInv
<1>3. ASSUME NEW w \in Workers, NEW p \in Paths, NEW l \in PCs, CreateIfAbsent(w, p, l)
      PROVE  Superseded' /\ OneSuccessor'
  <2>1. CASE UNCHANGED leaseVars
    BY <2>1, KeepSuperseded DEF leaseVars
  <2>2. CASE Place(w, p, Created(issued[p] + 1)) /\ UNCHANGED succ
    <3>1. issued[p] + 1 \in Nat
      BY TagsAssumption DEF TypeOK
    <3> QED
      BY <2>2, <3>1, CreatedFacts, PlaceSuperseded
  <2> QED
    BY <1>3, <2>1, <2>2 DEF CreateIfAbsent, leaseVars
<1>4. ASSUME NEW w \in Workers, NEW p \in Paths, Try(w, p)
      PROVE  Superseded' /\ OneSuccessor'
  BY <1>3, <1>4 DEF Try, PCs
<1>5. ASSUME NEW w \in Workers, Step(w) PROVE Superseded' /\ OneSuccessor'
  <2>1. at[w] \in Paths
    BY <1>5 DEF Standing, Step, Write, CheckExists, Recreate, Read, Recheck,
       FetchETag, Swap, Rename, Put, DeleteLease, Return
  <2>2. issued[at[w]] + 1 \in Nat /\ lease \in [Paths -> Cell] /\ mine[w] \in Nat
    BY <2>1, TagsAssumption DEF TypeOK
  <2>3. CASE UNCHANGED leaseVars
    BY <2>3, KeepSuperseded DEF leaseVars
  <2>4. CASE Write(w)
    <3>1. ASSUME NEW p \in Paths, Exists(lease'[p])
          PROVE  Exists(lease[p]) /\ lease'[p].tag = lease[p].tag
      <4>1. lease'[p] = lease[p] \/ lease'[p] = Finished(lease[p], mine[w])
        BY <2>1, <2>2, <2>4 DEF Write
      <4> QED
        BY <2>2, <3>1, <4>1, FinishedFacts DEF Finished, Empty, Full, Exists
    <3> QED
      BY <2>4, <3>1, KeepSuperseded DEF Write
  <2>5. CASE Recreate(w)
    BY <1>3, <2>1, <2>5 DEF Recreate, PCs
  <2>6. CASE Swap(w)
    BY <2>1, <2>3, <2>6, SwapSuperseded DEF Swap, leaseVars
  <2>7. CASE Put(w)
    BY <2>1, <2>2, <2>7, FullFacts, PlaceSuperseded DEF Put
  <2>8. CASE DeleteLease(w)
    BY <2>1, <2>2, <2>8, AbsentFacts, KeepSuperseded DEF DeleteLease
  <2> QED
    BY <1>2, <1>5, <2>3, <2>4, <2>5, <2>6, <2>7, <2>8
       DEF Step, CheckExists, Read, Recheck, FetchETag, Return
<1>6. ASSUME NEW w \in Workers, WriteFails(w) PROVE Superseded' /\ OneSuccessor'
  BY <1>6, AbsentFacts, KeepSuperseded DEF WriteFails, TypeOK
<1>7. ASSUME UNCHANGED <<lease, issued, succ>> PROVE Superseded' /\ OneSuccessor'
  BY <1>7, KeepSuperseded
<1>8. Superseded' /\ OneSuccessor'
  BY <1>4, <1>5, <1>6, <1>7 DEF Next, Work, Renew, FindLease, Abandon, Lapse,
     OutOfTags, vars, leaseVars
<1> QED
  BY <1>1, <1>8 DEF SInv

\* No two swaps ever succeed on the same lease body (C1), on a backend that
\* compares and puts in one request.  The local backend does not: it compares
\* and then renames.
THEOREM SingleSuccessor == ~Local => (Spec => []OneSuccessor)
<1> SUFFICES ASSUME ~Local PROVE Spec => []OneSuccessor
  OBVIOUS
<1>1. Init => SInv
  BY DEF Init, SInv, Superseded, OneSuccessor
<1>2. IInv /\ SInv /\ [Next]_vars => SInv'
  BY SuccessorStep
<1>3. SInv => OneSuccessor
  BY DEF SInv
<1> QED
  BY <1>1, <1>2, <1>3, Invariance, PTL DEF Spec
===============================================================================
