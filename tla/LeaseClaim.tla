------------------------------ MODULE LeaseClaim ------------------------------
(***************************************************************************)
(* The lease protocol of backends/claim.py over one lease path per item:   *)
(* acquire_lease (create-if-absent, else reclaim an expired lease by       *)
(* compare-and-swap), PathQueueEdge.renew, and the unconditional delete by *)
(* which complete, fail and the compactor drop a lease.  Every backend     *)
(* call is a step of its own, so that all interleavings of the workers'    *)
(* calls are behaviours.                                                   *)
(*                                                                         *)
(* Time is abstracted: the tags in dead[p] are those whose expires_at has  *)
(* passed, on the one clock all workers are taken to share, and Lapse may  *)
(* add any tag at any moment.                                              *)
(***************************************************************************)
EXTENDS PathBackend, FiniteSets

CONSTANTS Workers,      \* worker ids: each runs one call at a time
          Paths,        \* lease paths
          NoPath,       \* where a worker that is in no call stands
          MaxTags       \* bound: lease bodies ever placed on one path

ASSUME PathAssumption == NoPath \notin Paths
ASSUME TagsAssumption == MaxTags \in Nat

VARIABLES
    lease,   \* lease[p]: the cell at lease path p
    issued,  \* issued[p]: the last tag placed on p
    dead,    \* dead[p]: the tags placed on p whose expires_at has passed
    succ,    \* ghost: succ[p], pairs <<etag matched, tag placed>> of every swap
    pc,      \* pc[w]: the next backend call of worker w
    at,      \* at[w]: the path of w's call
    mine,    \* mine[w]: the tag of the lease w believes it holds, 0 for none
    seen     \* seen[w]: the tag w last read off the lease, then its etag

leaseVars == <<lease, issued, dead, succ>>
workerVars == <<pc, at, mine, seen>>
vars == <<lease, issued, dead, succ, pc, at, mine, seen>>

\* "idle" no call; "writing".."rename" inside a call; "held" acquired;
\* "lost" acquire_lease returns False; "raised" it raises
PCs == {"idle", "writing", "exists", "recreate", "read", "recheck", "etag",
        "swap", "put", "rename", "held", "lost", "raised", "deleting"}

TypeOK ==
    /\ lease \in [Paths -> Cell]
    /\ issued \in [Paths -> 0..MaxTags]
    /\ dead \in [Paths -> SUBSET (1..MaxTags)]
    /\ succ \in [Paths -> SUBSET ((0..MaxTags) \X (1..MaxTags))]
    /\ pc \in [Workers -> PCs]
    /\ at \in [Workers -> Paths \cup {NoPath}]
    /\ mine \in [Workers -> 0..MaxTags]
    /\ seen \in [Workers -> 0..MaxTags]

Init ==
    /\ lease = [p \in Paths |-> Absent]
    /\ issued = [p \in Paths |-> 0]
    /\ dead = [p \in Paths |-> {}]
    /\ succ = [p \in Paths |-> {}]
    /\ pc = [w \in Workers |-> "idle"]
    /\ at = [w \in Workers |-> NoPath]
    /\ mine = [w \in Workers |-> 0]
    /\ seen = [w \in Workers |-> 0]

-------------------------------------------------------------------------------
(* Steps shared by several calls *)

Goto(w, l) == pc' = [pc EXCEPT ![w] = l]

\* the body w places next on p; its expires_at lies in the future
Place(w, p, cell) ==
    /\ issued[p] < MaxTags
    /\ issued' = [issued EXCEPT ![p] = @ + 1]
    /\ lease' = [lease EXCEPT ![p] = cell]
    /\ mine' = [mine EXCEPT ![w] = issued[p] + 1]
    /\ seen' = [seen EXCEPT ![w] = 0]
    /\ UNCHANGED dead

\* a refused swap: acquire_lease returns False, renew returns False to a
\* worker that goes on believing in the lease it had
Refused(w) == IF mine[w] # 0 THEN "held" ELSE "lost"
Raised(w)  == IF mine[w] # 0 THEN "held" ELSE "raised"

\* mutant: a create that does not test for absence
CreateAlways(w, p, refused) ==
    /\ Place(w, p, Full(issued[p] + 1))
    /\ Goto(w, "held")
    /\ UNCHANGED succ

\* create_if_absent: the one test-and-set of the protocol
CreateIfAbsent(w, p, refused) ==
    \/ /\ ~Exists(lease[p])
       /\ Place(w, p, Created(issued[p] + 1))
       /\ Goto(w, IF Local THEN "writing" ELSE "held")
       /\ UNCHANGED succ
    \/ /\ Exists(lease[p])
       /\ Goto(w, refused)
       /\ UNCHANGED <<leaseVars, mine, seen>>

-------------------------------------------------------------------------------
(* acquire_lease *)

\* try_create_lease, the first call of acquire_lease
Try(w, p) ==
    /\ pc[w] = "idle"
    /\ at' = [at EXCEPT ![w] = p]
    /\ CreateIfAbsent(w, p, "exists")

\* local create_if_absent: write and fsync into the file just opened
Write(w) ==
    /\ pc[w] = "writing"
    /\ lease' = [lease EXCEPT ![at[w]] = Finished(@, mine[w])]
    /\ Goto(w, "held")
    /\ UNCHANGED <<issued, dead, succ, at, mine, seen>>

\* the write fails: unlink whatever file the path holds by now, re-raise
WriteFails(w) ==
    /\ pc[w] = "writing"
    /\ lease' = [lease EXCEPT ![at[w]] = Absent]
    /\ mine' = [mine EXCEPT ![w] = 0]
    /\ Goto(w, "raised")
    /\ UNCHANGED <<issued, dead, succ, at, seen>>

\* try_reclaim_lease: is there still a lease to reclaim?
CheckExists(w) ==
    /\ pc[w] = "exists"
    /\ Goto(w, IF Exists(lease[at[w]]) THEN "read" ELSE "recreate")
    /\ UNCHANGED <<leaseVars, at, mine, seen>>

\* it vanished: create it again, and give up if another worker was faster
Recreate(w) ==
    /\ pc[w] = "recreate"
    /\ CreateIfAbsent(w, at[w], "lost")
    /\ UNCHANGED at

\* mutant: any lease found is taken for an expired one
ReadTrustsNoLease(w) ==
    /\ pc[w] = "read"
    /\ Exists(lease[at[w]])
    /\ seen' = [seen EXCEPT ![w] = ETag(lease[at[w]])]
    /\ Goto(w, "etag")
    /\ UNCHANGED <<leaseVars, at, mine>>

\* mutant: a lease past its expiry is never taken over
ReadNeverExpires(w) ==
    /\ pc[w] = "read"
    /\ Goto(w, "lost")
    /\ UNCHANGED <<leaseVars, at, mine, seen>>

\* read the lease and judge its expiry.  A missing file is FileNotFoundError
\* locally and a ClientError on S3; a body that does not parse, as the empty
\* file does not, is never expired.
Read(w) ==
    LET c == lease[at[w]]
        expired == c.st = "full" /\ c.tag \in dead[at[w]]
    IN  /\ pc[w] = "read"
        /\ Goto(w, CASE ~Exists(c) -> IF Local THEN "recreate" ELSE "recheck"
                     [] Exists(c) /\ expired -> "etag"
                     [] OTHER -> "lost")
        /\ seen' = [seen EXCEPT ![w] = ETag(c)]
        /\ UNCHANGED <<leaseVars, at, mine>>

\* S3: the read raised; create if the lease is indeed gone, else re-raise
Recheck(w) ==
    /\ pc[w] = "recheck"
    /\ Goto(w, IF Exists(lease[at[w]]) THEN "raised" ELSE "recreate")
    /\ UNCHANGED <<leaseVars, at, mine, seen>>

\* the etag is fetched by a second call, after the expiry was judged.  With
\* the lease gone, reclaim falls back to the hash of the bytes it read, which
\* on S3 is no server etag; renew goes on without a condition.
FetchETag(w) ==
    LET c == lease[at[w]]
    IN  /\ pc[w] = "etag"
        /\ \/ /\ Exists(c)
              /\ seen' = [seen EXCEPT ![w] = ETag(c)]
              /\ Goto(w, "swap")
           \/ /\ ~Exists(c) /\ mine[w] = 0
              /\ seen' = [seen EXCEPT ![w] = IF Local THEN @ ELSE 0]
              /\ Goto(w, "swap")
           \/ /\ ~Exists(c) /\ mine[w] # 0
              /\ seen' = [seen EXCEPT ![w] = 0]
              /\ Goto(w, "put")
        /\ UNCHANGED <<leaseVars, at, mine>>

\* mutant: the PUT carries no If-Match
SwapUnconditional(w) ==
    /\ pc[w] = "swap"
    /\ Place(w, at[w], Full(issued[at[w]] + 1))
    /\ succ' = [succ EXCEPT ![at[w]] = @ \cup {<<seen[w], issued[at[w]] + 1>>}]
    /\ Goto(w, "held")
    /\ UNCHANGED at

\* replace_if_match under a condition.  S3 compares and puts in one step, and
\* answers a missing object with a 404 that is raised; the local backend only
\* compares here, and renames over the path in a step of its own.
Swap(w) ==
    LET p == at[w]
    IN  /\ pc[w] = "swap"
        /\ \/ /\ ~Exists(lease[p])
              /\ \/ Local /\ Goto(w, Refused(w))
                 \/ Goto(w, Raised(w))
              /\ UNCHANGED <<leaseVars, mine, seen>>
           \/ /\ Exists(lease[p]) /\ ETag(lease[p]) # seen[w]
              /\ Goto(w, Refused(w))
              /\ UNCHANGED <<leaseVars, mine, seen>>
           \/ /\ Exists(lease[p]) /\ ETag(lease[p]) = seen[w] /\ Local
              /\ Goto(w, "rename")
              /\ UNCHANGED <<leaseVars, mine, seen>>
           \/ /\ Exists(lease[p]) /\ ETag(lease[p]) = seen[w] /\ ~Local
              /\ Place(w, p, Full(issued[p] + 1))
              /\ succ' = [succ EXCEPT ![p] = @ \cup {<<seen[w], issued[p] + 1>>}]
              /\ Goto(w, "held")
        /\ UNCHANGED at

\* local replace_if_match, the write: a temporary file renamed over the path,
\* whatever the path holds by now
Rename(w) ==
    LET p == at[w]
    IN  /\ pc[w] = "rename"
        /\ Place(w, p, Full(issued[p] + 1))
        /\ succ' = [succ EXCEPT ![p] = @ \cup {<<seen[w], issued[p] + 1>>}]
        /\ Goto(w, "held")
        /\ UNCHANGED at

\* replace_if_match without a condition, which renew falls into when its lease
\* vanished before the etag was fetched: S3 puts, a local file must exist again
Put(w) ==
    LET p == at[w]
    IN  /\ pc[w] = "put"
        /\ \/ /\ ~Local
              /\ Place(w, p, Full(issued[p] + 1))
              /\ Goto(w, "held")
           \/ /\ Local
              /\ Goto(w, IF Exists(lease[p]) THEN "rename" ELSE "held")
              /\ UNCHANGED <<lease, issued, dead, mine, seen>>
        /\ UNCHANGED <<succ, at>>

-------------------------------------------------------------------------------
(* The holder's calls *)

\* PathQueueEdge.renew: the lease is looked up but not compared with the
\* worker's own; without a lease renew returns False and nothing changes
Renew(w) ==
    /\ pc[w] = "held"
    /\ Exists(lease[at[w]])
    /\ Goto(w, "etag")
    /\ UNCHANGED <<leaseVars, at, mine, seen>>

\* the call is over and nothing of it is remembered
Leave(w) ==
    /\ Goto(w, "idle")
    /\ at' = [at EXCEPT ![w] = NoPath]
    /\ mine' = [mine EXCEPT ![w] = 0]
    /\ seen' = [seen EXCEPT ![w] = 0]

\* the end of complete and fail: drop the lease, if there is one
FindLease(w) ==
    /\ pc[w] = "held"
    /\ IF Exists(lease[at[w]])
       THEN Goto(w, "deleting") /\ UNCHANGED <<at, mine, seen>>
       ELSE Leave(w)
    /\ UNCHANGED leaseVars

\* the delete carries no condition either: it takes whatever lease is there
DeleteLease(w) ==
    /\ pc[w] = "deleting"
    /\ lease' = [lease EXCEPT ![at[w]] = Absent]
    /\ Leave(w)
    /\ UNCHANGED <<issued, dead, succ>>

\* acquire_lease has returned False or raised
Return(w) ==
    /\ pc[w] \in {"lost", "raised"}
    /\ Leave(w)
    /\ UNCHANGED leaseVars

\* the worker crashes, or its caller leaves the lease behind: a call cut short
\* anywhere leaves what it has written
Abandon(w) ==
    /\ pc[w] \notin {"idle", "lost", "raised"}
    /\ Leave(w)
    /\ UNCHANGED leaseVars

-------------------------------------------------------------------------------
(* The clock *)

\* mutant: the file that is still empty passes for an expired lease
LapseOfEmpty(p) ==
    \E t \in 0..issued[p] :
        /\ t \notin dead[p]
        /\ dead' = [dead EXCEPT ![p] = @ \cup {t}]
        /\ UNCHANGED <<lease, issued, succ, workerVars>>

\* expires_at of one more lease body passes
Lapse(p) ==
    \E t \in 1..issued[p] :
        /\ t \notin dead[p]
        /\ dead' = [dead EXCEPT ![p] = @ \cup {t}]
        /\ UNCHANGED <<lease, issued, succ, workerVars>>

-------------------------------------------------------------------------------

\* the calls a worker has begun and goes on with
Step(w) ==
    \/ Write(w) \/ CheckExists(w) \/ Recreate(w) \/ Read(w) \/ Recheck(w)
    \/ FetchETag(w) \/ Swap(w) \/ Rename(w) \/ Put(w)
    \/ DeleteLease(w) \/ Return(w)

Work(w) ==
    \/ \E p \in Paths : Try(w, p)
    \/ Step(w)
    \/ WriteFails(w)
    \/ Renew(w)
    \/ FindLease(w)
    \/ Abandon(w)

\* every tag is spent and no lease is left to ask for: where the bound, not
\* the protocol, ends a behaviour
OutOfTags ==
    /\ \A p \in Paths : issued[p] = MaxTags /\ ~Exists(lease[p])
    /\ \A w \in Workers : pc[w] = "idle"
    /\ UNCHANGED vars

Next ==
    \/ \E w \in Workers : Work(w)
    \/ \E p \in Paths : Lapse(p)
    \/ OutOfTags

Spec == Init /\ [][Next]_vars

\* Workers poll, a call that was begun goes on, and time passes.  Nothing is
\* asked of a holder: it may keep its lease, or die, as long as it likes.
Fairness ==
    /\ \A w \in Workers : WF_vars(\E p \in Paths : Try(w, p)) /\ WF_vars(Step(w))
    /\ \A p \in Paths : WF_vars(Lapse(p))

FairSpec == Spec /\ Fairness

-------------------------------------------------------------------------------
(* Properties *)

\* workers that hold, or are just writing, a lease on p
Claimants(p) == {w \in Workers : at[w] = p /\ mine[w] # 0}

\* As long as no lease of a path has run past its expires_at, at most one
\* worker believes it holds the path, whatever the workers' calls of acquire,
\* renew and release interleave and whoever crashes (C2, on both backends).
ExclusiveUntilLapse ==
    \A p \in Paths : dead[p] = {} =>
        \A v, w \in Claimants(p) : v = w

\* ... and the lease file is still the one that worker placed: no other
\* worker's create, swap, failed write or release has touched it.
HolderKeepsLease ==
    \A p \in Paths : dead[p] = {} =>
        \A w \in Claimants(p) : Exists(lease[p]) /\ lease[p].tag = mine[w]

\* Two swaps never succeed on the same lease body: of all the workers that
\* saw a dead lease, one takes it over from its etag (C1).  Etag 0, the
\* empty file and the swap without a condition, is not a lease body.
OneSuccessor ==
    \A p \in Paths : \A a, b \in succ[p] :
        a[1] = b[1] /\ a[1] # 0 => a = b

\* A lease no worker believes in any more, its holder having crashed or left,
\* while the bound still has a tag for the next holder
Orphaned(p) ==
    /\ Exists(lease[p])
    /\ \A w \in Workers : at[w] = p => mine[w] # lease[p].tag
    /\ issued[p] < MaxTags

\* A lease left behind is taken over or removed in the end, unless workers go
\* on crashing for ever: a crashed holder costs its item one lease time and no
\* more (crash matrix of CONCURRENCY.md).
OrphansReclaimed ==
    <>[][\A w \in Workers : ~Abandon(w)]_vars =>
        \A p \in Paths : Orphaned(p) ~> ~Orphaned(p)

\* Two workers whose leases both have time left never hold the same path: what
\* C2 and C3 promise of any backend that has a compare-and-swap.
LiveLeaseIsExclusive ==
    \A p \in Paths : \A v, w \in Claimants(p) :
        mine[v] \notin dead[p] /\ mine[w] \notin dead[p] => v = w
===============================================================================
