--------------------------- MODULE CompactorProofs ---------------------------
(***************************************************************************)
(* Proofs about Compactor for any compactors, readers, ids and bounds, on  *)
(* both backends and in both modes.  What compactor.lock guarantees is     *)
(* taken from LeaseClaimProofs; what compact_once and hybrid_read need of  *)
(* it is that no two compactors run at once, which overlapped records.     *)
(***************************************************************************)
EXTENDS Compactor, TLAPS

P == INSTANCE LeaseClaimProofs WITH Workers <- Compactors, Paths <- {Lock}

-------------------------------------------------------------------------------
(* The lock is taken and given back by the lease protocol *)

LEMMA CycleClaims ==
    ASSUME NEW c \in Compactors, Cycle(c) \/ Crash(c)
    PROVE  Claim!Next \/ UNCHANGED claimVars
<1>1. ASSUME Claim!Work(c) PROVE Claim!Next
  BY <1>1 DEF Claim!Next
<1>2. CASE AcquireLock(c) \/ LockRefused(c)
  BY <1>1, <1>2 DEF AcquireLock, LockRefused, Claim!Work, Claim!Step
<1>3. CASE FindLock(c) \/ ReadLock(c) \/ DeleteLock(c) \/ Crash(c)
  BY <1>1, <1>3 DEF FindLock, ReadLock, DeleteLock, Crash, Claim!Work, Claim!Step
<1>4. CASE ReadMeta(c)
  BY <1>4 DEF ReadMeta
<1>5. CASE \/ ReadWatermark(c) \/ ListSources(c) \/ ReadSource(c) \/ SourcesRead(c)
           \/ ReadBase(c) \/ ReadCheckpoint(c) \/ WriteCheckpoint(c) \/ CheckCurrent(c)
           \/ FetchCurrentETag(c) \/ SwapCurrent(c) \/ RenameCurrent(c) \/ CreateCurrent(c)
           \/ WriteCurrent(c) \/ WriteCurrentFails(c) \/ AbandonCheckpoint(c)
           \/ DeleteSource(c) \/ ListCheckpoints(c) \/ DeleteCheckpoint(c) \/ CycleDone(c)
  BY <1>5 DEF ReadWatermark, ListSources, ReadSource, SourcesRead, ReadBase, ReadCheckpoint,
     WriteCheckpoint, CheckCurrent, FetchCurrentETag, SwapCurrent, RenameCurrent, CreateCurrent,
     WriteCurrent, WriteCurrentFails, AbandonCheckpoint, DeleteSource, ListCheckpoints,
     DeleteCheckpoint, CycleDone, CleanUp, CommitLost, Quit, Proceed
<1> QED
  BY <1>2, <1>3, <1>4, <1>5 DEF Cycle

\* What an append, a read and the clock leave alone
AppendStep(k) == AppendRecord(k) \/ WriteTemp(k) \/ RenameTemp(k) \/ AppendFails(k)

LEMMA AppendMoves ==
    ASSUME NEW k \in Ids, AppendStep(k)
    PROVE  UNCHANGED <<claimVars, indexVars, job, reader, overlapped, consuming>>
BY DEF AppendStep, AppendRecord, WriteTemp, RenameTemp, AppendFails, OnlyLog

LEMMA ReadMoves ==
    ASSUME NEW r \in Readers, HybridRead(r)
    PROVE  UNCHANGED <<claimVars, logVars, indexVars, job, overlapped, consuming>>
BY DEF HybridRead, HybridCurrent, HybridCheckpoint, HybridWatermark, HybridList, HybridSource,
   HybridReturn, HybridForget, ReadOn

LEMMA LapseMoves ==
    ASSUME Lapse
    PROVE  UNCHANGED <<lease, issued, pc, at, mine, logVars, indexVars, job, reader, overlapped,
                       consuming>>
BY DEF Lapse, Claim!Lapse, Claim!workerVars

\* Every step is one of a compactor, of an append, of a read or of the clock.
LEMMA Steps ==
    [Next]_vars => \/ \E c \in Compactors : Cycle(c) \/ Crash(c)
                   \/ \E k \in Ids : AppendStep(k)
                   \/ \E r \in Readers : HybridRead(r)
                   \/ Lapse
                   \/ UNCHANGED vars
BY DEF Next, BoundReached, AppendStep

\* The lock of the index goes through a behaviour of the lease protocol:
\* compactors touch compactor.lock only by acquire_lease and their release.
THEOREM LockClaims == Spec => Claim!Spec
<1>1. Init => Claim!Init
  BY DEF Init
<1>2. ASSUME [Next]_vars PROVE [Claim!Next]_(Claim!vars)
  <2>1. ASSUME UNCHANGED claimVars PROVE UNCHANGED Claim!vars
    BY <2>1 DEF claimVars, Claim!vars
  <2>2. ASSUME Lapse PROVE Claim!Next
    BY <2>2 DEF Lapse, Claim!Next
  <2>3. UNCHANGED vars => UNCHANGED claimVars
    BY DEF vars
  <2> QED
    BY <1>2, <2>1, <2>2, <2>3, Steps, CycleClaims, AppendMoves, ReadMoves
<1> QED
  BY <1>1, <1>2, PTL DEF Spec, Claim!Spec

\* The proofs about LeaseClaim are instantiated here as P, with a copy of every
\* definition of LeaseClaim.
LEMMA SameProtocol ==
    /\ Claim!Init => P!Init
    /\ [Claim!Next]_(Claim!vars) => [P!Next]_(P!vars)
<1>1. Claim!Init => P!Init
  BY DEF P!Init, Claim!Init, P!Absent, Claim!Absent
<1>2. [Claim!Next]_(Claim!vars) => [P!Next]_(P!vars)
  BY DEF P!Next, Claim!Next, P!vars, Claim!vars, P!Work, Claim!Work, P!Step, Claim!Step,
   P!Lapse, Claim!Lapse, P!OutOfTags, Claim!OutOfTags, P!Try, Claim!Try, P!Write, Claim!Write,
   P!WriteFails, Claim!WriteFails, P!CheckExists, Claim!CheckExists, P!Recreate, Claim!Recreate,
   P!Read, Claim!Read, P!Recheck, Claim!Recheck, P!FetchETag, Claim!FetchETag, P!Swap, Claim!Swap,
   P!Rename, Claim!Rename, P!Put, Claim!Put, P!Renew, Claim!Renew, P!Leave, Claim!Leave,
   P!FindLease, Claim!FindLease, P!DeleteLease, Claim!DeleteLease, P!Return, Claim!Return,
   P!Abandon, Claim!Abandon, P!CreateIfAbsent, Claim!CreateIfAbsent, P!Place, Claim!Place,
   P!Goto, Claim!Goto, P!Refused, Claim!Refused, P!Raised, Claim!Raised,
   P!leaseVars, Claim!leaseVars, P!workerVars, Claim!workerVars,
   P!Exists, Claim!Exists, P!Created, Claim!Created, P!Finished, Claim!Finished, P!Full, Claim!Full,
   P!Empty, Claim!Empty, P!Absent, Claim!Absent, P!ETag, Claim!ETag, P!Local, Claim!Local
<1> QED
  BY <1>1, <1>2

LEMMA ProtocolAssumptions == P!PathAssumption /\ P!TagsAssumption /\ P!BackendAssumption
BY IndexAssumption, BackendAssumption
   DEF P!PathAssumption, P!TagsAssumption, P!BackendAssumption

LEMMA LockSound == Spec => []P!IInv
<1>1. P!Spec => []P!IInv
  BY ProtocolAssumptions, P!Invariance, PTL
<1> QED
  BY <1>1, LockClaims, SameProtocol, PTL DEF P!Spec, Claim!Spec

\* The calls of acquire_lease on a lease that is there already
Acquiring == {"exists", "recreate", "read", "recheck", "etag", "swap", "rename"}

\* What the job of compact_once says of the claim on the lock; a
\* compactor does not renew it.
InJob ==
    \A c \in Compactors :
        /\ job[c].pc = "idle" => pc[c] \notin {"deleting", "put"}
        /\ pc[c] \in Acquiring => mine[c] = 0
        /\ Working(c) \/ job[c].pc = "release" => pc[c] = "held"
        /\ job[c].pc \in {"releaseRead", "releaseDelete"} => pc[c] = "deleting"

\* A compactor in _compact_body claims the lock.
LEMMA WorkerClaims ==
    ASSUME P!IInv
    PROVE  /\ Claim!TypeOK
           /\ \A c \in Compactors : pc[c] # "idle" <=> at[c] = Lock
           /\ \A c, d \in Compactors :
                 c # d /\ at[c] = Lock /\ at[d] = Lock /\ dead[Lock] = {} /\ mine[c] # 0
                    => mine[d] = 0
BY IndexAssumption DEF P!IInv, P!TypeOK, Claim!TypeOK, P!PCs, Claim!PCs, P!Cell, Claim!Cell,
   P!Standing, P!Distinct, P!HolderKeepsLease, P!Claimants, P!Exists

-------------------------------------------------------------------------------
(* The strengthening of the type invariant *)

\* _compact_body before the commit, at it, and after it
Reading    == {"watermark", "list", "enumerate", "base", "checkpoint", "write"}
Committing == {"commit", "etag", "swap", "put", "rename", "first"}
Cleaning   == {"delete", "gcList", "gc"}

\* The bodies of CURRENT are numbered as they were written, a job that has
\* written its checkpoint had a generation left for it, and an append that has
\* begun a version; a compactor outside a cycle has no job.
Numbered ==
    /\ commits \in Seq(Commit)
    /\ current.tag <= Len(commits)
    /\ Exists(current) => current.tag # 0
    /\ \A c \in Compactors :
          /\ job[c].pc = "idle" => job[c] = NoJob
          /\ job[c].pc \in Committing \cup Cleaning \cup {"firstWrite", "abandon"}
                => job[c].gen < MaxCommits
          /\ job[c].pc = "checkpoint" => job[c].tag # 0
          /\ job[c].pc = "firstWrite" => job[c].tag # 0 /\ job[c].tag <= Len(commits)
    /\ \A r \in Readers : reader[r].pc = "checkpoint" => reader[r].gen # 0
    /\ \A k \in appending : Local /\ appended[k] < MaxVersion

LogTypes ==
    /\ log \in [Sources -> Versions]
    /\ appending \subseteq Ids
    /\ appended \in Content
    /\ \A k \in appending : Local /\ appended[k] < MaxVersion

IndexTypes ==
    /\ checkpoint \in [1..MaxCommits -> Content \cup {NoFile}]
    /\ current \in Cell
    /\ commits \in Seq(Commit) /\ Len(commits) <= MaxCommits
    /\ current.tag <= Len(commits)
    /\ Exists(current) => current.tag # 0

\* a job as compact_once may have left it
JobOK(j) ==
    /\ j \in Jobs
    /\ j.pc = "idle" => j = NoJob
    /\ j.pc \in Committing \cup Cleaning \cup {"firstWrite", "abandon"} => j.gen < MaxCommits
    /\ j.pc = "checkpoint" => j.tag # 0
    /\ j.pc = "firstWrite" => j.tag # 0 /\ j.tag <= Len(commits)

JobTypes == job \in [Compactors -> Jobs] /\ \A c \in Compactors : JobOK(job[c])

ReaderOK(d) == d \in Reads /\ (d.pc = "checkpoint" => d.gen # 0)

ReaderTypes == reader \in [Readers -> Reads] /\ \A r \in Readers : ReaderOK(reader[r])

LEMMA TypesSplit ==
    TypeOK /\ Numbered <=> /\ Claim!TypeOK /\ LogTypes /\ IndexTypes /\ JobTypes /\ ReaderTypes
                           /\ overlapped \in BOOLEAN /\ consuming \in Modes
<1>1. commits \in Seq(Commit) => \A t \in DOMAIN commits : commits[t] \in Commit
  OBVIOUS
<1> QED
  BY <1>1 DEF TypeOK, Numbered, LogTypes, IndexTypes, JobTypes, JobOK, ReaderTypes, ReaderOK

\* The fold is typed, and keeps the highest version of either side.
LEMMA FoldFacts ==
    ASSUME NEW a \in Content, NEW b \in Content
    PROVE  /\ Fold(a, b) \in Content
           /\ \A k \in Ids : Fold(a, b)[k] >= a[k] /\ Fold(a, b)[k] >= b[k]
BY IndexAssumption DEF Fold, Content, Versions

\* One record read adds its version under its id.
LEMMA RecordFacts ==
    ASSUME NEW a \in Content, NEW p \in Sources, NEW v \in Versions
    PROVE  /\ p[1] \in Ids /\ Nothing \in Content
           /\ Fold(a, [Nothing EXCEPT ![p[1]] = v]) \in Content
           /\ \A k \in Ids : Fold(a, [Nothing EXCEPT ![p[1]] = v])[k] >= a[k]
           /\ Fold(a, [Nothing EXCEPT ![p[1]] = v])[p[1]] >= v
<1>1. p[1] \in Ids /\ Nothing \in Content
  BY IndexAssumption DEF Sources, Nothing, Content, Versions
<1>2. [Nothing EXCEPT ![p[1]] = v] \in Content /\ [Nothing EXCEPT ![p[1]] = v][p[1]] = v
  BY <1>1 DEF Content
<1> QED
  BY <1>1, <1>2, FoldFacts

LEMMA SourceFacts ==
    /\ \A k \in Ids : File(k) \in Sources /\ Temp(k) \in Sources /\ File(k) # Temp(k)
                      /\ File(k)[1] = k /\ Temp(k)[1] = k
    /\ \A j, k \in Ids : j # k => File(j) # File(k) /\ File(j) # Temp(k) /\ Temp(j) # Temp(k)
BY DEF Sources, File, Temp

\* The steps of the log keep the types.
LEMMA AppendTyped ==
    ASSUME LogTypes, NEW k \in Ids, AppendStep(k)
    PROVE  LogTypes'
<1>1. /\ log \in [Sources -> Versions] /\ appending \subseteq Ids /\ appended \in [Ids -> Versions]
      /\ File(k) \in Sources /\ Temp(k) \in Sources /\ 0 \in Versions
  BY SourceFacts, IndexAssumption DEF LogTypes, Content, Versions
<1>2. ASSUME Appended(k), appended[k] < MaxVersion
      PROVE  log' \in [Sources -> Versions] /\ appended' \in [Ids -> Versions]
  <2>1. appended[k] + 1 \in Versions
    BY <1>1, <1>2, IndexAssumption DEF Versions
  <2> QED
    BY <1>1, <1>2, <2>1 DEF Appended
<1>3. CASE AppendRecord(k)
  BY <1>1, <1>2, <1>3 DEF AppendRecord, LogTypes, Content
<1>4. CASE WriteTemp(k)
  <2>1. appended[k] + 1 \in Versions
    BY <1>1, <1>4, IndexAssumption DEF WriteTemp, Versions
  <2> QED
    BY <1>1, <1>4, <2>1 DEF WriteTemp, LogTypes
<1>5. CASE RenameTemp(k)
  <2>1. appended[k] < MaxVersion
    BY <1>5 DEF RenameTemp, LogTypes
  <2>2. CASE Appended(k)
    BY <1>1, <1>2, <1>5, <2>1, <2>2 DEF RenameTemp, LogTypes, Content, Appended
  <2>3. CASE UNCHANGED <<log, appended>>
    BY <1>1, <1>5, <2>3 DEF RenameTemp, LogTypes
  <2> QED
    BY <1>5, <2>2, <2>3 DEF RenameTemp
<1>6. CASE AppendFails(k)
  BY <1>1, <1>6 DEF AppendFails, LogTypes
<1> QED
  BY <1>3, <1>4, <1>5, <1>6 DEF AppendStep


-------------------------------------------------------------------------------
(* What each step of a compactor does to its job, field by field *)

\* No other compactor's job changes.
Only(c) == job' \in [Compactors -> Jobs] /\ \A d \in Compactors \ {c} : job'[d] = job[d]

\* j is a job with these fields.
IsJob(j, l, g, s, d, k, v, b, t, o) ==
    /\ j \in Jobs
    /\ j.pc = l /\ j.gen = g /\ j.skip = s /\ j.todo = d /\ j.took = k
    /\ j.recs = v /\ j.base = b /\ j.tag = t /\ j.old = o

LEMMA JobFields ==
    ASSUME NEW j, NEW l \in JobPCs, NEW g \in 0..MaxCommits, NEW s \in SUBSET Sources,
           NEW d \in SUBSET Sources, NEW k \in SUBSET Sources, NEW v \in Content,
           NEW b \in Content, NEW t \in 0..MaxCommits, NEW o \in SUBSET (1..MaxCommits),
           j = [pc |-> l, gen |-> g, skip |-> s, todo |-> d, took |-> k, recs |-> v, base |-> b,
                tag |-> t, old |-> o]
    PROVE  IsJob(j, l, g, s, d, k, v, b, t, o)
BY DEF Jobs, IsJob

LEMMA FieldTypes ==
    ASSUME NEW r \in Jobs
    PROVE  /\ r.pc \in JobPCs /\ r.gen \in 0..MaxCommits /\ r.skip \in SUBSET Sources
           /\ r.todo \in SUBSET Sources /\ r.took \in SUBSET Sources /\ r.recs \in Content
           /\ r.base \in Content /\ r.tag \in 0..MaxCommits /\ r.old \in SUBSET (1..MaxCommits)
           /\ 0 \in 0..MaxCommits /\ Nothing \in Content
BY IndexAssumption DEF Jobs, Nothing, Content, Versions

LEMMA NoJobFields == /\ NoJob \in Jobs /\ NoJob.pc = "idle" /\ NoJob.gen = 0 /\ NoJob.took = {}
                     /\ NoJob.todo = {} /\ NoJob.base = Nothing /\ NoJob.recs = Nothing
BY IndexAssumption DEF NoJob, Jobs, JobPCs, Nothing, Content, Versions

\* The EXCEPTs of compact_once, field by field
LEMMA EditPc ==
    ASSUME NEW r \in Jobs, NEW l \in JobPCs
    PROVE  IsJob([r EXCEPT !.pc = l], l, r.gen, r.skip, r.todo, r.took, r.recs, r.base,
                 r.tag, r.old)
<1>1. SUFFICES ASSUME NEW j, j = [r EXCEPT !.pc = l]
               PROVE  IsJob(j, l, r.gen, r.skip, r.todo, r.took, r.recs, r.base, r.tag,
                            r.old)
  OBVIOUS
<1>2. j = [pc |-> l, gen |-> r.gen, skip |-> r.skip, todo |-> r.todo, took |-> r.took,
           recs |-> r.recs, base |-> r.base, tag |-> r.tag, old |-> r.old]
  BY <1>1 DEF Jobs
<1> QED
  BY <1>2, FieldTypes, JobFields

LEMMA EditGen ==
    ASSUME NEW r \in Jobs, NEW l \in JobPCs, NEW g \in 0..MaxCommits
    PROVE  IsJob([r EXCEPT !.pc = l, !.gen = g], l, g, r.skip, r.todo, r.took, r.recs,
                 r.base, r.tag, r.old)
<1>1. SUFFICES ASSUME NEW j, j = [r EXCEPT !.pc = l, !.gen = g]
               PROVE  IsJob(j, l, g, r.skip, r.todo, r.took, r.recs, r.base, r.tag, r.old)
  OBVIOUS
<1>2. j = [pc |-> l, gen |-> g, skip |-> r.skip, todo |-> r.todo, took |-> r.took,
           recs |-> r.recs, base |-> r.base, tag |-> r.tag, old |-> r.old]
  BY <1>1 DEF Jobs
<1> QED
  BY <1>2, FieldTypes, JobFields

LEMMA EditSkip ==
    ASSUME NEW r \in Jobs, NEW l \in JobPCs, NEW s \in SUBSET Sources
    PROVE  IsJob([r EXCEPT !.pc = l, !.skip = s], l, r.gen, s, r.todo, r.took, r.recs,
                 r.base, r.tag, r.old)
<1>1. SUFFICES ASSUME NEW j, j = [r EXCEPT !.pc = l, !.skip = s]
               PROVE  IsJob(j, l, r.gen, s, r.todo, r.took, r.recs, r.base, r.tag, r.old)
  OBVIOUS
<1>2. j = [pc |-> l, gen |-> r.gen, skip |-> s, todo |-> r.todo, took |-> r.took,
           recs |-> r.recs, base |-> r.base, tag |-> r.tag, old |-> r.old]
  BY <1>1 DEF Jobs
<1> QED
  BY <1>2, FieldTypes, JobFields

LEMMA EditTodo ==
    ASSUME NEW r \in Jobs, NEW l \in JobPCs, NEW s \in SUBSET Sources, NEW d \in SUBSET
           Sources
    PROVE  IsJob([r EXCEPT !.pc = l, !.skip = s, !.todo = d], l, r.gen, s, d, r.took,
                 r.recs, r.base, r.tag, r.old)
<1>1. SUFFICES ASSUME NEW j, j = [r EXCEPT !.pc = l, !.skip = s, !.todo = d]
               PROVE  IsJob(j, l, r.gen, s, d, r.took, r.recs, r.base, r.tag, r.old)
  OBVIOUS
<1>2. j = [pc |-> l, gen |-> r.gen, skip |-> s, todo |-> d, took |-> r.took,
           recs |-> r.recs, base |-> r.base, tag |-> r.tag, old |-> r.old]
  BY <1>1 DEF Jobs
<1> QED
  BY <1>2, FieldTypes, JobFields

LEMMA EditRead ==
    ASSUME NEW r \in Jobs, NEW d \in SUBSET Sources, NEW k \in SUBSET Sources, NEW v \in
           Content
    PROVE  IsJob([r EXCEPT !.todo = d, !.took = k, !.recs = v], r.pc, r.gen, r.skip, d, k,
                 v, r.base, r.tag, r.old)
<1>1. SUFFICES ASSUME NEW j, j = [r EXCEPT !.todo = d, !.took = k, !.recs = v]
               PROVE  IsJob(j, r.pc, r.gen, r.skip, d, k, v, r.base, r.tag, r.old)
  OBVIOUS
<1>2. j = [pc |-> r.pc, gen |-> r.gen, skip |-> r.skip, todo |-> d, took |-> k,
           recs |-> v, base |-> r.base, tag |-> r.tag, old |-> r.old]
  BY <1>1 DEF Jobs
<1> QED
  BY <1>2, FieldTypes, JobFields

LEMMA EditTag ==
    ASSUME NEW r \in Jobs, NEW l \in JobPCs, NEW t \in 0..MaxCommits
    PROVE  IsJob([r EXCEPT !.pc = l, !.tag = t], l, r.gen, r.skip, r.todo, r.took, r.recs,
                 r.base, t, r.old)
<1>1. SUFFICES ASSUME NEW j, j = [r EXCEPT !.pc = l, !.tag = t]
               PROVE  IsJob(j, l, r.gen, r.skip, r.todo, r.took, r.recs, r.base, t, r.old)
  OBVIOUS
<1>2. j = [pc |-> l, gen |-> r.gen, skip |-> r.skip, todo |-> r.todo, took |-> r.took,
           recs |-> r.recs, base |-> r.base, tag |-> t, old |-> r.old]
  BY <1>1 DEF Jobs
<1> QED
  BY <1>2, FieldTypes, JobFields

LEMMA EditBase ==
    ASSUME NEW r \in Jobs, NEW l \in JobPCs, NEW b \in Content, NEW t \in 0..MaxCommits
    PROVE  IsJob([r EXCEPT !.pc = l, !.base = b, !.tag = t], l, r.gen, r.skip, r.todo,
                 r.took, r.recs, b, t, r.old)
<1>1. SUFFICES ASSUME NEW j, j = [r EXCEPT !.pc = l, !.base = b, !.tag = t]
               PROVE  IsJob(j, l, r.gen, r.skip, r.todo, r.took, r.recs, b, t, r.old)
  OBVIOUS
<1>2. j = [pc |-> l, gen |-> r.gen, skip |-> r.skip, todo |-> r.todo, took |-> r.took,
           recs |-> r.recs, base |-> b, tag |-> t, old |-> r.old]
  BY <1>1 DEF Jobs
<1> QED
  BY <1>2, FieldTypes, JobFields

LEMMA EditFolded ==
    ASSUME NEW r \in Jobs, NEW l \in JobPCs, NEW b \in Content, NEW v \in Content
    PROVE  IsJob([r EXCEPT !.pc = l, !.base = b, !.recs = v], l, r.gen, r.skip, r.todo,
                 r.took, v, b, r.tag, r.old)
<1>1. SUFFICES ASSUME NEW j, j = [r EXCEPT !.pc = l, !.base = b, !.recs = v]
               PROVE  IsJob(j, l, r.gen, r.skip, r.todo, r.took, v, b, r.tag, r.old)
  OBVIOUS
<1>2. j = [pc |-> l, gen |-> r.gen, skip |-> r.skip, todo |-> r.todo, took |-> r.took,
           recs |-> v, base |-> b, tag |-> r.tag, old |-> r.old]
  BY <1>1 DEF Jobs
<1> QED
  BY <1>2, FieldTypes, JobFields

LEMMA EditCleanUp ==
    ASSUME NEW r \in Jobs, NEW l \in JobPCs, NEW t \in 0..MaxCommits, NEW k \in SUBSET
           Sources, NEW d \in SUBSET Sources
    PROVE  IsJob([r EXCEPT !.pc = l, !.tag = t, !.took = k, !.todo = d], l, r.gen, r.skip,
                 d, k, r.recs, r.base, t, r.old)
<1>1. SUFFICES ASSUME NEW j, j = [r EXCEPT !.pc = l, !.tag = t, !.took = k, !.todo = d]
               PROVE  IsJob(j, l, r.gen, r.skip, d, k, r.recs, r.base, t, r.old)
  OBVIOUS
<1>2. j = [pc |-> l, gen |-> r.gen, skip |-> r.skip, todo |-> d, took |-> k,
           recs |-> r.recs, base |-> r.base, tag |-> t, old |-> r.old]
  BY <1>1 DEF Jobs
<1> QED
  BY <1>2, FieldTypes, JobFields

LEMMA EditDelete ==
    ASSUME NEW r \in Jobs, NEW d \in SUBSET Sources
    PROVE  IsJob([r EXCEPT !.todo = d], r.pc, r.gen, r.skip, d, r.took, r.recs, r.base,
                 r.tag, r.old)
<1>1. SUFFICES ASSUME NEW j, j = [r EXCEPT !.todo = d]
               PROVE  IsJob(j, r.pc, r.gen, r.skip, d, r.took, r.recs, r.base, r.tag,
                            r.old)
  OBVIOUS
<1>2. j = [pc |-> r.pc, gen |-> r.gen, skip |-> r.skip, todo |-> d, took |-> r.took,
           recs |-> r.recs, base |-> r.base, tag |-> r.tag, old |-> r.old]
  BY <1>1 DEF Jobs
<1> QED
  BY <1>2, FieldTypes, JobFields

LEMMA EditList ==
    ASSUME NEW r \in Jobs, NEW l \in JobPCs, NEW o \in SUBSET (1..MaxCommits)
    PROVE  IsJob([r EXCEPT !.pc = l, !.old = o], l, r.gen, r.skip, r.todo, r.took, r.recs,
                 r.base, r.tag, o)
<1>1. SUFFICES ASSUME NEW j, j = [r EXCEPT !.pc = l, !.old = o]
               PROVE  IsJob(j, l, r.gen, r.skip, r.todo, r.took, r.recs, r.base, r.tag, o)
  OBVIOUS
<1>2. j = [pc |-> l, gen |-> r.gen, skip |-> r.skip, todo |-> r.todo, took |-> r.took,
           recs |-> r.recs, base |-> r.base, tag |-> r.tag, old |-> o]
  BY <1>1 DEF Jobs
<1> QED
  BY <1>2, FieldTypes, JobFields

LEMMA EditOld ==
    ASSUME NEW r \in Jobs, NEW o \in SUBSET (1..MaxCommits)
    PROVE  IsJob([r EXCEPT !.old = o], r.pc, r.gen, r.skip, r.todo, r.took, r.recs,
                 r.base, r.tag, o)
<1>1. SUFFICES ASSUME NEW j, j = [r EXCEPT !.old = o]
               PROVE  IsJob(j, r.pc, r.gen, r.skip, r.todo, r.took, r.recs, r.base, r.tag,
                            o)
  OBVIOUS
<1>2. j = [pc |-> r.pc, gen |-> r.gen, skip |-> r.skip, todo |-> r.todo, took |-> r.took,
           recs |-> r.recs, base |-> r.base, tag |-> r.tag, old |-> o]
  BY <1>1 DEF Jobs
<1> QED
  BY <1>2, FieldTypes, JobFields

\* The job a compactor goes on with is its job.
LEMMA Becomes ==
    ASSUME JobTypes, NEW c \in Compactors, NEW j \in Jobs, job' = [job EXCEPT ![c] = j]
    PROVE  Only(c) /\ job'[c] = j
BY DEF JobTypes, Only

\* return, or raise, into the finally block
Ends(c) == Only(c) /\ job'[c].pc = "release" /\ UNCHANGED <<claimVars, reader, overlapped, consuming>>

LEMMA Quits ==
    ASSUME JobTypes, NEW c \in Compactors, Quit(c)
    PROVE  Ends(c)
<1> DEFINE j == [NoJob EXCEPT !.pc = "release"]
<1>2. j \in Jobs /\ j.pc = "release"
  BY IndexAssumption DEF NoJob, Jobs, JobPCs, Nothing, Content, Versions
<1>3. job' = [job EXCEPT ![c] = j] /\ UNCHANGED <<claimVars, reader, overlapped, consuming>>
  BY DEF Quit, Proceed
<1> HIDE DEF j
<1> QED
  BY <1>2, <1>3, Becomes DEF Ends

\* What the fields of a job are worth that a step leaves alone
SameWork(i, j) == j.gen = i.gen /\ j.took = i.took /\ j.recs = i.recs /\ j.base = i.base

\* The generation of CURRENT, and what it says is folded
Generation == IF current.st = "full" THEN commits[current.tag].gen ELSE 0

LEMMA CurrentFacts ==
    ASSUME IndexTypes
    PROVE  /\ current.st \in {"absent", "empty", "full"} /\ current.tag \in 0..MaxCommits
           /\ Exists(current) => /\ current.tag \in DOMAIN commits
                                 /\ commits[current.tag] \in Commit
                                 /\ commits[current.tag].gen \in 1..MaxCommits
           /\ Folded \in SUBSET Sources
           /\ Generation \in 0..MaxCommits
<1>1. current.st \in {"absent", "empty", "full"} /\ current.tag \in Nat /\ Len(commits) \in Nat
  BY DEF IndexTypes, Cell
<1>2. current.tag \in 0..MaxCommits
  BY <1>1, IndexAssumption DEF IndexTypes
<1>3. ASSUME Exists(current) PROVE current.tag \in DOMAIN commits /\ commits[current.tag] \in Commit
  BY <1>1, <1>3 DEF IndexTypes
<1> QED
  BY <1>1, <1>2, <1>3, IndexAssumption DEF Folded, Commit, Exists, Generation

LEMMA ReadMetaStep ==
    ASSUME JobTypes, IndexTypes, NEW c \in Compactors, ReadMeta(c)
    PROVE  /\ Only(c) /\ job[c].pc = "idle"
           /\ \/ job'[c].pc = "release"
              \/ /\ job'[c].pc = "watermark" /\ current.st # "empty"
                 /\ job'[c].gen = Generation /\ job'[c].took = {} /\ job'[c].base = Nothing
<1>1. job[c] = NoJob /\ job[c].pc = "idle"
  BY DEF ReadMeta, JobTypes, JobOK
<1> DEFINE a == [NoJob EXCEPT !.pc = "watermark"]
           f == [NoJob EXCEPT !.pc = "watermark", !.gen = commits[current.tag].gen]
           e == [NoJob EXCEPT !.pc = "release"]
<1>2. \/ current.st = "absent" /\ job' = [job EXCEPT ![c] = a]
      \/ current.st = "full" /\ job' = [job EXCEPT ![c] = f]
      \/ job' = [job EXCEPT ![c] = e]
  BY <1>1, CurrentFacts DEF ReadMeta
<1>3. "watermark" \in JobPCs /\ "release" \in JobPCs
  BY DEF JobPCs
<1>4. a \in Jobs /\ a.pc = "watermark" /\ a.gen = 0 /\ a.took = {} /\ a.base = Nothing
  BY <1>3, NoJobFields, EditPc DEF IsJob
<1>5. e \in Jobs /\ e.pc = "release"
  BY <1>3, NoJobFields, EditPc DEF IsJob
<1>6. ASSUME current.st = "full"
      PROVE  f \in Jobs /\ f.pc = "watermark" /\ f.gen = Generation /\ f.took = {} /\ f.base = Nothing
  <2>1. commits[current.tag].gen = Generation /\ commits[current.tag].gen \in 0..MaxCommits
    BY <1>6, CurrentFacts DEF Generation
  <2> QED
    <3> DEFINE g == commits[current.tag].gen
    <3>1. IsJob(f, "watermark", g, NoJob.skip, NoJob.todo, NoJob.took, NoJob.recs, NoJob.base,
                NoJob.tag, NoJob.old)
      <4> HIDE DEF g
      <4>1. f = [NoJob EXCEPT !.pc = "watermark", !.gen = g]
        BY DEF g
      <4> HIDE DEF f
      <4> QED
        BY <1>3, <2>1, <4>1, NoJobFields, EditGen DEF g
    <3> QED
      BY <2>1, <3>1, NoJobFields DEF IsJob
<1>7. current.st = "absent" => Generation = 0
  BY DEF Generation
<1> HIDE DEF a, f, e
<1> QED
  BY <1>1, <1>2, <1>4, <1>5, <1>6, <1>7, Becomes

LEMMA WatermarkStep ==
    ASSUME JobTypes, IndexTypes, NEW c \in Compactors, ReadWatermark(c)
    PROVE  /\ job[c].pc = "watermark"
           /\ \/ Ends(c)
              \/ Only(c) /\ job'[c].pc = "list" /\ SameWork(job[c], job'[c])
<1>1. job[c] \in Jobs /\ job[c].pc = "watermark"
  BY DEF ReadWatermark, JobTypes
<1> DEFINE j == [job[c] EXCEPT !.pc = "list", !.skip = Folded]
<1>2. Quit(c) \/ job' = [job EXCEPT ![c] = j]
  BY DEF ReadWatermark, Proceed
<1>3. "list" \in JobPCs /\ Folded \in SUBSET Sources
  BY CurrentFacts DEF JobPCs
<1>4. IsJob(j, "list", job[c].gen, Folded, job[c].todo, job[c].took, job[c].recs, job[c].base,
            job[c].tag, job[c].old)
  BY <1>1, <1>3, EditSkip
<1>5. j \in Jobs /\ j.pc = "list" /\ SameWork(job[c], j)
  BY <1>4 DEF IsJob, SameWork
<1> HIDE DEF j
<1> QED
  BY <1>1, <1>2, <1>5, Becomes, Quits

LEMMA ListStep ==
    ASSUME JobTypes, NEW c \in Compactors, ListSources(c)
    PROVE  /\ job[c].pc = "list"
           /\ Only(c) /\ job'[c].pc = "enumerate" /\ SameWork(job[c], job'[c])
<1>1. job[c] \in Jobs /\ job[c].pc = "list"
  BY DEF ListSources, JobTypes
<1> DEFINE d == Present \ job[c].skip
           j == [job[c] EXCEPT !.pc = "enumerate", !.skip = {}, !.todo = d]
<1>2. job' = [job EXCEPT ![c] = j]
  BY DEF ListSources, Proceed
<1>3. "enumerate" \in JobPCs /\ {} \in SUBSET Sources /\ d \in SUBSET Sources
  BY DEF JobPCs, Present
<1> HIDE DEF d
<1>4. IsJob(j, "enumerate", job[c].gen, {}, d, job[c].took, job[c].recs, job[c].base,
            job[c].tag, job[c].old)
  BY <1>1, <1>3, EditTodo
<1>5. j \in Jobs /\ j.pc = "enumerate" /\ SameWork(job[c], j)
  BY <1>4 DEF IsJob, SameWork
<1> HIDE DEF j
<1> QED
  BY <1>1, <1>2, <1>5, Becomes

LEMMA SourceStep ==
    ASSUME JobTypes, LogTypes, NEW c \in Compactors, ReadSource(c)
    PROVE  /\ job[c].pc = "enumerate"
           /\ Only(c) /\ job'[c].pc = "enumerate"
           /\ job'[c].gen = job[c].gen /\ job'[c].base = job[c].base
           /\ \A k \in Ids : job'[c].recs[k] >= job[c].recs[k]
           /\ \A p \in job'[c].took : p \in job[c].took \/ job'[c].recs[p[1]] >= 1
<1> DEFINE i == job[c]
<1>1. i \in Jobs /\ i.pc = "enumerate"
  BY DEF ReadSource, JobTypes
<1>2. PICK p \in i.todo : \E v \in ReadsOf(p) :
          Proceed(c, [i EXCEPT
              !.todo = @ \ {p},
              !.took = IF v = 0 THEN @ ELSE @ \cup {p},
              !.recs = Fold(@, [Nothing EXCEPT ![p[1]] = v])])
  BY DEF ReadSource
<1>3. PICK v \in ReadsOf(p) :
          Proceed(c, [i EXCEPT
              !.todo = @ \ {p},
              !.took = IF v = 0 THEN @ ELSE @ \cup {p},
              !.recs = Fold(@, [Nothing EXCEPT ![p[1]] = v])])
  BY <1>2
<1> DEFINE d == i.todo \ {p}
           k == IF v = 0 THEN i.took ELSE i.took \cup {p}
           u == Fold(i.recs, [Nothing EXCEPT ![p[1]] = v])
           j == [i EXCEPT !.todo = d, !.took = k, !.recs = u]
<1>4. p \in Sources /\ v \in Versions /\ p[1] \in Ids
  BY <1>1, FieldTypes, IndexAssumption DEF ReadsOf, LogTypes, Versions, Sources
<1>5. /\ u \in Content /\ \A m \in Ids : u[m] >= i.recs[m]
      /\ u[p[1]] >= v
  BY <1>1, <1>4, FieldTypes, RecordFacts
<1>6. d \in SUBSET Sources /\ k \in SUBSET Sources
  BY <1>1, <1>4, FieldTypes
<1>7. job' = [job EXCEPT ![c] = j]
  BY <1>3 DEF Proceed
<1>8. \A q \in k : q \in i.took \/ u[q[1]] >= 1
  <2>1. v # 0 => v >= 1
    BY <1>4, IndexAssumption DEF Versions
  <2>2. u[p[1]] \in Int /\ v \in Int
    <3> HIDE DEF u
    <3> QED
      BY <1>4, <1>5, IndexAssumption DEF Content, Versions
  <2> HIDE DEF u
  <2> QED
    BY <1>5, <2>1, <2>2
<1> HIDE DEF i, d, k, u
<1>9. IsJob(j, i.pc, i.gen, i.skip, d, k, u, i.base, i.tag, i.old)
  BY <1>1, <1>5, <1>6, EditRead
<1>10. j \in Jobs /\ j.pc = i.pc /\ j.gen = i.gen /\ j.base = i.base /\ j.took = k /\ j.recs = u
  BY <1>9 DEF IsJob
<1> HIDE DEF j
<1>11. Only(c) /\ job'[c] = j
  BY <1>7, <1>10, Becomes
<1> QED
  BY <1>1, <1>5, <1>8, <1>10, <1>11 DEF i

\* A step that only moves on, and one that also sets the etag
LEMMA Jump ==
    ASSUME JobTypes, NEW c \in Compactors, NEW l \in JobPCs, Proceed(c, [job[c] EXCEPT !.pc = l])
    PROVE  Only(c) /\ job'[c].pc = l /\ SameWork(job[c], job'[c]) /\ job'[c].tag = job[c].tag
<1> DEFINE j == [job[c] EXCEPT !.pc = l]
<1>1. job[c] \in Jobs /\ job' = [job EXCEPT ![c] = j]
  BY DEF JobTypes, Proceed
<1>2. IsJob(j, l, job[c].gen, job[c].skip, job[c].todo, job[c].took, job[c].recs, job[c].base,
            job[c].tag, job[c].old)
  BY <1>1, EditPc
<1>3. j \in Jobs /\ j.pc = l /\ SameWork(job[c], j) /\ j.tag = job[c].tag
  BY <1>2 DEF IsJob, SameWork
<1> HIDE DEF j
<1> QED
  BY <1>1, <1>3, Becomes

LEMMA JumpTag ==
    ASSUME JobTypes, NEW c \in Compactors, NEW l \in JobPCs, NEW t \in 0..MaxCommits,
           Proceed(c, [job[c] EXCEPT !.pc = l, !.tag = t])
    PROVE  Only(c) /\ job'[c].pc = l /\ SameWork(job[c], job'[c]) /\ job'[c].tag = t
<1> DEFINE j == [job[c] EXCEPT !.pc = l, !.tag = t]
<1>1. job[c] \in Jobs /\ job' = [job EXCEPT ![c] = j]
  BY DEF JobTypes, Proceed
<1>2. IsJob(j, l, job[c].gen, job[c].skip, job[c].todo, job[c].took, job[c].recs, job[c].base,
            t, job[c].old)
  BY <1>1, EditTag
<1>3. j \in Jobs /\ j.pc = l /\ SameWork(job[c], j) /\ j.tag = t
  BY <1>2 DEF IsJob, SameWork
<1> HIDE DEF j
<1> QED
  BY <1>1, <1>3, Becomes

LEMMA SourcesReadStep ==
    ASSUME JobTypes, NEW c \in Compactors, SourcesRead(c)
    PROVE  /\ job[c].pc = "enumerate"
           /\ Ends(c) \/ (Only(c) /\ job'[c].pc = "base" /\ SameWork(job[c], job'[c]))
<1>1. "base" \in JobPCs
  BY DEF JobPCs
<1>2. Quit(c) \/ Proceed(c, [job[c] EXCEPT !.pc = "base"])
  BY DEF SourcesRead
<1> QED
  BY <1>1, <1>2, Jump, Quits DEF SourcesRead

LEMMA ReadBaseStep ==
    ASSUME JobTypes, IndexTypes, NEW c \in Compactors, ReadBase(c)
    PROVE  /\ job[c].pc = "base"
           /\ \/ Ends(c)
              \/ /\ Only(c) /\ SameWork(job[c], job'[c])
                 /\ \/ job'[c].pc = "write" /\ current.st = "absent"
                    \/ /\ job'[c].pc = "checkpoint" /\ current.st = "full"
                       /\ job'[c].tag = Generation
<1>1. "write" \in JobPCs /\ "checkpoint" \in JobPCs
  BY DEF JobPCs
<1>2. current.st = "full" => /\ commits[current.tag].gen \in 0..MaxCommits
                             /\ commits[current.tag].gen = Generation
  BY CurrentFacts DEF Generation
<1>3. \/ Quit(c)
      \/ current.st = "absent" /\ Proceed(c, [job[c] EXCEPT !.pc = "write"])
      \/ /\ current.st = "full"
         /\ Proceed(c, [job[c] EXCEPT !.pc = "checkpoint", !.tag = commits[current.tag].gen])
  BY CurrentFacts DEF ReadBase
<1>4. job[c].pc = "base"
  BY DEF ReadBase
<1>5. CASE Quit(c)
  BY <1>4, <1>5, Quits
<1>6. CASE current.st = "absent" /\ Proceed(c, [job[c] EXCEPT !.pc = "write"])
  BY <1>1, <1>4, <1>6, Jump
<1>7. CASE /\ current.st = "full"
           /\ Proceed(c, [job[c] EXCEPT !.pc = "checkpoint", !.tag = commits[current.tag].gen])
  BY <1>1, <1>2, <1>4, <1>7, JumpTag
<1> QED
  BY <1>3, <1>5, <1>6, <1>7

\* A checkpoint that is not there is no base.
LEMMA ReadCheckpointStep ==
    ASSUME JobTypes, IndexTypes, NEW c \in Compactors, ReadCheckpoint(c)
    PROVE  /\ job[c].pc = "checkpoint" /\ job[c].tag \in 1..MaxCommits
           /\ \/ Ends(c)
              \/ /\ Only(c) /\ job'[c].pc = "write"
                 /\ job'[c].gen = job[c].gen /\ job'[c].took = job[c].took
                 /\ job'[c].recs = job[c].recs
                 /\ job'[c].base = IF checkpoint[job[c].tag] = NoFile THEN job[c].base
                                   ELSE checkpoint[job[c].tag]
<1>1. job[c] \in Jobs /\ job[c].pc = "checkpoint" /\ job[c].tag # 0
  BY DEF ReadCheckpoint, JobTypes, JobOK
<1>2. job[c].tag \in 1..MaxCommits /\ 0 \in 0..MaxCommits
  BY <1>1, FieldTypes, IndexAssumption
<1> DEFINE body == checkpoint[job[c].tag]
           j == [job[c] EXCEPT !.pc = "write", !.base = body, !.tag = 0]
<1>3. \/ Quit(c)
      \/ body = NoFile /\ Proceed(c, [job[c] EXCEPT !.pc = "write", !.tag = 0])
      \/ body # NoFile /\ job' = [job EXCEPT ![c] = j]
  BY DEF ReadCheckpoint, Proceed
<1>4. "write" \in JobPCs
  BY DEF JobPCs
<1>5. CASE Quit(c)
  BY <1>1, <1>2, <1>5, Quits
<1>6. CASE body = NoFile /\ Proceed(c, [job[c] EXCEPT !.pc = "write", !.tag = 0])
  BY <1>1, <1>2, <1>4, <1>6, JumpTag DEF SameWork
<1>7. CASE body # NoFile /\ job' = [job EXCEPT ![c] = j]
  <2>1. body \in Content
    BY <1>2, <1>7 DEF IndexTypes
  <2>2. IsJob(j, "write", job[c].gen, job[c].skip, job[c].todo, job[c].took, job[c].recs, body,
              0, job[c].old)
    BY <1>1, <1>2, <1>4, <2>1, EditBase
  <2>3. j \in Jobs /\ j.pc = "write" /\ j.gen = job[c].gen /\ j.took = job[c].took
        /\ j.recs = job[c].recs /\ j.base = body
    BY <2>2 DEF IsJob
  <2>4. Only(c) /\ job'[c] = j
    <3> HIDE DEF j
    <3> QED
      BY <1>7, <2>3, Becomes
  <2> HIDE DEF j
  <2> QED
    BY <1>1, <1>2, <1>7, <2>3, <2>4
<1> QED
  BY <1>3, <1>5, <1>6, <1>7

LEMMA WriteCheckpointStep ==
    ASSUME JobTypes, IndexTypes, NEW c \in Compactors, WriteCheckpoint(c)
    PROVE  /\ job[c].pc = "write" /\ job[c].gen + 1 \in 1..MaxCommits
           /\ job[c].base \in Content /\ job[c].recs \in Content
           /\ checkpoint' = [checkpoint EXCEPT ![job[c].gen + 1] = Fold(job[c].base, job[c].recs)]
           /\ Only(c) /\ job'[c].pc = "commit"
           /\ job'[c].gen = job[c].gen /\ job'[c].took = job[c].took
<1>1. job[c] \in Jobs /\ job[c].pc = "write" /\ job[c].gen < MaxCommits
  BY DEF WriteCheckpoint, JobTypes
<1>2. /\ job[c].gen + 1 \in 1..MaxCommits /\ Nothing \in Content
      /\ job[c].base \in Content /\ job[c].recs \in Content
  BY <1>1, FieldTypes, IndexAssumption
<1> DEFINE j == [job[c] EXCEPT !.pc = "commit", !.base = Nothing, !.recs = Nothing]
<1>3. /\ job' = [job EXCEPT ![c] = j]
      /\ checkpoint' = [checkpoint EXCEPT ![job[c].gen + 1] = Fold(job[c].base, job[c].recs)]
  BY DEF WriteCheckpoint, Proceed
<1>4. IsJob(j, "commit", job[c].gen, job[c].skip, job[c].todo, job[c].took, Nothing, Nothing,
            job[c].tag, job[c].old)
  <2>1. "commit" \in JobPCs
    BY DEF JobPCs
  <2> QED
    BY <1>1, <1>2, <2>1, EditFolded
<1>5. j \in Jobs /\ j.pc = "commit" /\ j.gen = job[c].gen /\ j.took = job[c].took
  BY <1>4 DEF IsJob
<1> HIDE DEF j
<1> QED
  BY <1>1, <1>2, <1>3, <1>5, Becomes

-------------------------------------------------------------------------------
(* The commit *)

\* The commit goes on, or is given up: the index stays as it is.
GoesOn(c) ==
    /\ Only(c) /\ job[c].pc \in Committing
    /\ job'[c].pc \in Committing \cup {"abandon"}
    /\ job'[c].gen = job[c].gen /\ job'[c].took = job[c].took
    /\ UNCHANGED <<logVars, indexVars>>

\* The folded sources are all that cleanup deletes.
CleansUp(c) ==
    /\ Only(c) /\ job'[c].pc \in Cleaning \ {"gc"}
    /\ job'[c].gen = job[c].gen
    /\ job'[c].todo \subseteq job[c].took

\* A new body of CURRENT: whole, or its file not yet written
PutsCurrent(c) ==
    /\ job[c].pc \in Committing /\ Len(commits) < MaxCommits
    /\ \E S \in SUBSET job[c].took :
              commits' = Append(commits, [gen |-> job[c].gen + 1, folded |-> S])
    /\ UNCHANGED <<logVars, checkpoint>>
    /\ \/ current' = Full(NextTag) /\ CleansUp(c)
       \/ /\ current' = Empty(NextTag) /\ ~Exists(current)
          /\ Only(c) /\ job'[c].pc = "firstWrite" /\ job'[c].tag = NextTag
          /\ job'[c].gen = job[c].gen /\ job'[c].took = job[c].took

LEMMA CleanUpFacts ==
    ASSUME JobTypes, NEW c \in Compactors, CleanUp(c)
    PROVE  CleansUp(c)
<1> DEFINE l == IF consuming THEN "delete" ELSE "gcList"
           d == IF consuming THEN job[c].took ELSE {}
           j == [job[c] EXCEPT !.pc = l, !.tag = 0, !.took = {}, !.todo = d]
<1>1. job[c] \in Jobs /\ job' = [job EXCEPT ![c] = j]
  BY DEF JobTypes, CleanUp, Proceed
<1>2. l \in JobPCs /\ l \in Cleaning \ {"gc"} /\ 0 \in 0..MaxCommits /\ {} \in SUBSET Sources
      /\ d \in SUBSET Sources /\ d \subseteq job[c].took
  BY <1>1, FieldTypes, IndexAssumption DEF JobPCs, Cleaning
<1> HIDE DEF l, d
<1>3. IsJob(j, l, job[c].gen, job[c].skip, d, {}, job[c].recs, job[c].base, 0, job[c].old)
  BY <1>1, <1>2, EditCleanUp
<1>4. j \in Jobs /\ j.pc = l /\ j.gen = job[c].gen /\ j.todo = d
  BY <1>3 DEF IsJob
<1> HIDE DEF j
<1> QED
  BY <1>1, <1>2, <1>4, Becomes DEF CleansUp

LEMMA LostFacts ==
    ASSUME JobTypes, NEW c \in Compactors, CommitLost(c), job[c].pc \in Committing,
           UNCHANGED <<logVars, indexVars>>
    PROVE  GoesOn(c)
<1>1. "abandon" \in JobPCs /\ 0 \in 0..MaxCommits
  BY IndexAssumption DEF JobPCs
<1> QED
  BY <1>1, JumpTag DEF CommitLost, GoesOn, SameWork

LEMMA PutFacts ==
    ASSUME NEW c \in Compactors, NEW cell, PutCurrent(c, cell)
    PROVE  /\ Len(commits) < MaxCommits /\ current' = cell
           /\ \E S \in SUBSET job[c].took :
                     commits' = Append(commits, [gen |-> job[c].gen + 1, folded |-> S])
           /\ UNCHANGED <<logVars, checkpoint>>
BY DEF PutCurrent

LEMMA CheckStep ==
    ASSUME JobTypes, IndexTypes, NEW c \in Compactors, CheckCurrent(c) \/ FetchCurrentETag(c)
    PROVE  GoesOn(c)
<1>1. CASE CheckCurrent(c)
  <2> DEFINE l == IF Exists(current) THEN "etag" ELSE "first"
  <2>1. l \in JobPCs /\ l \in Committing /\ job[c].pc \in Committing
    BY <1>1 DEF CheckCurrent, JobPCs, Committing
  <2>2. Proceed(c, [job[c] EXCEPT !.pc = l]) /\ UNCHANGED <<logVars, indexVars>>
    BY <1>1 DEF CheckCurrent
  <2> HIDE DEF l
  <2> QED
    BY <2>1, <2>2, Jump DEF GoesOn, SameWork
<1>2. CASE FetchCurrentETag(c)
  <2>1. /\ "swap" \in JobPCs \cap Committing /\ "put" \in JobPCs \cap Committing
        /\ job[c].pc \in Committing
    BY <1>2 DEF FetchCurrentETag, JobPCs, Committing
  <2>2. UNCHANGED <<logVars, indexVars>>
    BY <1>2 DEF FetchCurrentETag
  <2>3. CASE Exists(current)
    <3>1. ETag(current) \in 0..MaxCommits
      BY CurrentFacts, IndexAssumption DEF ETag
    <3>2. Proceed(c, [job[c] EXCEPT !.pc = "swap", !.tag = ETag(current)])
      BY <1>2, <2>3 DEF FetchCurrentETag
    <3> QED
      BY <2>1, <2>2, <3>1, <3>2, JumpTag DEF GoesOn, SameWork
  <2>4. CASE ~Exists(current)
    <3>1. Proceed(c, [job[c] EXCEPT !.pc = "put"])
      BY <1>2, <2>4 DEF FetchCurrentETag
    <3> QED
      BY <2>1, <2>2, <3>1, Jump DEF GoesOn, SameWork
  <2> QED
    BY <2>3, <2>4
<1> QED
  BY <1>1, <1>2

LEMMA CommitStep ==
    ASSUME JobTypes, IndexTypes, NEW c \in Compactors,
           SwapCurrent(c) \/ RenameCurrent(c) \/ CreateCurrent(c)
    PROVE  \/ GoesOn(c)
           \/ Ends(c) /\ job[c].pc \in Committing /\ UNCHANGED <<logVars, indexVars>>
           \/ PutsCurrent(c)
<1>1. job[c].pc \in Committing
  BY DEF SwapCurrent, RenameCurrent, CreateCurrent, Committing
<1>2. ASSUME PutCurrent(c, Full(NextTag)), CleanUp(c)
      PROVE  PutsCurrent(c)
  BY <1>1, <1>2, PutFacts, CleanUpFacts DEF PutsCurrent
<1>3. CASE SwapCurrent(c)
  <2>1. \/ CommitLost(c) /\ UNCHANGED <<logVars, indexVars>>
        \/ Quit(c) /\ UNCHANGED <<logVars, indexVars>>
        \/ Proceed(c, [job[c] EXCEPT !.pc = "rename"]) /\ UNCHANGED <<logVars, indexVars>>
        \/ PutCurrent(c, Full(NextTag)) /\ CleanUp(c)
    BY <1>3 DEF SwapCurrent
  <2>2. "rename" \in JobPCs \cap Committing
    BY DEF JobPCs, Committing
  <2>3. CASE Proceed(c, [job[c] EXCEPT !.pc = "rename"]) /\ UNCHANGED <<logVars, indexVars>>
    BY <1>1, <2>2, <2>3, Jump DEF GoesOn, SameWork
  <2> QED
    BY <1>1, <1>2, <2>1, <2>3, LostFacts, Quits
<1>4. CASE RenameCurrent(c)
  BY <1>2, <1>4 DEF RenameCurrent
<1>5. CASE CreateCurrent(c)
  <2>1. \/ CommitLost(c) /\ UNCHANGED <<logVars, indexVars>>
        \/ /\ PutCurrent(c, Created(NextTag)) /\ Local /\ ~Exists(current)
           /\ Proceed(c, [job[c] EXCEPT !.pc = "firstWrite", !.tag = NextTag])
        \/ PutCurrent(c, Created(NextTag)) /\ ~Local /\ CleanUp(c)
    BY <1>5 DEF CreateCurrent
  <2>2. CASE CommitLost(c) /\ UNCHANGED <<logVars, indexVars>>
    BY <1>1, <2>2, LostFacts
  <2>3. CASE PutCurrent(c, Created(NextTag)) /\ ~Local /\ CleanUp(c)
    BY <1>2, <2>3 DEF Created
  <2>4. CASE /\ PutCurrent(c, Created(NextTag)) /\ Local /\ ~Exists(current)
             /\ Proceed(c, [job[c] EXCEPT !.pc = "firstWrite", !.tag = NextTag])
    <3>1. "firstWrite" \in JobPCs
      BY DEF JobPCs
    <3>2. NextTag \in 0..MaxCommits
      <4>1. Len(commits) \in Nat /\ Len(commits) < MaxCommits
        BY <2>4 DEF IndexTypes, PutCurrent
      <4> QED
        BY <4>1, IndexAssumption DEF NextTag
    <3>3. Only(c) /\ job'[c].pc = "firstWrite" /\ SameWork(job[c], job'[c]) /\ job'[c].tag = NextTag
      BY <2>4, <3>1, <3>2, JumpTag
    <3> QED
      BY <1>1, <2>4, <3>3, PutFacts DEF PutsCurrent, SameWork, Created
  <2> QED
    BY <2>1, <2>2, <2>3, <2>4
<1> QED
  BY <1>3, <1>4, <1>5

\* The file of the first CURRENT is written, or taken away again.
LEMMA FirstWriteStep ==
    ASSUME JobTypes, IndexTypes, NEW c \in Compactors, WriteCurrent(c) \/ WriteCurrentFails(c)
    PROVE  /\ job[c].pc = "firstWrite"
           /\ UNCHANGED <<logVars, checkpoint, commits>>
           /\ \/ CleansUp(c) /\ current' = Finished(current, job[c].tag)
              \/ Ends(c) /\ current' = Absent
BY CleanUpFacts, Quits DEF WriteCurrent, WriteCurrentFails

LEMMA AbandonStep ==
    ASSUME JobTypes, NEW c \in Compactors, AbandonCheckpoint(c)
    PROVE  /\ job[c].pc = "abandon" /\ Ends(c)
           /\ checkpoint' = [checkpoint EXCEPT ![job[c].gen + 1] = NoFile]
           /\ UNCHANGED <<logVars, current, commits>>
BY Quits DEF AbandonCheckpoint

-------------------------------------------------------------------------------
(* Cleanup and release *)

LEMMA DeleteSourceStep ==
    ASSUME JobTypes, NEW c \in Compactors, DeleteSource(c)
    PROVE  /\ job[c].pc = "delete" /\ Only(c) /\ job'[c].pc = "delete"
           /\ job'[c].gen = job[c].gen /\ job'[c].todo \subseteq job[c].todo
           /\ \E p \in job[c].todo : p \in Sources /\ log' = [log EXCEPT ![p] = 0]
           /\ UNCHANGED <<appending, appended, indexVars>>
<1>1. job[c] \in Jobs /\ job[c].pc = "delete" /\ UNCHANGED <<appending, appended, indexVars>>
  BY DEF DeleteSource, JobTypes
<1>2. PICK p \in job[c].todo : /\ log' = [log EXCEPT ![p] = 0]
                               /\ Proceed(c, [job[c] EXCEPT !.todo = @ \ {p}])
  BY DEF DeleteSource
<1> DEFINE d == job[c].todo \ {p}
           j == [job[c] EXCEPT !.todo = d]
<1>3. p \in Sources /\ d \in SUBSET Sources /\ d \subseteq job[c].todo
  BY <1>1, FieldTypes
<1>4. job' = [job EXCEPT ![c] = j]
  BY <1>2 DEF Proceed
<1> HIDE DEF d
<1>5. IsJob(j, job[c].pc, job[c].gen, job[c].skip, d, job[c].took, job[c].recs, job[c].base,
            job[c].tag, job[c].old)
  BY <1>1, <1>3, EditDelete
<1>6. j \in Jobs /\ j.pc = job[c].pc /\ j.gen = job[c].gen /\ j.todo = d
  BY <1>5 DEF IsJob
<1> HIDE DEF j
<1>7. Only(c) /\ job'[c] = j
  BY <1>4, <1>6, Becomes
<1> QED
  BY <1>1, <1>2, <1>3, <1>6, <1>7

LEMMA ListCheckpointsStep ==
    ASSUME JobTypes, NEW c \in Compactors, ListCheckpoints(c)
    PROVE  /\ job[c].pc \in Cleaning /\ Only(c) /\ job'[c].pc = "gc"
           /\ job'[c].gen = job[c].gen /\ job[c].gen + 1 \notin job'[c].old
           /\ UNCHANGED <<logVars, indexVars>>
<1>1. job[c] \in Jobs /\ job[c].pc \in Cleaning /\ UNCHANGED <<logVars, indexVars>>
  BY DEF ListCheckpoints, JobTypes, Cleaning
<1> DEFINE o == {g \in 1..MaxCommits : checkpoint[g] # NoFile} \ {job[c].gen + 1}
           j == [job[c] EXCEPT !.pc = "gc", !.old = o]
<1>2. job' = [job EXCEPT ![c] = j]
  BY DEF ListCheckpoints, Proceed
<1>3. o \in SUBSET (1..MaxCommits) /\ job[c].gen + 1 \notin o /\ "gc" \in JobPCs
  BY DEF JobPCs
<1> HIDE DEF o
<1>4. IsJob(j, "gc", job[c].gen, job[c].skip, job[c].todo, job[c].took, job[c].recs, job[c].base,
            job[c].tag, o)
  BY <1>1, <1>3, EditList
<1>5. j \in Jobs /\ j.pc = "gc" /\ j.gen = job[c].gen /\ j.old = o
  BY <1>4 DEF IsJob
<1> HIDE DEF j
<1>6. Only(c) /\ job'[c] = j
  BY <1>2, <1>5, Becomes
<1> QED
  BY <1>1, <1>3, <1>5, <1>6

LEMMA DeleteCheckpointStep ==
    ASSUME JobTypes, NEW c \in Compactors, DeleteCheckpoint(c)
    PROVE  /\ job[c].pc = "gc" /\ Only(c) /\ job'[c].pc = "gc"
           /\ job'[c].gen = job[c].gen /\ job'[c].old \subseteq job[c].old
           /\ \E g \in job[c].old :
                 g \in 1..MaxCommits /\ checkpoint' = [checkpoint EXCEPT ![g] = NoFile]
           /\ UNCHANGED <<logVars, current, commits>>
<1>1. job[c] \in Jobs /\ job[c].pc = "gc" /\ UNCHANGED <<logVars, current, commits>>
  BY DEF DeleteCheckpoint, JobTypes
<1>2. PICK g \in job[c].old : /\ checkpoint' = [checkpoint EXCEPT ![g] = NoFile]
                              /\ Proceed(c, [job[c] EXCEPT !.old = @ \ {g}])
  BY DEF DeleteCheckpoint
<1> DEFINE o == job[c].old \ {g}
           j == [job[c] EXCEPT !.old = o]
<1>3. g \in 1..MaxCommits /\ o \in SUBSET (1..MaxCommits) /\ o \subseteq job[c].old
  BY <1>1, FieldTypes
<1>4. job' = [job EXCEPT ![c] = j]
  BY <1>2 DEF Proceed
<1> HIDE DEF o
<1>5. IsJob(j, job[c].pc, job[c].gen, job[c].skip, job[c].todo, job[c].took, job[c].recs,
            job[c].base, job[c].tag, o)
  BY <1>1, <1>3, EditOld
<1>6. j \in Jobs /\ j.pc = job[c].pc /\ j.gen = job[c].gen /\ j.old = o
  BY <1>5 DEF IsJob
<1> HIDE DEF j
<1>7. Only(c) /\ job'[c] = j
  BY <1>4, <1>6, Becomes
<1> QED
  BY <1>1, <1>2, <1>3, <1>6, <1>7

LEMMA PcBecomes ==
    ASSUME JobTypes, NEW c \in Compactors, NEW l \in JobPCs, job' = [job EXCEPT ![c].pc = l]
    PROVE  Only(c) /\ job'[c].pc = l
<1> DEFINE j == [job[c] EXCEPT !.pc = l]
<1>1. job[c] \in Jobs
  BY DEF JobTypes
<1>2. IsJob(j, l, job[c].gen, job[c].skip, job[c].todo, job[c].took, job[c].recs, job[c].base,
            job[c].tag, job[c].old)
  BY <1>1, EditPc
<1>3. j \in Jobs /\ j.pc = l
  BY <1>2 DEF IsJob
<1>4. job' = [job EXCEPT ![c] = j]
  BY Zenon
<1> HIDE DEF j
<1> QED
  BY <1>3, <1>4, Becomes

\* Taking the lock does not touch the job, and giving it back leaves none to do.
LEMMA LockStep ==
    ASSUME JobTypes, NEW c \in Compactors,
           \/ AcquireLock(c) \/ LockRefused(c)
           \/ FindLock(c) \/ ReadLock(c) \/ DeleteLock(c) \/ Crash(c)
    PROVE  /\ UNCHANGED <<logVars, indexVars, reader, overlapped, consuming>>
           /\ \/ UNCHANGED job
              \/ Only(c) /\ (job'[c] = NoJob \/ job'[c].pc \in {"releaseRead", "releaseDelete"})
<1>1. CASE AcquireLock(c) \/ LockRefused(c)
  BY <1>1 DEF AcquireLock, LockRefused
<1>2. UNCHANGED <<logVars, indexVars, reader, overlapped, consuming>>
  BY DEF AcquireLock, LockRefused, FindLock, ReadLock, DeleteLock, Crash
<1>3. ASSUME job' = [job EXCEPT ![c] = NoJob]
      PROVE  Only(c) /\ job'[c] = NoJob
  BY <1>3, NoJobFields, Becomes
<1>4. ASSUME NEW l \in {"releaseRead", "releaseDelete"}, job' = [job EXCEPT ![c].pc = l]
      PROVE  Only(c) /\ job'[c].pc = l
  BY <1>4, PcBecomes DEF JobPCs
<1>5. CASE FindLock(c)
  <2>1. \/ job' = [job EXCEPT ![c] = NoJob]
        \/ job' = [job EXCEPT ![c].pc = "releaseRead"]
    BY <1>5, Zenon DEF FindLock
  <2> QED
    BY <1>2, <1>3, <1>4, <2>1
<1>6. CASE ReadLock(c)
  <2>1. \/ job' = [job EXCEPT ![c] = NoJob]
        \/ job' = [job EXCEPT ![c].pc = "releaseDelete"]
    BY <1>6, Zenon DEF ReadLock
  <2> QED
    BY <1>2, <1>3, <1>4, <2>1
<1>7. CASE DeleteLock(c) \/ Crash(c)
  BY <1>2, <1>3, <1>7 DEF DeleteLock, Crash
<1> QED
  BY <1>1, <1>5, <1>6, <1>7

-------------------------------------------------------------------------------
(* Type correctness *)

\* A compactor that keeps its own job typed keeps all of them typed.
LEMMA JobsKept ==
    ASSUME JobTypes, IndexTypes, IndexTypes', Len(commits) <= Len(commits'),
           NEW c \in Compactors, Only(c), JobOK(job[c])'
    PROVE  JobTypes'
<1>1. ASSUME NEW d \in Compactors, d # c PROVE JobOK(job[d])'
  <2>1. job'[d] = job[d] /\ JobOK(job[d]) /\ job[d].tag \in Int
    BY <1>1, FieldTypes DEF Only, JobTypes, JobOK
  <2>2. Len(commits) \in Int /\ Len(commits') \in Int
    BY DEF IndexTypes
  <2> QED
    BY <2>1, <2>2 DEF JobOK
<1> QED
  BY <1>1 DEF Only, JobTypes

\* The index stays typed under a checkpoint written, a checkpoint deleted, a new
\* body of CURRENT, and the end of the first one.
LEMMA CheckpointTyped ==
    ASSUME IndexTypes, NEW g \in 1..MaxCommits, NEW b \in Content \cup {NoFile},
           checkpoint' = [checkpoint EXCEPT ![g] = b], UNCHANGED <<current, commits>>
    PROVE  IndexTypes'
BY DEF IndexTypes

LEMMA PutTyped ==
    ASSUME IndexTypes, JobTypes, NEW c \in Compactors, PutsCurrent(c)
    PROVE  IndexTypes' /\ Len(commits') = Len(commits) + 1
<1>1. PICK S \in SUBSET job[c].took :
          commits' = Append(commits, [gen |-> job[c].gen + 1, folded |-> S])
  BY DEF PutsCurrent
<1>2. /\ job[c].took \in SUBSET Sources /\ job[c].gen < MaxCommits
      /\ job[c].gen + 1 \in 1..MaxCommits
  BY IndexAssumption, FieldTypes DEF JobTypes, JobOK, PutsCurrent
<1>3. [gen |-> job[c].gen + 1, folded |-> S] \in Commit
  BY <1>2 DEF Commit
<1>4. commits \in Seq(Commit) /\ Len(commits) \in Nat /\ Len(commits) < MaxCommits
  BY DEF IndexTypes, PutsCurrent
<1>5. commits' \in Seq(Commit) /\ Len(commits') = Len(commits) + 1
  BY <1>1, <1>3, <1>4
<1>6. current' \in Cell /\ current'.tag = Len(commits) + 1
  BY <1>4 DEF PutsCurrent, Full, Empty, Cell, NextTag
<1>7. checkpoint' = checkpoint
  BY DEF PutsCurrent
<1>8. Len(commits') <= MaxCommits
  BY <1>4, <1>5, IndexAssumption
<1> QED
  BY <1>4, <1>5, <1>6, <1>7, <1>8 DEF IndexTypes

LEMMA FirstTyped ==
    ASSUME IndexTypes, JobTypes, NEW c \in Compactors, job[c].pc = "firstWrite",
           UNCHANGED <<checkpoint, commits>>,
           current' = Finished(current, job[c].tag) \/ current' = Absent
    PROVE  IndexTypes'
<1>1. CASE current' = Absent
  BY <1>1 DEF IndexTypes, Absent, Cell, Exists
<1>2. CASE current' = current
  BY <1>2 DEF IndexTypes
<1>3. CASE current = Empty(job[c].tag) /\ current' = Full(job[c].tag)
  BY <1>3 DEF IndexTypes, Empty, Full, Cell, Exists
<1> QED
  BY <1>1, <1>2, <1>3 DEF Finished

LEMMA IndexKept ==
    ASSUME IndexTypes, JobTypes, LogTypes, NEW c \in Compactors, Cycle(c) \/ Crash(c)
    PROVE  IndexTypes' /\ LogTypes' /\ Len(commits) <= Len(commits')
<1>1. UNCHANGED indexVars => IndexTypes' /\ Len(commits) <= Len(commits')
  BY DEF IndexTypes, indexVars
<1>2. UNCHANGED logVars => LogTypes'
  BY DEF LogTypes, logVars
<1>3. ASSUME UNCHANGED <<logVars, indexVars>> PROVE IndexTypes' /\ LogTypes' /\ Len(commits) <= Len(commits')
  BY <1>1, <1>2, <1>3
<1>4. UNCHANGED commits => Len(commits) <= Len(commits')
  BY DEF IndexTypes
<1>5. CASE \/ AcquireLock(c) \/ LockRefused(c) \/ FindLock(c) \/ ReadLock(c) \/ DeleteLock(c)
           \/ Crash(c)
  BY <1>3, <1>5, LockStep
<1>6. CASE \/ ReadMeta(c) \/ ReadWatermark(c) \/ ListSources(c) \/ ReadSource(c) \/ SourcesRead(c)
           \/ ReadBase(c) \/ ReadCheckpoint(c) \/ CycleDone(c) \/ ListCheckpoints(c)
           \/ CheckCurrent(c) \/ FetchCurrentETag(c)
  BY <1>3, <1>6 DEF ReadMeta, ReadWatermark, ListSources, ReadSource, SourcesRead, ReadBase,
     ReadCheckpoint, CycleDone, ListCheckpoints, CheckCurrent, FetchCurrentETag
<1>7. CASE WriteCheckpoint(c)
  <2>1. /\ job[c].gen + 1 \in 1..MaxCommits
        /\ Fold(job[c].base, job[c].recs) \in Content
        /\ checkpoint' = [checkpoint EXCEPT ![job[c].gen + 1] = Fold(job[c].base, job[c].recs)]
    BY <1>7, WriteCheckpointStep, FoldFacts
  <2>2. UNCHANGED <<logVars, current, commits>>
    BY <1>7 DEF WriteCheckpoint
  <2> QED
    BY <1>2, <1>4, <2>1, <2>2, CheckpointTyped
<1>8. CASE SwapCurrent(c) \/ RenameCurrent(c) \/ CreateCurrent(c)
  <2>1. CASE PutsCurrent(c)
    <3>1. Len(commits) \in Nat /\ IndexTypes' /\ Len(commits') = Len(commits) + 1
      BY <2>1, PutTyped DEF IndexTypes
    <3>2. UNCHANGED logVars
      BY <2>1 DEF PutsCurrent
    <3> QED
      BY <1>2, <3>1, <3>2
  <2>2. CASE ~PutsCurrent(c)
    BY <1>3, <1>8, <2>2, CommitStep DEF GoesOn
  <2> QED
    BY <2>1, <2>2
<1>9. CASE WriteCurrent(c) \/ WriteCurrentFails(c)
  BY <1>2, <1>4, <1>9, FirstWriteStep, FirstTyped
<1>10. CASE AbandonCheckpoint(c)
  <2>1. job[c].gen + 1 \in 1..MaxCommits
    BY <1>10, AbandonStep, IndexAssumption, FieldTypes DEF JobTypes, JobOK
  <2> QED
    BY <1>2, <1>4, <1>10, <2>1, AbandonStep, CheckpointTyped
<1>11. CASE DeleteSource(c)
  <2>1. PICK p \in Sources : log' = [log EXCEPT ![p] = 0]
    BY <1>11, DeleteSourceStep
  <2>2. UNCHANGED <<appending, appended, indexVars>>
    BY <1>11 DEF DeleteSource
  <2>3. 0 \in Versions
    BY IndexAssumption DEF Versions
  <2> QED
    BY <1>1, <2>1, <2>2, <2>3 DEF LogTypes
<1>12. CASE DeleteCheckpoint(c)
  BY <1>2, <1>4, <1>12, DeleteCheckpointStep, CheckpointTyped
<1> QED
  BY <1>5, <1>6, <1>7, <1>8, <1>9, <1>10, <1>11, <1>12 DEF Cycle

LEMMA JobKept ==
    ASSUME IndexTypes, JobTypes, LogTypes, NEW c \in Compactors, Cycle(c) \/ Crash(c)
    PROVE  JobTypes'
<1>1. /\ job[c] \in Jobs /\ JobOK(job[c])
      /\ IndexTypes' /\ Len(commits) <= Len(commits')
  BY IndexKept DEF JobTypes
<1>2. ASSUME Only(c), job'[c] = NoJob \/ job'[c].pc \in {"release", "releaseRead", "releaseDelete"}
      PROVE  JobTypes'
  <2>1. job'[c] \in Jobs
    BY <1>2 DEF Only
  <2>2. JobOK(job[c])'
    BY <1>2, <2>1, NoJobFields DEF JobOK, Committing, Cleaning
  <2> QED
    BY <1>1, <1>2, <2>2, JobsKept
<1>3. Ends(c) => JobTypes'
  BY <1>2 DEF Ends
\* the steps of Reading, which write is the last of
<1>4. ASSUME Only(c), job'[c].pc \in Reading, job'[c].pc = "checkpoint" => job'[c].tag # 0
      PROVE  JobTypes'
  <2>1. job'[c] \in Jobs
    BY <1>4 DEF Only
  <2>2. JobOK(job[c])'
    BY <1>4, <2>1 DEF JobOK, Reading, Committing, Cleaning
  <2> QED
    BY <1>1, <1>4, <2>2, JobsKept
\* the steps of Committing and Cleaning
<1>5. ASSUME Only(c), job'[c].pc \in Committing \cup Cleaning \cup {"abandon"},
             job'[c].gen = job[c].gen, job[c].gen < MaxCommits
      PROVE  JobTypes'
  <2>1. job'[c] \in Jobs
    BY <1>5 DEF Only
  <2>2. JobOK(job[c])'
    BY <1>5, <2>1 DEF JobOK, Committing, Cleaning
  <2> QED
    BY <1>1, <1>5, <2>2, JobsKept
<1>6. CASE \/ AcquireLock(c) \/ LockRefused(c) \/ FindLock(c) \/ ReadLock(c) \/ DeleteLock(c)
           \/ Crash(c)
  <2>1. CASE UNCHANGED job
    <3>1. \A d \in Compactors : JobOK(job[d])'
      <4>1. UNCHANGED indexVars
        BY <1>6, LockStep
      <4> QED
        BY <2>1, <4>1 DEF JobTypes, JobOK, indexVars
    <3> QED
      BY <2>1, <3>1 DEF JobTypes
  <2> QED
    BY <1>2, <1>6, <2>1, LockStep
<1>7. CASE ReadMeta(c) \/ ReadWatermark(c) \/ ListSources(c) \/ ReadSource(c) \/ SourcesRead(c)
  BY <1>2, <1>3, <1>4, <1>7, ReadMetaStep, WatermarkStep, ListStep, SourceStep, SourcesReadStep
     DEF Reading
<1>8. CASE ReadBase(c)
  <2>1. current.st = "full" => Generation \in 0..MaxCommits /\ Generation # 0
    BY CurrentFacts, IndexAssumption DEF Generation, Exists
  <2> QED
    BY <1>3, <1>4, <1>8, <2>1, ReadBaseStep DEF Reading
<1>9. CASE ReadCheckpoint(c)
  BY <1>3, <1>4, <1>9, ReadCheckpointStep DEF Reading
<1>10. CASE WriteCheckpoint(c)
  <2>1. job[c].gen < MaxCommits
    BY <1>10 DEF WriteCheckpoint
  <2> QED
    BY <1>5, <1>10, <2>1, WriteCheckpointStep DEF Committing
<1>11. ASSUME job[c].pc \in Committing \cup Cleaning \cup {"firstWrite", "abandon"}
       PROVE  job[c].gen < MaxCommits
  BY <1>1, <1>11 DEF JobOK
<1>12. CASE CheckCurrent(c) \/ FetchCurrentETag(c)
  BY <1>5, <1>11, <1>12, CheckStep DEF GoesOn
<1>13. CASE SwapCurrent(c) \/ RenameCurrent(c) \/ CreateCurrent(c)
  <2>1. CASE PutsCurrent(c) /\ job'[c].pc = "firstWrite"
    <3>1. Only(c) /\ job'[c].tag = NextTag /\ job'[c].gen = job[c].gen /\ job[c].gen < MaxCommits
      BY <1>11, <2>1 DEF PutsCurrent, CleansUp, Cleaning
    <3>2. Len(commits') = Len(commits) + 1 /\ Len(commits) \in Nat
      BY <2>1, PutTyped DEF IndexTypes
    <3>3. job'[c] \in Jobs
      BY <3>1 DEF Only
    <3>4. JobOK(job[c])'
      BY <2>1, <3>1, <3>2, <3>3 DEF JobOK, NextTag
    <3> QED
      BY <1>1, <3>1, <3>4, JobsKept
  <2>2. CASE PutsCurrent(c) /\ job'[c].pc # "firstWrite"
    BY <1>5, <1>11, <2>2 DEF PutsCurrent, CleansUp
  <2> QED
    BY <1>3, <1>5, <1>11, <1>13, <2>1, <2>2, CommitStep DEF GoesOn
<1>14. CASE WriteCurrent(c) \/ WriteCurrentFails(c)
  BY <1>3, <1>5, <1>11, <1>14, FirstWriteStep DEF CleansUp
<1>15. CASE AbandonCheckpoint(c)
  BY <1>3, <1>15, AbandonStep
<1>16. CASE DeleteSource(c) \/ ListCheckpoints(c) \/ DeleteCheckpoint(c)
  BY <1>5, <1>11, <1>16, DeleteSourceStep, ListCheckpointsStep, DeleteCheckpointStep DEF Cleaning
<1>17. CASE CycleDone(c)
  BY <1>3, <1>17, Quits DEF CycleDone
<1> QED
  BY <1>6, <1>7, <1>8, <1>9, <1>10, <1>12, <1>13, <1>14, <1>15, <1>16, <1>17 DEF Cycle

-------------------------------------------------------------------------------
(* What each step of hybrid_read does to the read, field by field *)

\* d is a read with these fields.
IsRead(d, l, g, s, t, o, w, n) ==
    /\ d \in Reads
    /\ d.pc = l /\ d.gen = g /\ d.skip = s /\ d.todo = t /\ d.out = o /\ d.owed = w /\ d.since = n

LEMMA ReadFields ==
    ASSUME NEW d, NEW l \in ReadPCs, NEW g \in 0..MaxCommits, NEW s \in SUBSET Sources,
           NEW t \in SUBSET Sources, NEW o \in Content, NEW w \in Content,
           NEW n \in 0..MaxCommits,
           d = [pc |-> l, gen |-> g, skip |-> s, todo |-> t, out |-> o, owed |-> w, since |-> n]
    PROVE  IsRead(d, l, g, s, t, o, w, n)
BY DEF Reads, IsRead

LEMMA ReadFieldTypes ==
    ASSUME NEW d \in Reads
    PROVE  /\ d.pc \in ReadPCs /\ d.gen \in 0..MaxCommits /\ d.skip \in SUBSET Sources
           /\ d.todo \in SUBSET Sources /\ d.out \in Content /\ d.owed \in Content
           /\ d.since \in 0..MaxCommits /\ 0 \in 0..MaxCommits
BY IndexAssumption DEF Reads

LEMMA NoReadFields == IsRead(NoRead, "idle", 0, {}, {}, Nothing, Nothing, 0)
BY IndexAssumption DEF NoRead, Reads, ReadPCs, Nothing, Content, Versions, IsRead

\* The EXCEPTs of hybrid_read, field by field
LEMMA ReadPc ==
    ASSUME NEW d \in Reads, NEW l \in ReadPCs
    PROVE  IsRead([d EXCEPT !.pc = l], l, d.gen, d.skip, d.todo, d.out, d.owed, d.since)
<1>1. SUFFICES ASSUME NEW e, e = [d EXCEPT !.pc = l]
               PROVE  IsRead(e, l, d.gen, d.skip, d.todo, d.out, d.owed, d.since)
  OBVIOUS
<1>2. e = [pc |-> l, gen |-> d.gen, skip |-> d.skip, todo |-> d.todo, out |-> d.out,
           owed |-> d.owed, since |-> d.since]
  BY <1>1 DEF Reads
<1> QED
  BY <1>2, ReadFieldTypes, ReadFields

LEMMA ReadGen ==
    ASSUME NEW d \in Reads, NEW l \in ReadPCs, NEW g \in 0..MaxCommits
    PROVE  IsRead([d EXCEPT !.pc = l, !.gen = g], l, g, d.skip, d.todo, d.out, d.owed,
                  d.since)
<1>1. SUFFICES ASSUME NEW e, e = [d EXCEPT !.pc = l, !.gen = g]
               PROVE  IsRead(e, l, g, d.skip, d.todo, d.out, d.owed, d.since)
  OBVIOUS
<1>2. e = [pc |-> l, gen |-> g, skip |-> d.skip, todo |-> d.todo, out |-> d.out,
           owed |-> d.owed, since |-> d.since]
  BY <1>1 DEF Reads
<1> QED
  BY <1>2, ReadFieldTypes, ReadFields

LEMMA ReadOut ==
    ASSUME NEW d \in Reads, NEW l \in ReadPCs, NEW g \in 0..MaxCommits, NEW o \in Content
    PROVE  IsRead([d EXCEPT !.pc = l, !.gen = g, !.out = o], l, g, d.skip, d.todo, o,
                  d.owed, d.since)
<1>1. SUFFICES ASSUME NEW e, e = [d EXCEPT !.pc = l, !.gen = g, !.out = o]
               PROVE  IsRead(e, l, g, d.skip, d.todo, o, d.owed, d.since)
  OBVIOUS
<1>2. e = [pc |-> l, gen |-> g, skip |-> d.skip, todo |-> d.todo, out |-> o,
           owed |-> d.owed, since |-> d.since]
  BY <1>1 DEF Reads
<1> QED
  BY <1>2, ReadFieldTypes, ReadFields

LEMMA ReadSkip ==
    ASSUME NEW d \in Reads, NEW l \in ReadPCs, NEW s \in SUBSET Sources
    PROVE  IsRead([d EXCEPT !.pc = l, !.skip = s], l, d.gen, s, d.todo, d.out, d.owed,
                  d.since)
<1>1. SUFFICES ASSUME NEW e, e = [d EXCEPT !.pc = l, !.skip = s]
               PROVE  IsRead(e, l, d.gen, s, d.todo, d.out, d.owed, d.since)
  OBVIOUS
<1>2. e = [pc |-> l, gen |-> d.gen, skip |-> s, todo |-> d.todo, out |-> d.out,
           owed |-> d.owed, since |-> d.since]
  BY <1>1 DEF Reads
<1> QED
  BY <1>2, ReadFieldTypes, ReadFields

LEMMA ReadTodo ==
    ASSUME NEW d \in Reads, NEW l \in ReadPCs, NEW s \in SUBSET Sources, NEW t \in SUBSET
           Sources
    PROVE  IsRead([d EXCEPT !.pc = l, !.skip = s, !.todo = t], l, d.gen, s, t, d.out,
                  d.owed, d.since)
<1>1. SUFFICES ASSUME NEW e, e = [d EXCEPT !.pc = l, !.skip = s, !.todo = t]
               PROVE  IsRead(e, l, d.gen, s, t, d.out, d.owed, d.since)
  OBVIOUS
<1>2. e = [pc |-> l, gen |-> d.gen, skip |-> s, todo |-> t, out |-> d.out,
           owed |-> d.owed, since |-> d.since]
  BY <1>1 DEF Reads
<1> QED
  BY <1>2, ReadFieldTypes, ReadFields

LEMMA ReadPath ==
    ASSUME NEW d \in Reads, NEW t \in SUBSET Sources, NEW o \in Content
    PROVE  IsRead([d EXCEPT !.todo = t, !.out = o], d.pc, d.gen, d.skip, t, o, d.owed,
                  d.since)
<1>1. SUFFICES ASSUME NEW e, e = [d EXCEPT !.todo = t, !.out = o]
               PROVE  IsRead(e, d.pc, d.gen, d.skip, t, o, d.owed, d.since)
  OBVIOUS
<1>2. e = [pc |-> d.pc, gen |-> d.gen, skip |-> d.skip, todo |-> t, out |-> o,
           owed |-> d.owed, since |-> d.since]
  BY <1>1 DEF Reads
<1> QED
  BY <1>2, ReadFieldTypes, ReadFields

LEMMA ReadBegins ==
    ASSUME NEW d \in Reads, NEW l \in ReadPCs, NEW g \in 0..MaxCommits, NEW w \in Content,
           NEW n \in 0..MaxCommits
    PROVE  IsRead([d EXCEPT !.pc = l, !.gen = g, !.owed = w, !.since = n], l, g, d.skip,
                  d.todo, d.out, w, n)
<1>1. SUFFICES ASSUME NEW e, e = [d EXCEPT !.pc = l, !.gen = g, !.owed = w, !.since = n]
               PROVE  IsRead(e, l, g, d.skip, d.todo, d.out, w, n)
  OBVIOUS
<1>2. e = [pc |-> l, gen |-> g, skip |-> d.skip, todo |-> d.todo, out |-> d.out,
           owed |-> w, since |-> n]
  BY <1>1 DEF Reads
<1> QED
  BY <1>2, ReadFieldTypes, ReadFields

\* No other read changes.
OnlyRead(r) == reader' \in [Readers -> Reads] /\ \A q \in Readers \ {r} : reader'[q] = reader[q]

LEMMA ReadBecomes ==
    ASSUME ReaderTypes, NEW r \in Readers, NEW d \in Reads, reader' = [reader EXCEPT ![r] = d]
    PROVE  OnlyRead(r) /\ reader'[r] = d
BY DEF ReaderTypes, OnlyRead

\* What a read still owes and when it began
SameRead(d, e) == e.owed = d.owed /\ e.since = d.since

LEMMA HybridCurrentStep ==
    ASSUME ReaderTypes, IndexTypes, LogTypes, NEW r \in Readers, HybridCurrent(r)
    PROVE  /\ OnlyRead(r) /\ current.st # "empty"
           /\ reader'[r].pc = IF current.st = "full" THEN "checkpoint" ELSE "watermark"
           /\ reader'[r].gen = Generation /\ reader'[r].out = Nothing
           /\ reader'[r].skip = {} /\ reader'[r].todo = {}
           /\ reader'[r].owed = appended /\ reader'[r].since = Len(commits)
<1> DEFINE l == IF current.st = "full" THEN "checkpoint" ELSE "watermark"
           g == IF current.st = "full" THEN commits[current.tag].gen ELSE 0
           n == Len(commits)
           e == [NoRead EXCEPT !.pc = l, !.gen = g, !.owed = appended, !.since = n]
<1>1. reader' = [reader EXCEPT ![r] = e] /\ current.st # "empty"
  BY DEF HybridCurrent, ReadOn
<1>2. g = Generation /\ g \in 0..MaxCommits
  BY CurrentFacts DEF Generation
<1>3. l \in ReadPCs /\ appended \in Content
  BY DEF ReadPCs, LogTypes
<1>4. n \in 0..MaxCommits
  BY IndexAssumption DEF IndexTypes
<1>5. l = IF current.st = "full" THEN "checkpoint" ELSE "watermark"
  OBVIOUS
<1> HIDE DEF l, g, n
<1>6. NoRead \in Reads /\ NoRead.skip = {} /\ NoRead.todo = {} /\ NoRead.out = Nothing
  BY NoReadFields DEF IsRead
<1>7. IsRead(e, l, g, NoRead.skip, NoRead.todo, NoRead.out, appended, n)
  BY <1>2, <1>3, <1>4, <1>6, ReadBegins
<1>8. /\ e \in Reads /\ e.pc = l /\ e.gen = g /\ e.out = Nothing /\ e.skip = {} /\ e.todo = {}
      /\ e.owed = appended /\ e.since = n
  BY <1>6, <1>7 DEF IsRead
<1> HIDE DEF e
<1>9. OnlyRead(r) /\ reader'[r] = e
  BY <1>1, <1>8, ReadBecomes
<1> QED
  BY <1>1, <1>2, <1>5, <1>8, <1>9 DEF n

\* A read ends when it raises.
LEMMA HybridForgets ==
    ASSUME ReaderTypes, NEW r \in Readers, ReadOn(r, NoRead)
    PROVE  OnlyRead(r) /\ reader'[r] = NoRead
BY NoReadFields, ReadBecomes DEF ReadOn, IsRead

LEMMA HybridCheckpointStep ==
    ASSUME ReaderTypes, IndexTypes, NEW r \in Readers, HybridCheckpoint(r)
    PROVE  /\ reader[r].pc = "checkpoint" /\ reader[r].gen \in 1..MaxCommits
           /\ OnlyRead(r)
           /\ \/ reader'[r] = NoRead
              \/ /\ reader'[r].pc = "watermark" /\ SameRead(reader[r], reader'[r])
                 /\ reader'[r].skip = reader[r].skip
                 /\ reader'[r].out = IF checkpoint[reader[r].gen] = NoFile THEN reader[r].out
                                     ELSE checkpoint[reader[r].gen]
<1>1. reader[r] \in Reads /\ reader[r].pc = "checkpoint" /\ reader[r].gen # 0
  BY DEF HybridCheckpoint, ReaderTypes, ReaderOK
<1>2. reader[r].gen \in 1..MaxCommits /\ 0 \in 0..MaxCommits /\ "watermark" \in ReadPCs
  BY <1>1, ReadFieldTypes, IndexAssumption DEF ReadPCs
<1> DEFINE body == checkpoint[reader[r].gen]
           e == [reader[r] EXCEPT !.pc = "watermark", !.gen = 0, !.out = body]
           f == [reader[r] EXCEPT !.pc = "watermark", !.gen = 0]
<1>3. \/ ReadOn(r, NoRead)
      \/ body # NoFile /\ reader' = [reader EXCEPT ![r] = e]
      \/ body = NoFile /\ reader' = [reader EXCEPT ![r] = f]
  BY DEF HybridCheckpoint, ReadOn
<1>4. CASE ReadOn(r, NoRead)
  BY <1>1, <1>2, <1>4, HybridForgets
<1>5. CASE body # NoFile /\ reader' = [reader EXCEPT ![r] = e]
  <2>1. body \in Content
    BY <1>2, <1>5 DEF IndexTypes
  <2>2. IsRead(e, "watermark", 0, reader[r].skip, reader[r].todo, body, reader[r].owed,
               reader[r].since)
    BY <1>1, <1>2, <2>1, ReadOut
  <2>3. /\ e \in Reads /\ e.pc = "watermark" /\ SameRead(reader[r], e) /\ e.skip = reader[r].skip
        /\ e.out = body
    BY <2>2 DEF IsRead, SameRead
  <2>4. OnlyRead(r) /\ reader'[r] = e
    <3> HIDE DEF e
    <3> QED
      BY <1>5, <2>3, ReadBecomes
  <2> HIDE DEF e
  <2> QED
    BY <1>1, <1>2, <1>5, <2>3, <2>4
<1>6. CASE body = NoFile /\ reader' = [reader EXCEPT ![r] = f]
  <2>1. IsRead(f, "watermark", 0, reader[r].skip, reader[r].todo, reader[r].out, reader[r].owed,
               reader[r].since)
    BY <1>1, <1>2, ReadGen
  <2>2. /\ f \in Reads /\ f.pc = "watermark" /\ SameRead(reader[r], f) /\ f.skip = reader[r].skip
        /\ f.out = reader[r].out
    BY <2>1 DEF IsRead, SameRead
  <2>3. OnlyRead(r) /\ reader'[r] = f
    <3> HIDE DEF f
    <3> QED
      BY <1>6, <2>2, ReadBecomes
  <2> HIDE DEF f
  <2> QED
    BY <1>1, <1>2, <1>6, <2>2, <2>3
<1> QED
  BY <1>3, <1>4, <1>5, <1>6

LEMMA HybridWatermarkStep ==
    ASSUME ReaderTypes, IndexTypes, NEW r \in Readers, HybridWatermark(r)
    PROVE  /\ reader[r].pc = "watermark" /\ OnlyRead(r)
           /\ \/ reader'[r] = NoRead
              \/ /\ reader'[r].pc = "list" /\ SameRead(reader[r], reader'[r])
                 /\ reader'[r].skip = Folded /\ reader'[r].out = reader[r].out
<1>1. reader[r] \in Reads /\ reader[r].pc = "watermark"
  BY DEF HybridWatermark, ReaderTypes
<1> DEFINE e == [reader[r] EXCEPT !.pc = "list", !.skip = Folded]
<1>2. ReadOn(r, NoRead) \/ reader' = [reader EXCEPT ![r] = e]
  BY DEF HybridWatermark, ReadOn
<1>3. "list" \in ReadPCs /\ Folded \in SUBSET Sources
  BY CurrentFacts DEF ReadPCs
<1>4. IsRead(e, "list", reader[r].gen, Folded, reader[r].todo, reader[r].out, reader[r].owed,
             reader[r].since)
  BY <1>1, <1>3, ReadSkip
<1>5. /\ e \in Reads /\ e.pc = "list" /\ SameRead(reader[r], e) /\ e.skip = Folded
      /\ e.out = reader[r].out
  BY <1>4 DEF IsRead, SameRead
<1> HIDE DEF e
<1> QED
  BY <1>1, <1>2, <1>5, ReadBecomes, HybridForgets

LEMMA HybridListStep ==
    ASSUME ReaderTypes, NEW r \in Readers, HybridList(r)
    PROVE  /\ reader[r].pc = "list" /\ OnlyRead(r)
           /\ reader'[r].pc = "enumerate" /\ SameRead(reader[r], reader'[r])
           /\ reader'[r].skip = {} /\ reader'[r].todo = Present \ reader[r].skip
           /\ reader'[r].out = reader[r].out
<1>1. reader[r] \in Reads /\ reader[r].pc = "list"
  BY DEF HybridList, ReaderTypes
<1> DEFINE d == Present \ reader[r].skip
           e == [reader[r] EXCEPT !.pc = "enumerate", !.skip = {}, !.todo = d]
<1>2. reader' = [reader EXCEPT ![r] = e]
  BY DEF HybridList, ReadOn
<1>3. "enumerate" \in ReadPCs /\ {} \in SUBSET Sources /\ d \in SUBSET Sources
  BY DEF ReadPCs, Present
<1> HIDE DEF d
<1>4. IsRead(e, "enumerate", reader[r].gen, {}, d, reader[r].out, reader[r].owed, reader[r].since)
  BY <1>1, <1>3, ReadTodo
<1>5. /\ e \in Reads /\ e.pc = "enumerate" /\ SameRead(reader[r], e) /\ e.skip = {} /\ e.todo = d
      /\ e.out = reader[r].out
  BY <1>4 DEF IsRead, SameRead
<1> HIDE DEF e
<1>6. OnlyRead(r) /\ reader'[r] = e
  BY <1>2, <1>5, ReadBecomes
<1> QED
  BY <1>1, <1>5, <1>6 DEF d

LEMMA HybridSourceStep ==
    ASSUME ReaderTypes, LogTypes, NEW r \in Readers, HybridSource(r)
    PROVE  /\ reader[r].pc = "enumerate" /\ OnlyRead(r)
           /\ reader'[r].pc = "enumerate" /\ SameRead(reader[r], reader'[r])
           /\ reader'[r].skip = reader[r].skip
           /\ \A k \in Ids : reader'[r].out[k] >= reader[r].out[k]
           /\ \E p \in reader[r].todo :
                 /\ reader'[r].todo = reader[r].todo \ {p}
                 /\ \A k \in Ids : p = File(k) => reader'[r].out[k] >= log[p]
<1> DEFINE d == reader[r]
<1>1. d \in Reads /\ d.pc = "enumerate"
  BY DEF HybridSource, ReaderTypes
<1>2. PICK p \in d.todo : \E v \in ReadsOf(p) :
          ReadOn(r, [d EXCEPT !.todo = @ \ {p},
                              !.out = Fold(@, [Nothing EXCEPT ![p[1]] = v])])
  BY DEF HybridSource
<1>3. PICK v \in ReadsOf(p) :
          ReadOn(r, [d EXCEPT !.todo = @ \ {p},
                              !.out = Fold(@, [Nothing EXCEPT ![p[1]] = v])])
  BY <1>2
<1> DEFINE t == d.todo \ {p}
           o == Fold(d.out, [Nothing EXCEPT ![p[1]] = v])
           e == [d EXCEPT !.todo = t, !.out = o]
<1>4. p \in Sources /\ v \in Versions
  BY <1>1, ReadFieldTypes, IndexAssumption DEF ReadsOf, LogTypes, Versions
<1>5. o \in Content /\ (\A m \in Ids : o[m] >= d.out[m]) /\ o[p[1]] >= v
  BY <1>1, <1>4, ReadFieldTypes, RecordFacts
<1>6. t \in SUBSET Sources
  BY <1>1, ReadFieldTypes
<1>7. \A k \in Ids : p = File(k) => o[k] >= log[p]
  <2> HIDE DEF o
  <2>1. ASSUME NEW k \in Ids, p = File(k) PROVE v = log[p] /\ p[1] = k
    BY <2>1, SourceFacts DEF ReadsOf
  <2> QED
    BY <1>5, <2>1
<1>8. reader' = [reader EXCEPT ![r] = e]
  BY <1>3 DEF ReadOn
<1> HIDE DEF d, t, o
<1>9. IsRead(e, d.pc, d.gen, d.skip, t, o, d.owed, d.since)
  BY <1>1, <1>5, <1>6, ReadPath
<1>10. /\ e \in Reads /\ e.pc = d.pc /\ SameRead(d, e) /\ e.skip = d.skip /\ e.todo = t /\ e.out = o
  BY <1>9 DEF IsRead, SameRead
<1> HIDE DEF e
<1>11. OnlyRead(r) /\ reader'[r] = e
  BY <1>8, <1>10, ReadBecomes
<1> QED
  BY <1>1, <1>2, <1>5, <1>7, <1>10, <1>11 DEF d, t

LEMMA HybridReturnStep ==
    ASSUME ReaderTypes, NEW r \in Readers, HybridReturn(r)
    PROVE  /\ reader[r].pc = "enumerate" /\ reader[r].todo = {} /\ OnlyRead(r)
           /\ reader'[r].pc = "done" /\ SameRead(reader[r], reader'[r])
           /\ reader'[r].skip = reader[r].skip /\ reader'[r].todo = {}
           /\ reader'[r].out = reader[r].out
<1>1. reader[r] \in Reads /\ reader[r].pc = "enumerate" /\ reader[r].todo = {}
  BY DEF HybridReturn, ReaderTypes
<1> DEFINE e == [reader[r] EXCEPT !.pc = "done"]
<1>2. reader' = [reader EXCEPT ![r] = e] /\ "done" \in ReadPCs
  BY DEF HybridReturn, ReadOn, ReadPCs
<1>3. IsRead(e, "done", reader[r].gen, reader[r].skip, reader[r].todo, reader[r].out,
             reader[r].owed, reader[r].since)
  BY <1>1, <1>2, ReadPc
<1>4. /\ e \in Reads /\ e.pc = "done" /\ SameRead(reader[r], e) /\ e.skip = reader[r].skip
      /\ e.todo = {} /\ e.out = reader[r].out
  BY <1>1, <1>3 DEF IsRead, SameRead
<1> HIDE DEF e
<1> QED
  BY <1>1, <1>2, <1>4, ReadBecomes

LEMMA ReaderKept ==
    ASSUME ReaderTypes, IndexTypes, LogTypes, NEW r \in Readers, HybridRead(r)
    PROVE  ReaderTypes'
<1>1. ASSUME OnlyRead(r), reader'[r].pc = "checkpoint" => reader'[r].gen # 0
      PROVE  ReaderTypes'
  BY <1>1 DEF OnlyRead, ReaderTypes, ReaderOK
<1>2. reader'[r] = NoRead => reader'[r].pc = "idle"
  BY NoReadFields DEF IsRead
<1>3. CASE HybridCurrent(r)
  <2>1. current.st = "full" => Generation # 0
    BY CurrentFacts, IndexAssumption DEF Generation, Exists
  <2> QED
    BY <1>1, <1>3, <2>1, HybridCurrentStep
<1>4. CASE HybridCheckpoint(r) \/ HybridWatermark(r)
  BY <1>1, <1>2, <1>4, HybridCheckpointStep, HybridWatermarkStep
<1>5. CASE HybridList(r) \/ HybridSource(r) \/ HybridReturn(r)
  BY <1>1, <1>5, HybridListStep, HybridSourceStep, HybridReturnStep
<1>6. CASE HybridForget(r)
  BY <1>1, <1>2, <1>6, HybridForgets DEF HybridForget
<1> QED
  BY <1>3, <1>4, <1>5, <1>6 DEF HybridRead

-------------------------------------------------------------------------------

Types == /\ LogTypes /\ IndexTypes /\ JobTypes /\ ReaderTypes
         /\ overlapped \in BOOLEAN /\ consuming \in Modes

LEMMA InitTypes == Init => Types
<1> SUFFICES ASSUME Init PROVE Types
  OBVIOUS
<1>1. 0 \in Versions /\ Nothing \in Content
  BY NoJobFields, IndexAssumption DEF Nothing, Content, Versions
<1>2. LogTypes
  BY <1>1 DEF Init, LogTypes
<1>3. IndexTypes
  BY IndexAssumption DEF Init, IndexTypes, Absent, Cell, Exists
<1>4. JobTypes
  BY NoJobFields DEF Init, JobTypes, JobOK, Committing, Cleaning
<1>5. ReaderTypes
  BY NoReadFields DEF Init, ReaderTypes, ReaderOK, IsRead
<1> QED
  BY <1>2, <1>3, <1>4, <1>5 DEF Types, Init

LEMMA OtherVars ==
    ASSUME NEW c \in Compactors, Cycle(c) \/ Crash(c), Types
    PROVE  reader' = reader /\ consuming' = consuming /\ (ReadMeta(c) \/ overlapped' = overlapped)
BY DEF Cycle, Crash, AcquireLock, LockRefused, ReadWatermark, ListSources, ReadSource,
   SourcesRead, ReadBase, ReadCheckpoint, WriteCheckpoint, CheckCurrent, FetchCurrentETag,
   SwapCurrent, RenameCurrent, CreateCurrent, WriteCurrent, WriteCurrentFails,
   AbandonCheckpoint, DeleteSource, ListCheckpoints, DeleteCheckpoint, CycleDone, FindLock,
   ReadLock, DeleteLock, CleanUp, CommitLost, Quit, Proceed, ReadMeta

LEMMA NextTypes == Types /\ [Next]_vars => Types'
<1> SUFFICES ASSUME Types, [Next]_vars PROVE Types'
  OBVIOUS
<1>1. CASE \E c \in Compactors : Cycle(c) \/ Crash(c)
  <2>1. PICK c \in Compactors : Cycle(c) \/ Crash(c)
    BY <1>1
  <2>2. LogTypes' /\ IndexTypes' /\ JobTypes'
    BY <2>1, IndexKept, JobKept DEF Types
  <2>3. ReaderTypes' /\ consuming' \in Modes
    BY <2>1, OtherVars DEF Types, ReaderTypes, ReaderOK
  <2>4. overlapped' \in BOOLEAN
    BY <2>1, OtherVars DEF Types, ReadMeta
  <2> QED
    BY <2>2, <2>3, <2>4 DEF Types
<1>2. ASSUME UNCHANGED <<indexVars, job, reader, overlapped, consuming>>, LogTypes'
      PROVE  Types'
  BY <1>2 DEF Types, indexVars, IndexTypes, JobTypes, JobOK, ReaderTypes, ReaderOK
<1>3. UNCHANGED logVars => LogTypes'
  BY DEF Types, LogTypes, logVars
<1>4. CASE \E k \in Ids : AppendStep(k)
  BY <1>2, <1>4, AppendTyped, AppendMoves DEF Types
<1>5. CASE \E r \in Readers : HybridRead(r)
  <2>1. PICK r \in Readers : HybridRead(r)
    BY <1>5
  <2>2. ReaderTypes'
    BY <2>1, ReaderKept DEF Types
  <2>3. UNCHANGED <<claimVars, logVars, indexVars, job, overlapped, consuming>>
    BY <2>1, ReadMoves
  <2> QED
    BY <1>3, <2>2, <2>3 DEF Types, indexVars, IndexTypes, JobTypes, JobOK
<1>6. CASE Lapse
  BY <1>2, <1>3, <1>6, LapseMoves
<1>7. CASE UNCHANGED vars
  BY <1>2, <1>3, <1>7 DEF vars
<1> QED
  BY <1>1, <1>4, <1>5, <1>6, <1>7, Steps

LEMMA Typed == Spec => []Types
BY InitTypes, NextTypes, PTL DEF Spec

\* Every variable stays in its range: a checkpoint is a function on the ids, a
\* body of CURRENT names a generation from 1 up, and no compactor reaches past
\* what compact_once and hybrid_read can have in hand.
THEOREM IndexTyped == Spec => []TypeOK
<1>1. P!IInv /\ Types => TypeOK
  BY WorkerClaims, TypesSplit DEF Types
<1> QED
  BY <1>1, LockSound, Typed, PTL

-------------------------------------------------------------------------------
(* Only lapsed leases let two compactors run at once *)

LEMMA LockOnly ==
    ASSUME Claim!TypeOK, NEW c \in Compactors,
           \/ AcquireLock(c) \/ LockRefused(c)
           \/ FindLock(c) \/ ReadLock(c) \/ DeleteLock(c) \/ Crash(c)
    PROVE  \A d \in Compactors \ {c} : pc'[d] = pc[d] /\ mine'[d] = mine[d]
<1>1. pc \in [Compactors -> Claim!PCs] /\ mine \in [Compactors -> 0..MaxTags]
  BY DEF Claim!TypeOK
<1>2. CASE AcquireLock(c)
  BY <1>1, <1>2 DEF AcquireLock, Claim!Try, Claim!Write, Claim!WriteFails, Claim!CheckExists,
     Claim!Recreate, Claim!Read, Claim!Recheck, Claim!FetchETag, Claim!Swap, Claim!Rename,
     Claim!CreateIfAbsent, Claim!Place, Claim!Goto
<1>3. CASE LockRefused(c) \/ FindLock(c) \/ ReadLock(c) \/ DeleteLock(c) \/ Crash(c)
  BY <1>1, <1>3 DEF LockRefused, FindLock, ReadLock, DeleteLock, Crash, Claim!Return,
     Claim!FindLease, Claim!Abandon, Claim!DeleteLease, Claim!Leave, Claim!Goto, claimVars
<1> QED
  BY <1>2, <1>3

\* acquire_lease makes its calls on a lease that is there without one of its own.
LEMMA Acquires ==
    ASSUME Claim!TypeOK, NEW c \in Compactors, AcquireLock(c), InJob, pc[c] = "idle" => mine[c] = 0
    PROVE  /\ pc'[c] \notin {"deleting", "put"}
           /\ pc'[c] \in Acquiring => mine'[c] = 0
<1>1. pc \in [Compactors -> Claim!PCs] /\ mine \in [Compactors -> 0..MaxTags]
  BY DEF Claim!TypeOK
<1>2. pc[c] \in Acquiring => mine[c] = 0
  BY DEF InJob
<1>3. ASSUME NEW p, NEW l \in Acquiring \cup {"lost"}, mine[c] = 0, Claim!CreateIfAbsent(c, p, l)
      PROVE  pc'[c] \in {"writing", "held"} \/ (pc'[c] = l /\ mine'[c] = 0)
  BY <1>1, <1>3 DEF Claim!CreateIfAbsent, Claim!Goto
<1>4. CASE Claim!Try(c, Lock)
  <2>1. pc[c] = "idle" /\ Claim!CreateIfAbsent(c, Lock, "exists")
    BY <1>4 DEF Claim!Try
  <2> QED
    BY <1>3, <2>1 DEF Acquiring
<1>5. CASE Claim!Recreate(c)
  <2>1. pc[c] \in Acquiring /\ Claim!CreateIfAbsent(c, at[c], "lost")
    BY <1>5 DEF Claim!Recreate, Acquiring
  <2> QED
    BY <1>2, <1>3, <2>1 DEF Acquiring
<1>6. CASE Claim!Write(c) \/ Claim!WriteFails(c)
  BY <1>1, <1>6 DEF Claim!Write, Claim!WriteFails, Claim!Goto, Acquiring
<1>7. CASE Claim!CheckExists(c) \/ Claim!Recheck(c) \/ Claim!Read(c)
  BY <1>1, <1>2, <1>7 DEF Claim!CheckExists, Claim!Recheck, Claim!Read, Claim!Goto, Acquiring
<1>8. CASE Claim!FetchETag(c)
  BY <1>1, <1>2, <1>8 DEF Claim!FetchETag, Claim!Goto, Acquiring
<1>9. CASE Claim!Swap(c) \/ Claim!Rename(c)
  <2>1. pc'[c] \in {"held", "lost", "raised"} \/ (pc'[c] = "rename" /\ mine'[c] = mine[c])
    BY <1>1, <1>9 DEF Claim!Swap, Claim!Rename, Claim!Goto, Claim!Refused, Claim!Raised
  <2> QED
    BY <1>2, <1>9, <2>1 DEF Acquiring, Claim!Swap, Claim!Rename
<1> QED
  BY <1>4, <1>5, <1>6, <1>7, <1>8, <1>9 DEF AcquireLock

\* Giving the lock back ends with no job and no claim.
LEMMA Releases ==
    ASSUME JobTypes, Claim!TypeOK, NEW c \in Compactors,
           job[c].pc \in {"releaseRead", "releaseDelete"} => pc[c] = "deleting",
           FindLock(c) \/ ReadLock(c) \/ DeleteLock(c) \/ Crash(c)
    PROVE  /\ Only(c)
           /\ \/ job'[c] = NoJob /\ pc'[c] = "idle"
              \/ job'[c].pc \in {"releaseRead", "releaseDelete"} /\ pc'[c] = "deleting"
<1>1. pc \in [Compactors -> Claim!PCs]
  BY DEF Claim!TypeOK
<1>2. Claim!Leave(c) => pc'[c] = "idle"
  BY <1>1 DEF Claim!Leave, Claim!Goto
<1>3. ASSUME job' = [job EXCEPT ![c] = NoJob]
      PROVE  Only(c) /\ job'[c] = NoJob
  BY <1>3, NoJobFields, Becomes
<1>4. ASSUME NEW l \in {"releaseRead", "releaseDelete"}, job' = [job EXCEPT ![c].pc = l]
      PROVE  Only(c) /\ job'[c].pc = l
  BY <1>4, PcBecomes DEF JobPCs
<1>5. CASE FindLock(c)
  <2>1. CASE Exists(lease[at[c]])
    <3>1. pc'[c] = "deleting"
      BY <1>1, <1>5, <2>1 DEF FindLock, Claim!FindLease, Claim!Goto, Claim!Exists, Exists
    <3>2. job' = [job EXCEPT ![c].pc = "releaseRead"]
      BY <1>5, <3>1, Zenon DEF FindLock
    <3> QED
      BY <1>4, <3>1, <3>2
  <2>2. CASE ~Exists(lease[at[c]])
    <3>1. pc'[c] = "idle"
      BY <1>2, <1>5, <2>2 DEF FindLock, Claim!FindLease, Claim!Exists, Exists
    <3>2. job' = [job EXCEPT ![c] = NoJob]
      BY <1>5, <3>1, Zenon DEF FindLock
    <3> QED
      BY <1>3, <3>1, <3>2
  <2> QED
    BY <2>1, <2>2
<1>6. CASE ReadLock(c)
  <2>1. \/ job' = [job EXCEPT ![c] = NoJob] /\ Claim!Leave(c)
        \/ job' = [job EXCEPT ![c].pc = "releaseDelete"] /\ UNCHANGED claimVars
    BY <1>6, Zenon DEF ReadLock, Claim!Abandon
  <2>2. job[c].pc = "releaseRead"
    BY <1>6 DEF ReadLock
  <2>3. UNCHANGED claimVars => pc' = pc
    BY DEF claimVars
  <2> QED
    BY <1>2, <1>3, <1>4, <2>1, <2>2, <2>3
<1>7. CASE DeleteLock(c) \/ Crash(c)
  BY <1>2, <1>3, <1>7 DEF DeleteLock, Crash, Claim!DeleteLease, Claim!Abandon
<1> QED
  BY <1>5, <1>6, <1>7

\* The steps of _compact_body are those of one that holds the lock, and leave
\* its claim alone.
JobStep(c) ==
    \/ ReadMeta(c) \/ ReadWatermark(c) \/ ListSources(c) \/ ReadSource(c) \/ SourcesRead(c)
    \/ ReadBase(c) \/ ReadCheckpoint(c) \/ WriteCheckpoint(c) \/ CheckCurrent(c)
    \/ FetchCurrentETag(c) \/ SwapCurrent(c) \/ RenameCurrent(c) \/ CreateCurrent(c)
    \/ WriteCurrent(c) \/ WriteCurrentFails(c) \/ AbandonCheckpoint(c) \/ DeleteSource(c)
    \/ ListCheckpoints(c) \/ DeleteCheckpoint(c) \/ CycleDone(c)

LEMMA JobStepClaims ==
    ASSUME NEW c \in Compactors, JobStep(c)
    PROVE  UNCHANGED claimVars /\ (Working(c) \/ (ReadMeta(c) /\ pc[c] = "held"))
<1>1. CASE ReadMeta(c)
  BY <1>1 DEF ReadMeta
<1>2. CASE ~ReadMeta(c)
  BY <1>2 DEF JobStep, ReadWatermark, ListSources, ReadSource, SourcesRead, ReadBase,
     ReadCheckpoint, WriteCheckpoint, CheckCurrent, FetchCurrentETag, SwapCurrent, RenameCurrent,
     CreateCurrent, WriteCurrent, WriteCurrentFails, AbandonCheckpoint, DeleteSource,
     ListCheckpoints, DeleteCheckpoint, CycleDone, CleanUp, CommitLost, Quit, Proceed, Working
<1> QED
  BY <1>1, <1>2

LEMMA JobStepOnly ==
    ASSUME JobTypes, IndexTypes, LogTypes, NEW c \in Compactors, JobStep(c)
    PROVE  Only(c) /\ job'[c].pc \notin {"idle", "releaseRead", "releaseDelete"}
<1>1. CASE \/ ReadMeta(c) \/ ReadWatermark(c) \/ ListSources(c) \/ ReadSource(c)
           \/ SourcesRead(c) \/ ReadBase(c) \/ ReadCheckpoint(c) \/ WriteCheckpoint(c)
  BY <1>1, ReadMetaStep, WatermarkStep, ListStep, SourceStep, SourcesReadStep, ReadBaseStep,
     ReadCheckpointStep, WriteCheckpointStep DEF Ends
<1>2. CASE \/ CheckCurrent(c) \/ FetchCurrentETag(c) \/ SwapCurrent(c) \/ RenameCurrent(c)
           \/ CreateCurrent(c) \/ WriteCurrent(c) \/ WriteCurrentFails(c)
  BY <1>2, CheckStep, CommitStep, FirstWriteStep
     DEF Ends, GoesOn, PutsCurrent, CleansUp, Committing, Cleaning
<1>3. CASE \/ AbandonCheckpoint(c) \/ DeleteSource(c) \/ ListCheckpoints(c)
           \/ DeleteCheckpoint(c) \/ CycleDone(c)
  BY <1>3, AbandonStep, DeleteSourceStep, ListCheckpointsStep, DeleteCheckpointStep, Quits
     DEF Ends, CycleDone
<1> QED
  BY <1>1, <1>2, <1>3 DEF JobStep

LEMMA InJobInit == Init => InJob
BY NoJobFields DEF Init, InJob, Acquiring, Working, Claim!Init

LEMMA InJobNext ==
    ASSUME Types, Claim!TypeOK, InJob, [Next]_vars,
           \A c \in Compactors : pc[c] = "idle" => mine[c] = 0
    PROVE  InJob'
<1>1. UNCHANGED <<pc, mine, job>> => InJob'
  BY DEF InJob, Working
<1>2. CASE \E c \in Compactors : Cycle(c) \/ Crash(c)
  <2>1. PICK c \in Compactors : Cycle(c) \/ Crash(c)
    BY <1>2
  <2> DEFINE Fine(d) ==
        /\ job[d].pc = "idle" => pc[d] \notin {"deleting", "put"}
        /\ pc[d] \in Acquiring => mine[d] = 0
        /\ Working(d) \/ job[d].pc = "release" => pc[d] = "held"
        /\ job[d].pc \in {"releaseRead", "releaseDelete"} => pc[d] = "deleting"
  <2>2. \A d \in Compactors : Fine(d)
    BY DEF InJob
  <2>3. ASSUME \A d \in Compactors \ {c} : /\ job'[d] = job[d] /\ pc'[d] = pc[d]
                                           /\ mine'[d] = mine[d],
               Fine(c)'
        PROVE  InJob'
    <3>1. \A d \in Compactors \ {c} : Fine(d)'
      BY <2>2, <2>3 DEF Working
    <3> QED
      BY <2>3, <3>1 DEF InJob
  <2>4. Only(c) \/ UNCHANGED job => \A d \in Compactors \ {c} : job'[d] = job[d]
    BY DEF Only
  <2>5. JobTypes /\ IndexTypes /\ LogTypes
    BY DEF Types
  <2>6. pc \in [Compactors -> Claim!PCs] /\ mine \in [Compactors -> 0..MaxTags]
    BY DEF Claim!TypeOK
  \* the steps of a job but its last: the claim stays as it is
  <2>7. ASSUME UNCHANGED claimVars, Only(c), pc[c] = "held",
               job'[c].pc \notin {"releaseRead", "releaseDelete"}
        PROVE  InJob'
    <3>1. Fine(c)'
      BY <2>7 DEF claimVars, Acquiring, Working
    <3> QED
      BY <2>3, <2>4, <2>7, <3>1 DEF claimVars
  <2>8. Working(c) => pc[c] = "held"
    BY <2>2
  <2>9. CASE AcquireLock(c) \/ LockRefused(c)
    <3>1. UNCHANGED job /\ job[c].pc = "idle"
      BY <2>9 DEF AcquireLock, LockRefused, Unlocked
    <3>2. pc'[c] \notin {"deleting", "put"} /\ (pc'[c] \in Acquiring => mine'[c] = 0)
      <4>1. CASE LockRefused(c)
        BY <2>6, <4>1 DEF LockRefused, Claim!Return, Claim!Leave, Claim!Goto
      <4> QED
        BY <2>9, <4>1, Acquires
    <3>3. Fine(c)'
      BY <3>1, <3>2 DEF Working
    <3> QED
      BY <2>3, <2>4, <2>9, <3>1, <3>3, LockOnly
  <2>10. CASE FindLock(c) \/ ReadLock(c) \/ DeleteLock(c) \/ Crash(c)
    <3>1. /\ Only(c)
          /\ \/ job'[c] = NoJob /\ pc'[c] = "idle"
             \/ job'[c].pc \in {"releaseRead", "releaseDelete"} /\ pc'[c] = "deleting"
      BY <2>2, <2>5, <2>10, Releases
    <3>2. Fine(c)'
      BY <3>1, NoJobFields DEF Acquiring, Working
    <3> QED
      BY <2>3, <2>4, <2>10, <3>1, <3>2, LockOnly
  <2>11. CASE JobStep(c)
    <3>1. UNCHANGED claimVars /\ pc[c] = "held"
      BY <2>8, <2>11, JobStepClaims
    <3>2. Only(c) /\ job'[c].pc \notin {"releaseRead", "releaseDelete"}
      BY <2>5, <2>11, JobStepOnly
    <3> QED
      BY <2>7, <3>1, <3>2
  <2> QED
    BY <2>1, <2>9, <2>10, <2>11 DEF Cycle, JobStep
<1>3. CASE UNCHANGED <<pc, mine, job>>
  BY <1>1, <1>3
<1> QED
  BY <1>2, <1>3, Steps, AppendMoves, ReadMoves, LapseMoves DEF vars, claimVars

\* At most one compactor is in _compact_body until two have been.
Sole == ~overlapped => \A c, d \in Compactors : Working(c) /\ Working(d) => c = d

LEMMA SoleNext ==
    ASSUME Types, Sole, [Next]_vars
    PROVE  Sole'
<1>1. UNCHANGED <<job, overlapped>> => Sole'
  BY DEF Sole, Working
<1>2. CASE \E c \in Compactors : Cycle(c) \/ Crash(c)
  <2>1. PICK c \in Compactors : Cycle(c) \/ Crash(c)
    BY <1>2
  <2>2. JobTypes /\ IndexTypes /\ LogTypes
    BY DEF Types
  <2>3. CASE JobStep(c) /\ ~ReadMeta(c)
    <3>1. Working(c) /\ Only(c) /\ overlapped' = overlapped
      BY <2>1, <2>2, <2>3, JobStepClaims, JobStepOnly, OtherVars
    <3>2. \A d \in Compactors : Working(d)' => Working(d)
      BY <3>1 DEF Only, Working
    <3> QED
      BY <3>1, <3>2 DEF Sole
  <2>4. CASE ReadMeta(c)
    <3>1. Only(c) /\ overlapped' = (overlapped \/ \E d \in Compactors \ {c} : Working(d))
      BY <2>2, <2>4, ReadMetaStep DEF ReadMeta
    <3>2. \A d \in Compactors \ {c} : Working(d)' => Working(d)
      BY <3>1 DEF Only, Working
    <3> QED
      BY <3>1, <3>2 DEF Sole
  <2>5. CASE ~JobStep(c)
    <3>1. /\ UNCHANGED overlapped
          /\ \/ UNCHANGED job
             \/ Only(c) /\ (job'[c] = NoJob \/ job'[c].pc \in {"releaseRead", "releaseDelete"})
      BY <2>1, <2>2, <2>5, LockStep DEF Cycle, JobStep
    <3>2. Only(c) => \A d \in Compactors \ {c} : Working(d)' => Working(d)
      BY DEF Only, Working
    <3>3. job'[c] = NoJob \/ job'[c].pc \in {"releaseRead", "releaseDelete"} => ~Working(c)'
      BY NoJobFields DEF Working
    <3> QED
      BY <1>1, <3>1, <3>2, <3>3 DEF Sole
  <2> QED
    BY <2>3, <2>4, <2>5
<1> QED
  BY <1>1, <1>2, Steps, AppendMoves, ReadMoves, LapseMoves DEF vars

LEMMA SoleInit == Init => Sole
BY NoJobFields DEF Init, Sole, Working

\* No lapse, no overlap
LapseFree == dead[Lock] = {} => ~overlapped

LEMMA DeadKept ==
    ASSUME NEW c \in Compactors, Cycle(c) \/ Crash(c)
    PROVE  dead' = dead
<1>1. CASE JobStep(c)
  BY <1>1, JobStepClaims DEF claimVars
<1>2. CASE ~JobStep(c)
  BY <1>2 DEF Cycle, JobStep, AcquireLock, LockRefused, FindLock, ReadLock, DeleteLock, Crash,
     Claim!Try, Claim!Write, Claim!WriteFails, Claim!CheckExists, Claim!Recreate, Claim!Read,
     Claim!Recheck, Claim!FetchETag, Claim!Swap, Claim!Rename, Claim!Return, Claim!FindLease,
     Claim!DeleteLease, Claim!Abandon, Claim!CreateIfAbsent, Claim!Place, Claim!leaseVars,
     claimVars
<1> QED
  BY <1>1, <1>2

\* Without a lapse a compactor that holds the lock has a lease of its own, and no
\* two do.
LEMMA LoneHolder ==
    ASSUME P!IInv, dead[Lock] = {}, NEW c \in Compactors, NEW d \in Compactors,
           pc[c] = "held", pc[d] = "held"
    PROVE  c = d
<1>1. at[c] = Lock /\ at[d] = Lock
  BY WorkerClaims
<1>2. mine[c] # 0 /\ mine[d] # 0
  BY <1>1 DEF P!IInv, P!NoReclaim, P!Asking
<1> QED
  BY <1>1, <1>2, WorkerClaims

LEMMA LapseFreeNext ==
    ASSUME Types, P!IInv, InJob, LapseFree, [Next]_vars
    PROVE  LapseFree'
<1>1. UNCHANGED <<dead, overlapped>> => LapseFree'
  BY DEF LapseFree
<1>2. CASE \E c \in Compactors : Cycle(c) \/ Crash(c)
  <2>1. PICK c \in Compactors : Cycle(c) \/ Crash(c)
    BY <1>2
  <2>2. dead' = dead /\ (ReadMeta(c) \/ overlapped' = overlapped)
    BY <2>1, DeadKept, OtherVars
  <2>3. CASE ReadMeta(c) /\ dead[Lock] = {}
    <3>1. pc[c] = "held" /\ overlapped' = (overlapped \/ \E d \in Compactors \ {c} : Working(d))
      BY <2>3 DEF ReadMeta
    <3>2. \A d \in Compactors \ {c} : ~Working(d)
      BY <2>3, <3>1, LoneHolder DEF InJob
    <3> QED
      BY <2>3, <3>1, <3>2 DEF LapseFree
  <2> QED
    BY <1>1, <2>2, <2>3 DEF LapseFree
<1>3. CASE Lapse
  BY <1>3, LapseMoves DEF Lapse, LapseFree
<1> QED
  BY <1>1, <1>2, <1>3, Steps, AppendMoves, ReadMoves DEF vars, claimVars

\* What of the lock reaches the index
LInv == InJob /\ Sole /\ LapseFree

LEMMA LockInv == Spec => [](P!IInv /\ Types /\ LInv)
<1>1. Init => LInv
  BY InJobInit, SoleInit DEF Init, LInv, LapseFree
<1>2. P!IInv => \A c \in Compactors : pc[c] = "idle" => mine[c] = 0
  BY DEF P!IInv, P!Standing
<1>3. P!IInv /\ Types /\ LInv /\ [Next]_vars => LInv'
  BY <1>2, WorkerClaims, InJobNext, SoleNext, LapseFreeNext DEF LInv
<1> QED
  BY <1>1, <1>3, LockSound, Typed, PTL DEF Spec

\* Two compactors are in _compact_body at once only after a lease on
\* compactor.lock has run past its expires_at: the lock excludes compactors as
\* long as a cycle takes less than a lease time.
THEOREM NoOverlapBeforeLapse == Spec => []LapseFree
BY LockInv, PTL DEF LInv

-------------------------------------------------------------------------------
(* What a compactor knows of the index while it is alone *)

\* Before its commit a job has the generation of CURRENT in hand, and with its
\* base all that is committed; its checkpoint holds that much too, and lies one
\* generation on.  After its commit CURRENT names that checkpoint, and the
\* garbage collection has it not on its list.
Knows(c) ==
    /\ job[c].pc \in Reading \cup Committing \cup {"abandon"} =>
          current.st # "empty" /\ job[c].gen = Generation
    /\ job[c].pc = "checkpoint" => current.st = "full" /\ job[c].tag = Generation
    /\ job[c].pc \in Reading \ {"write"} => job[c].base = Nothing
    /\ job[c].pc = "write" => \A k \in Ids : job[c].base[k] >= Committed[k]
    /\ job[c].pc \in Committing \cup {"firstWrite"} =>
          /\ checkpoint[job[c].gen + 1] # NoFile
          /\ \A k \in Ids : checkpoint[job[c].gen + 1][k] >= Committed[k]
    /\ job[c].pc = "firstWrite" =>
          current = Empty(job[c].tag) /\ commits[job[c].tag].gen = job[c].gen + 1
    /\ job[c].pc \in Cleaning => current.st = "full" /\ job[c].gen + 1 = Generation
    /\ job[c].pc = "gc" => job[c].gen + 1 \notin job[c].old

NotDangling == current.st = "full" => checkpoint[Generation] # NoFile

KInv == ~overlapped => NotDangling /\ \A c \in Compactors : Knows(c)

\* A compactor that is in no cycle knows nothing.
LEMMA NotWorking ==
    ASSUME NEW c \in Compactors, job[c].pc \in {"idle", "release", "releaseRead", "releaseDelete"}
    PROVE  Knows(c)
BY DEF Knows, Reading, Committing, Cleaning

LEMMA CommittedFacts ==
    ASSUME IndexTypes
    PROVE  /\ Committed \in Content
           /\ Committed = IF current.st = "full" /\ checkpoint[Generation] # NoFile
                          THEN checkpoint[Generation] ELSE Nothing
           /\ current.st = "full" => Generation \in 1..MaxCommits
           /\ current.st # "full" => Generation = 0
           /\ \A k \in Ids : Committed[k] \in Nat /\ Nothing[k] = 0
<1>1. Nothing \in Content /\ \A k \in Ids : Nothing[k] = 0
  BY IndexAssumption DEF Nothing, Content, Versions
<1>2. current.st = "full" => Generation \in 1..MaxCommits /\ Generation = commits[current.tag].gen
  BY CurrentFacts DEF Generation, Exists
<1>3. current.st # "full" => Generation = 0
  BY DEF Generation
<1>4. Committed = IF current.st = "full" /\ checkpoint[Generation] # NoFile
                  THEN checkpoint[Generation] ELSE Nothing
  BY <1>2 DEF Committed
<1>5. Committed \in Content
  BY <1>1, <1>2, <1>4 DEF IndexTypes
<1>6. \A k \in Ids : Committed[k] \in Nat
  BY <1>5, IndexAssumption DEF Content, Versions
<1> QED
  BY <1>1, <1>2, <1>3, <1>4, <1>5, <1>6

\* The committed checkpoint stays what it is while CURRENT and its file do.
LEMMA CommittedSame ==
    ASSUME IndexTypes, UNCHANGED <<current, commits>>,
           current.st = "full" => checkpoint'[Generation] = checkpoint[Generation]
    PROVE  Generation' = Generation /\ Committed' = Committed
           /\ (NotDangling => NotDangling')
BY DEF Generation, Committed, NotDangling

LEMMA KnowsReading ==
    ASSUME Types, NEW c \in Compactors, Knows(c), NotDangling,
           \/ ReadMeta(c) \/ ReadWatermark(c) \/ ListSources(c) \/ ReadSource(c) \/ SourcesRead(c)
           \/ ReadBase(c) \/ ReadCheckpoint(c)
    PROVE  Knows(c)'
<1>1. JobTypes /\ IndexTypes /\ LogTypes /\ job[c] \in Jobs
  BY DEF Types, JobTypes
<1>2. UNCHANGED indexVars
  BY DEF ReadMeta, ReadWatermark, ListSources, ReadSource, SourcesRead, ReadBase, ReadCheckpoint
<1>3. Generation' = Generation /\ Committed' = Committed /\ current' = current
  BY <1>1, <1>2, CommittedSame DEF indexVars
<1>4. Ends(c) => Knows(c)'
  BY DEF Ends, Knows, Reading, Committing, Cleaning
<1>5. ASSUME job'[c].pc \in Reading \ {"write", "checkpoint"}, job'[c].base = Nothing,
             job'[c].gen = Generation, current.st # "empty"
      PROVE  Knows(c)'
  BY <1>3, <1>5 DEF Knows, Reading, Committing, Cleaning
<1>6. ASSUME job'[c].pc = "write", \A k \in Ids : job'[c].base[k] >= Committed[k],
             job'[c].gen = Generation, current.st # "empty"
      PROVE  Knows(c)'
  BY <1>3, <1>6 DEF Knows, Reading, Committing, Cleaning
<1>7. CASE ReadMeta(c)
  <2>1. job'[c].pc = "release" => Knows(c)'
    BY DEF Knows, Reading, Committing, Cleaning
  <2> QED
    BY <1>1, <1>5, <1>7, <2>1, ReadMetaStep DEF Reading
<1>8. CASE ReadWatermark(c) \/ ListSources(c) \/ ReadSource(c) \/ SourcesRead(c)
  <2>1. \/ Ends(c)
        \/ /\ job[c].pc \in Reading \ {"write"} /\ job'[c].pc \in Reading \ {"write", "checkpoint"}
           /\ job'[c].gen = job[c].gen /\ job'[c].base = job[c].base
    BY <1>1, <1>8, WatermarkStep, ListStep, SourceStep, SourcesReadStep DEF SameWork, Reading
  <2>2. job[c].pc \in Reading \ {"write"} =>
           job[c].gen = Generation /\ job[c].base = Nothing /\ current.st # "empty"
    BY DEF Knows
  <2> QED
    BY <1>4, <1>5, <2>1, <2>2
<1>9. CASE ReadBase(c)
  <2>1. job[c].pc = "base"
    BY <1>1, <1>9, ReadBaseStep
  <2>2. job[c].gen = Generation /\ job[c].base = Nothing /\ current.st # "empty"
    BY <2>1 DEF Knows, Reading
  <2>3. CASE Only(c) /\ SameWork(job[c], job'[c]) /\ job'[c].pc = "write" /\ current.st = "absent"
    <3>1. Committed = Nothing /\ \A k \in Ids : Nothing[k] = 0
      BY <1>1, <2>3, CommittedFacts
    <3> QED
      BY <1>6, <2>2, <2>3, <3>1 DEF SameWork
  <2>4. CASE /\ Only(c) /\ SameWork(job[c], job'[c]) /\ job'[c].pc = "checkpoint"
             /\ current.st = "full" /\ job'[c].tag = Generation
    BY <1>3, <2>2, <2>4 DEF Knows, Reading, Committing, Cleaning, SameWork
  <2> QED
    BY <1>1, <1>4, <1>9, <2>3, <2>4, ReadBaseStep
<1>10. CASE ReadCheckpoint(c)
  <2>1. job[c].pc = "checkpoint"
    BY <1>1, <1>10, ReadCheckpointStep
  <2>2. /\ job[c].gen = Generation /\ job[c].base = Nothing /\ current.st = "full"
        /\ job[c].tag = Generation
    BY <2>1 DEF Knows, Reading
  <2>3. CASE Ends(c)
    BY <1>4, <2>3
  <2>4. CASE ~Ends(c)
    <3>1. /\ job'[c].pc = "write" /\ job'[c].gen = job[c].gen
          /\ job'[c].base = IF checkpoint[job[c].tag] = NoFile THEN job[c].base
                            ELSE checkpoint[job[c].tag]
      BY <1>1, <1>10, <2>4, ReadCheckpointStep
    <3>2. job'[c].base = Committed /\ \A k \in Ids : Committed[k] \in Nat
      BY <1>1, <2>2, <3>1, CommittedFacts DEF NotDangling
    <3> QED
      BY <1>6, <2>2, <3>1, <3>2
  <2> QED
    BY <2>3, <2>4
<1> QED
  BY <1>7, <1>8, <1>9, <1>10

\* Writing the checkpoint of the next generation leaves the committed one alone.
LEMMA KnowsCheckpoint ==
    ASSUME Types, NEW c \in Compactors, Knows(c), NotDangling, WriteCheckpoint(c)
    PROVE  Knows(c)' /\ NotDangling' /\ Committed' = Committed /\ Generation' = Generation
<1>1. JobTypes /\ IndexTypes /\ LogTypes
  BY DEF Types
<1> DEFINE b == Fold(job[c].base, job[c].recs)
           g == job[c].gen + 1
<1>2. /\ job[c].pc = "write" /\ g \in 1..MaxCommits
      /\ job[c].base \in Content /\ job[c].recs \in Content
      /\ checkpoint' = [checkpoint EXCEPT ![g] = b]
      /\ job'[c].pc = "commit" /\ job'[c].gen = job[c].gen
  BY <1>1, WriteCheckpointStep
<1>3. UNCHANGED <<current, commits>>
  BY DEF WriteCheckpoint
<1>4. /\ job[c].gen = Generation /\ current.st # "empty"
      /\ \A k \in Ids : job[c].base[k] >= Committed[k]
  BY <1>2 DEF Knows, Reading
<1>5. Generation \in Nat /\ g # Generation
  BY <1>1, <1>4, CurrentFacts
<1>6. b \in Content /\ \A k \in Ids : b[k] >= job[c].base[k]
  BY <1>2, FoldFacts
<1>7. checkpoint'[g] = b /\ checkpoint'[Generation] = checkpoint[Generation]
  <2> HIDE DEF b, g
  <2> QED
    BY <1>1, <1>2, <1>5 DEF IndexTypes
<1>8. Committed' = Committed /\ Generation' = Generation /\ NotDangling'
  BY <1>1, <1>3, <1>7, CommittedSame
<1>9. \A k \in Ids : b[k] \in Int /\ job[c].base[k] \in Int /\ Committed[k] \in Int
  <2> HIDE DEF b
  <2> QED
    BY <1>1, <1>2, <1>6, CommittedFacts, IndexAssumption DEF Content, Versions
<1>10. b # NoFile /\ \A k \in Ids : b[k] >= Committed[k]
  <2> HIDE DEF b
  <2> QED
    BY <1>4, <1>6, <1>9, IndexAssumption
<1> HIDE DEF b
<1> QED
  BY <1>2, <1>3, <1>4, <1>7, <1>8, <1>10 DEF Knows, Reading, Committing, Cleaning

\* The commit: CURRENT names the job's checkpoint, which holds no less than the
\* one it named before; on a local disk the first CURRENT is empty for a while.
LEMMA KnowsPut ==
    ASSUME Types, NEW c \in Compactors, Knows(c), PutsCurrent(c)
    PROVE  /\ Knows(c)' /\ NotDangling'
           /\ \A k \in Ids : Committed'[k] >= Committed[k]
           /\ current'.st = "full" => Committed' = checkpoint[job[c].gen + 1]
<1>1. IndexTypes /\ JobTypes /\ IndexTypes'
  BY PutTyped DEF Types
<1>2. PICK S \in SUBSET job[c].took :
          commits' = Append(commits, [gen |-> job[c].gen + 1, folded |-> S])
  BY DEF PutsCurrent
<1>3. Len(commits) \in Nat /\ commits'[NextTag].gen = job[c].gen + 1
  BY <1>1, <1>2 DEF IndexTypes, NextTag
<1>4. /\ job[c].pc \in Committing /\ checkpoint' = checkpoint
      /\ job'[c].gen = job[c].gen
  BY DEF PutsCurrent, CleansUp
<1>5. /\ checkpoint[job[c].gen + 1] # NoFile
      /\ \A k \in Ids : checkpoint[job[c].gen + 1][k] >= Committed[k]
  BY <1>4 DEF Knows
<1>6. CASE current' = Full(NextTag) /\ CleansUp(c)
  <2>1. Generation' = job[c].gen + 1
    BY <1>3, <1>6 DEF Generation, Full
  <2>2. current'.st = "full"
    BY <1>6 DEF Full
  <2>3. NotDangling'
    BY <1>4, <1>5, <2>1 DEF NotDangling
  <2>4. Committed' = checkpoint[job[c].gen + 1]
    BY <1>1, <1>4, <1>5, <2>1, <2>2 DEF Committed, Generation
  <2>5. Knows(c)'
    BY <1>4, <1>6, <2>1, <2>2 DEF Knows, CleansUp, Reading, Committing, Cleaning
  <2> QED
    BY <1>5, <2>2, <2>3, <2>4, <2>5
<1>7. CASE /\ current' = Empty(NextTag) /\ ~Exists(current)
           /\ Only(c) /\ job'[c].pc = "firstWrite" /\ job'[c].tag = NextTag
  <2>1. current'.st # "full"
    BY <1>7 DEF Empty
  <2>2. NotDangling' /\ Committed' = Nothing
    BY <2>1 DEF NotDangling, Committed
  <2>3. \A k \in Ids : checkpoint'[job'[c].gen + 1][k] >= Committed'[k]
    <3>1. job[c].gen + 1 \in 1..MaxCommits
      BY <1>1, <1>4, FieldTypes, IndexAssumption DEF JobTypes, JobOK
    <3>2. checkpoint[job[c].gen + 1] \in Content
      BY <1>1, <1>5, <3>1 DEF IndexTypes
    <3> QED
      BY <1>4, <2>2, <3>2, IndexAssumption DEF Content, Versions, Nothing
  <2>4. Knows(c)'
    BY <1>3, <1>4, <1>5, <1>7, <2>3 DEF Knows, Reading, Committing, Cleaning
  <2>5. Committed = Nothing /\ \A k \in Ids : Nothing[k] = 0
    BY <1>1, <1>7, CommittedFacts DEF Exists
  <2> QED
    BY <2>1, <2>2, <2>4, <2>5
<1> QED
  BY <1>6, <1>7 DEF PutsCurrent

\* The first CURRENT, which nobody reads while it is empty, is finished or goes.
LEMMA KnowsFirst ==
    ASSUME Types, NEW c \in Compactors, Knows(c), WriteCurrent(c) \/ WriteCurrentFails(c)
    PROVE  /\ Knows(c)' /\ NotDangling'
           /\ \A k \in Ids : Committed'[k] >= Committed[k]
           /\ current'.st = "full" => Committed' = checkpoint[job[c].gen + 1]
<1>1. IndexTypes /\ JobTypes
  BY DEF Types
<1>2. /\ job[c].pc = "firstWrite" /\ UNCHANGED <<checkpoint, commits>>
      /\ \/ CleansUp(c) /\ current' = Finished(current, job[c].tag)
         \/ Ends(c) /\ current' = Absent
  BY <1>1, FirstWriteStep
<1>3. /\ current = Empty(job[c].tag) /\ commits[job[c].tag].gen = job[c].gen + 1
      /\ checkpoint[job[c].gen + 1] # NoFile
      /\ \A k \in Ids : checkpoint[job[c].gen + 1][k] >= Committed[k]
  BY <1>2 DEF Knows
<1>4. CASE CleansUp(c) /\ current' = Full(job[c].tag)
  <2>1. current'.st = "full" /\ Generation' = job[c].gen + 1
    BY <1>2, <1>3, <1>4 DEF Full, Generation
  <2>2. NotDangling' /\ Committed' = checkpoint[job[c].gen + 1]
    BY <1>2, <1>3, <2>1 DEF NotDangling, Committed, Generation
  <2>3. Knows(c)'
    BY <1>4, <2>1 DEF Knows, CleansUp, Reading, Committing, Cleaning
  <2> QED
    BY <1>3, <2>2, <2>3
<1>5. CASE Ends(c) /\ current' = Absent
  <2>1. NotDangling' /\ Committed' = Nothing
    BY <1>5 DEF Absent, NotDangling, Committed
  <2>2. Committed = Nothing /\ \A k \in Ids : Nothing[k] = 0
    BY <1>1, <1>3, CommittedFacts DEF Empty
  <2>3. Knows(c)'
    BY <1>5 DEF Ends, Knows, Reading, Committing, Cleaning
  <2> QED
    BY <1>5, <2>1, <2>2, <2>3 DEF Absent
<1> QED
  BY <1>2, <1>3, <1>4, <1>5 DEF Finished

\* What is deleted, by a commit that was lost or by the garbage collection, is
\* never the committed checkpoint.
LEMMA KnowsDeletes ==
    ASSUME Types, NEW c \in Compactors, Knows(c), NotDangling,
           AbandonCheckpoint(c) \/ DeleteCheckpoint(c)
    PROVE  /\ Knows(c)' /\ NotDangling' /\ Committed' = Committed /\ current' = current
           /\ Generation' = Generation
<1>1. IndexTypes /\ JobTypes
  BY DEF Types
<1>2. UNCHANGED <<current, commits>>
  BY DEF AbandonCheckpoint, DeleteCheckpoint
<1>3. Generation \in Nat
  BY <1>1, CurrentFacts
<1>4. CASE AbandonCheckpoint(c)
  <2>1. /\ job[c].pc = "abandon" /\ Ends(c)
        /\ checkpoint' = [checkpoint EXCEPT ![job[c].gen + 1] = NoFile]
    BY <1>1, <1>4, AbandonStep
  <2>2. job[c].gen = Generation
    BY <2>1 DEF Knows
  <2>3. checkpoint'[Generation] = checkpoint[Generation]
    BY <1>1, <1>3, <2>1, <2>2 DEF IndexTypes
  <2>4. Knows(c)'
    BY <2>1 DEF Ends, Knows, Reading, Committing, Cleaning
  <2> QED
    BY <1>1, <1>2, <2>3, <2>4, CommittedSame
<1>5. CASE DeleteCheckpoint(c)
  <2>1. /\ job[c].pc = "gc" /\ job'[c].pc = "gc" /\ job'[c].gen = job[c].gen
        /\ job'[c].old \subseteq job[c].old
    BY <1>1, <1>5, DeleteCheckpointStep
  <2>2. PICK g \in job[c].old : checkpoint' = [checkpoint EXCEPT ![g] = NoFile]
    BY <1>1, <1>5, DeleteCheckpointStep
  <2>3. current.st = "full" /\ job[c].gen + 1 = Generation /\ job[c].gen + 1 \notin job[c].old
    BY <2>1 DEF Knows, Cleaning
  <2>4. checkpoint'[Generation] = checkpoint[Generation]
    BY <1>1, <2>2, <2>3 DEF IndexTypes
  <2>5. Generation' = Generation /\ Committed' = Committed /\ NotDangling'
    BY <1>1, <1>2, <2>4, CommittedSame
  <2>6. Knows(c)'
    BY <1>2, <2>1, <2>3, <2>5 DEF Knows, Reading, Committing, Cleaning
  <2> QED
    BY <1>2, <2>5, <2>6
<1> QED
  BY <1>4, <1>5

\* The other steps leave the index alone.
LEMMA KnowsOther ==
    ASSUME Types, NEW c \in Compactors, Knows(c), NotDangling,
           \/ GoesOn(c)
           \/ Ends(c) /\ UNCHANGED indexVars
           \/ DeleteSource(c) \/ ListCheckpoints(c) \/ CycleDone(c)
    PROVE  Knows(c)' /\ UNCHANGED indexVars
<1>1. IndexTypes /\ JobTypes
  BY DEF Types
<1>2. UNCHANGED indexVars
  BY DEF GoesOn, DeleteSource, ListCheckpoints, CycleDone
<1>3. Generation' = Generation /\ Committed' = Committed /\ UNCHANGED <<current, checkpoint, commits>>
  BY <1>1, <1>2, CommittedSame DEF indexVars
<1>4. CASE GoesOn(c)
  BY <1>3, <1>4 DEF GoesOn, Knows, Reading, Committing, Cleaning
<1>5. CASE Ends(c) \/ CycleDone(c)
  <2>1. Ends(c)
    BY <1>1, <1>5, Quits DEF CycleDone
  <2> QED
    BY <1>2, <2>1 DEF Ends, Knows, Reading, Committing, Cleaning
<1>6. CASE DeleteSource(c)
  <2>1. job[c].pc = "delete" /\ job'[c].pc = "delete" /\ job'[c].gen = job[c].gen
    BY <1>1, <1>6, DeleteSourceStep
  <2> QED
    BY <1>2, <1>3, <2>1 DEF Knows, Reading, Committing, Cleaning
<1>7. CASE ListCheckpoints(c)
  <2>1. /\ job[c].pc \in Cleaning /\ job'[c].pc = "gc" /\ job'[c].gen = job[c].gen
        /\ job[c].gen + 1 \notin job'[c].old
    BY <1>1, <1>7, ListCheckpointsStep
  <2> QED
    BY <1>2, <1>3, <2>1 DEF Knows, Reading, Committing, Cleaning
<1> QED
  BY <1>4, <1>5, <1>6, <1>7

\* The steps of a job while it is alone in _compact_body
LEMMA KnowsNext ==
    ASSUME Types, NEW c \in Compactors, Knows(c), NotDangling, JobStep(c)
    PROVE  /\ Knows(c)' /\ NotDangling'
           /\ \A k \in Ids : Committed'[k] >= Committed[k]
<1>1. JobTypes /\ IndexTypes /\ LogTypes
  BY DEF Types
<1>2. \A k \in Ids : Committed[k] \in Nat
  BY <1>1, CommittedFacts
<1>3. UNCHANGED indexVars => NotDangling' /\ Committed' = Committed
  BY <1>1, CommittedSame DEF indexVars
<1>4. CASE \/ ReadMeta(c) \/ ReadWatermark(c) \/ ListSources(c) \/ ReadSource(c) \/ SourcesRead(c)
           \/ ReadBase(c) \/ ReadCheckpoint(c)
  <2>1. UNCHANGED indexVars
    BY <1>4 DEF ReadMeta, ReadWatermark, ListSources, ReadSource, SourcesRead, ReadBase,
       ReadCheckpoint
  <2> QED
    BY <1>2, <1>3, <1>4, <2>1, KnowsReading
<1>5. CASE WriteCheckpoint(c)
  BY <1>2, <1>5, KnowsCheckpoint
<1>6. CASE \/ CheckCurrent(c) \/ FetchCurrentETag(c) \/ DeleteSource(c) \/ ListCheckpoints(c)
           \/ CycleDone(c)
  <2>1. CASE CheckCurrent(c) \/ FetchCurrentETag(c)
    BY <1>1, <1>2, <1>3, <2>1, CheckStep, KnowsOther
  <2> QED
    BY <1>2, <1>3, <1>6, <2>1, KnowsOther
<1>7. CASE SwapCurrent(c) \/ RenameCurrent(c) \/ CreateCurrent(c)
  <2>1. CASE PutsCurrent(c)
    BY <2>1, KnowsPut
  <2>2. CASE GoesOn(c) \/ (Ends(c) /\ UNCHANGED indexVars)
    BY <1>2, <1>3, <2>2, KnowsOther
  <2> QED
    BY <1>1, <1>7, <2>1, <2>2, CommitStep
<1>8. CASE WriteCurrent(c) \/ WriteCurrentFails(c)
  BY <1>8, KnowsFirst
<1>9. CASE AbandonCheckpoint(c) \/ DeleteCheckpoint(c)
  BY <1>2, <1>9, KnowsDeletes
<1> QED
  BY <1>4, <1>5, <1>6, <1>7, <1>8, <1>9 DEF JobStep

\* While no two compactors have been at once, no other one is when one moves.
LEMMA Alone ==
    ASSUME Types, Sole, ~overlapped', NEW c \in Compactors, JobStep(c)
    PROVE  /\ ~overlapped /\ Only(c)
           /\ \A d \in Compactors \ {c} : ~Working(d) /\ ~Working(d)'
<1>1. Only(c)
  BY JobStepOnly DEF Types
<1>2. ~overlapped /\ \A d \in Compactors \ {c} : ~Working(d)
  <2>1. CASE ReadMeta(c)
    BY <2>1 DEF ReadMeta
  <2>2. CASE ~ReadMeta(c)
    <3>1. Working(c) /\ ~overlapped
      BY <2>2, JobStepClaims, OtherVars DEF Cycle, JobStep
    <3> QED
      BY <3>1 DEF Sole
  <2> QED
    BY <2>1, <2>2
<1> QED
  BY <1>1, <1>2 DEF Only, Working

\* What a step can be, seen from the index: one of a compactor's job, or one
\* that leaves the index alone and takes no job further.
LEMMA IndexSteps ==
    ASSUME Types, [Next]_vars
    PROVE  \/ \E c \in Compactors : JobStep(c)
           \/ /\ UNCHANGED <<indexVars, overlapped>>
              /\ \A d \in Compactors : job'[d] = job[d] \/ ~Working(d)'
<1>1. CASE \E c \in Compactors : Cycle(c) \/ Crash(c)
  <2>1. PICK c \in Compactors : Cycle(c) \/ Crash(c)
    BY <1>1
  <2>2. CASE ~JobStep(c)
    <3>1. /\ UNCHANGED <<indexVars, overlapped>>
          /\ \/ UNCHANGED job
             \/ Only(c) /\ (job'[c] = NoJob \/ job'[c].pc \in {"releaseRead", "releaseDelete"})
      BY <2>1, <2>2, LockStep DEF Cycle, JobStep, Types
    <3> QED
      BY <3>1, NoJobFields DEF Only, Working
  <2> QED
    BY <2>1, <2>2
<1> QED
  BY <1>1, Steps, AppendMoves, ReadMoves, LapseMoves DEF vars

LEMMA KNext ==
    ASSUME Types, Sole, KInv, [Next]_vars
    PROVE  KInv' /\ (~overlapped' => \A k \in Ids : Committed'[k] >= Committed[k])
<1>1. CASE \E c \in Compactors : JobStep(c)
  <2> SUFFICES ASSUME ~overlapped'
               PROVE  /\ NotDangling' /\ \A d \in Compactors : Knows(d)'
                      /\ \A k \in Ids : Committed'[k] >= Committed[k]
    BY DEF KInv
  <2>1. PICK c \in Compactors : JobStep(c)
    BY <1>1
  <2>2. ~overlapped /\ \A d \in Compactors \ {c} : ~Working(d)'
    BY <2>1, Alone
  <2>3. /\ Knows(c)' /\ NotDangling'
        /\ \A k \in Ids : Committed'[k] >= Committed[k]
    BY <2>1, <2>2, KnowsNext DEF KInv
  <2>4. \A d \in Compactors \ {c} : Knows(d)'
    <3>1. ASSUME NEW d \in Compactors, ~Working(d)' PROVE Knows(d)'
      BY <3>1 DEF Working, Knows, Reading, Committing, Cleaning
    <3> QED
      BY <2>2, <3>1
  <2> QED
    BY <2>3, <2>4
<1>2. CASE /\ UNCHANGED <<indexVars, overlapped>>
           /\ \A d \in Compactors : job'[d] = job[d] \/ ~Working(d)'
  <2>1. /\ Committed' = Committed /\ Generation' = Generation /\ UNCHANGED indexVars
        /\ (NotDangling => NotDangling')
        /\ \A k \in Ids : Committed[k] \in Nat
    BY <1>2, CommittedSame, CommittedFacts DEF Types, indexVars
  <2>2. ASSUME NEW d \in Compactors, Knows(d) PROVE Knows(d)'
    <3>1. CASE job'[d] = job[d]
      BY <2>1, <2>2, <3>1 DEF Knows, indexVars
    <3>2. CASE ~Working(d)'
      BY <3>2 DEF Working, Knows, Reading, Committing, Cleaning
    <3> QED
      BY <1>2, <3>1, <3>2
  <2> QED
    BY <1>2, <2>1, <2>2 DEF KInv
<1> QED
  BY <1>1, <1>2, IndexSteps

LEMMA KInit == Init => KInv
<1>1. Init => NotDangling
  BY DEF Init, Absent, NotDangling
<1>2. Init => \A c \in Compactors : Knows(c)
  BY NoJobFields, NotWorking DEF Init
<1> QED
  BY <1>1, <1>2 DEF KInv

LEMMA IndexInv == Spec => [](P!IInv /\ Types /\ LInv /\ KInv)
<1>1. Types /\ LInv /\ KInv /\ [Next]_vars => KInv'
  BY KNext DEF LInv
<1> QED
  BY <1>1, KInit, LockInv, PTL DEF Spec

\* The checkpoint that CURRENT names is there: neither the garbage collection of
\* a cycle nor the cleanup of a commit that was lost takes it, whatever
\* crashes and takeovers of the lock there were (C8, C10).
THEOREM CheckpointKept == Spec => []CurrentNotDangling
<1>1. Types /\ KInv => CurrentNotDangling
  BY DEF KInv, NotDangling, Generation, CurrentNotDangling
<1> QED
  BY <1>1, IndexInv, PTL

\* While no two compactors have run at once no commit takes a record out of the
\* index or back to an older version, for any number of versions of an id.
THEOREM CommitsOnlyGrow == Spec => CommittedGrows
<1>1. Types /\ LInv /\ KInv /\ [Next]_vars
         => [~overlapped' => \A k \in Ids : Committed'[k] >= Committed[k]]_vars
  BY KNext DEF LInv
<1> QED
  BY <1>1, IndexInv, PTL DEF Spec, CommittedGrows
===============================================================================
