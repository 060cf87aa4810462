# A TLA+ model of stations

`stations` (python package under `src/python/src/stations`) lets any number of
processes work on a tree of files, on a local disk or in an S3 bucket, with no
server between them. All coordination is done by two primitives of a backend,
`create_if_absent` and `replace_if_match`. This directory models that
coordination: who may work on what, what a crash at any step leaves behind, and
what a reader may rely on. Paths below are relative to the repository;
`edges.py:135` means line 135 of `python/src/stations/edges.py`, and
`CONCURRENCY.md`, `PHYSICAL-CONTRACT.md` are in `spec/`.

## 1. The system

| Component | State | Operations | Hard behaviour |
|---|---|---|---|
| Path backends (`backends/local.py`, `backends/s3.py`) | the bytes at each path | exists, read_bytes, list, delete, etag, write_atomic, create_if_absent, replace_if_match | local create = open then write; local replace = compare then rename; S3 does each in one request |
| Lease claim (`backends/claim.py`) | a lease file per item | acquire_lease (create, else reclaim an expired lease), renew, release | races of reclaimers, expiry under a slow holder, crashes between calls |
| Queue edge (`edges.py`, PathQueueEdge) | `pending/`, `completed/`, `failed/`, leases | enqueue, claim, complete, fail, renew | stale listings, crash between terminal record and removal, resubmission |
| Transform engine (`engine.py`) | none of its own | run_once: claim, transform, sink, complete or fail | the lease expires in the transform or in the sink; the sink fails after its effect |
| Log edge (`edges.py`, PathLogEdge) | one file per record | append, iter_beyond | records appended or deleted while a reader iterates |
| Index edge (`edges.py`, PathIndexEdge) | `CURRENT`, checkpoints | read_current, watermark, hybrid_read | four reads that see four different moments |
| Compactor (`compactor.py`) | `compactor.lock`, checkpoints, `CURRENT` | compact_once: lock, fold, checkpoint, commit, cleanup, GC, release | crash at every step, lock lapse, two compactors at once |
| Fold (`compactor.py:268`) | pure | last_write_wins_fold | ties, stamps compared as strings |
| Schema sidecar, protection (`schema.py`, `protect.py`) | `datapackage.json` and its mode | write_schema_sidecar, protect_path, unprotect_for_write | check, unprotect, write and protect are separate steps |
| Segments (`segments.py`) | pure, but for the identity of a Phases object | phases and their tokens, shards, day partitions and their expiry | a day of the month without its month; a token that outlives its maker |
| Transform registry (`transform.py`) | a module-level dictionary, a builder | transform, with_station, with_transform, build | validation at build time only |
| Inspector, CLI (`inspect.py`, `cli.py`) | read-only | discover, inspect_station | lists and reads a store that is being worked on, a directory at a time |
| Stations, paths, protocols | declarations | resolve, composition of strings | none |

The components meet through files only. The queue edge and the compactor call
the lease claim; the engine calls the queue edge and a sink; the compactor
reads the log edge and writes what the index edge reads; a reader of the index
reads the log as well.

What makes each part correct, and what the modules state:

* **leases**: one holder at a time while leases have time left; a holder's file is
  its own; a dead lease has one successor; an abandoned lease is taken over.
* **queue**: an accepted item is never lost; a completed item has had its
  output written; one submission has one outcome unless a lease lapsed; the queue
  drains.
* **log and index**: no record is lost between the log and the committed
  checkpoint at any crash; `CURRENT` never names a file that is gone; a commit
  never takes a record back; a hybrid read is complete.
* **fold**: what it keeps depends on the set of the records only, and is their latest version.
* **transform graphs**: an application runs what is registered.
* **inspector**: an item that was there is counted, a lease that is held is reported active, a marked index and a queue are found and reported as what they are.
* **phase tokens**: a token is good for its own station's phases only.
* **day partitions**: what is within its ttl is never reported expired, what is past it is, in time.
* **schema sidecar**: no field a writer found is dropped; the file rests protected, unless a call that did not come to its end left it writable.

## 2. The modules

| Module | What it is |
|---|---|
| `PathBackend` | one path as a cell (absent, empty, full) with a tag; `Backend` is `"local"` or `"s3"` |
| `LeaseClaim` | the lease protocol, one action per backend call |
| `LeaseClaimProofs` | four theorems about it |
| `AbstractQueue` | the at-least-once queue that CONCURRENCY.md and P6 promise; `QueueEngine` refines it, `Inspector` looks at it |
| `QueueEngine` | producers and engine workers over a queue; `INSTANCE LeaseClaim` for the claims; refines `AbstractQueue` |
| `QueueEngineProofs` | its types and safety, and that it implements `AbstractQueue` |
| `AbstractIndex` | what log and index promise together (P11, C8, C9) until two compactors run at once; `Compactor` refines it |
| `Compactor` | log, index, compactors and hybrid readers; `INSTANCE LeaseClaim` for the lock; refines `AbstractIndex` |
| `CompactorProofs` | its use of the lock, its types, and that checkpoints and what is committed stay |
| `CompactorRecordProofs` | that records do, in log and index, under temporary files and for hybrid readers, and that `Compactor` implements `AbstractIndex` |
| `SchemaSidecar` | concurrent calls of write_schema_sidecar |
| `SchemaSidecarProofs` | three theorems about it |
| `DayPartitions` | day-of-month partitions and their expiry (segments.py) over a calendar |
| `Fold` | last_write_wins_fold, record by record, over batches, generations and cycles that are cut short |
| `FoldProofs` | three theorems about it |
| `GraphAssembly` | the registry of `@transform` and ApplicationBuilder (transform.py) |
| `PhaseTokens` | Phases objects, the addresses they lie at and the tokens they made (segments.py) |
| `DeclarationProofs` | theorems about `DayPartitions`, `PhaseTokens` and `GraphAssembly` |
| `Inspector` | discover_station_dirs and inspect_station over a local root; `INSTANCE` of `LeaseClaim` and `AbstractQueue` for what goes on there |
| `InspectorProofs` | its types, and the three properties of what it reports |
| `MCParts` | the modules that share no state (`SchemaSidecar`, `DayPartitions`, `Fold`, `GraphAssembly`, `PhaseTokens`) side by side, one of them moving; they share no name, so that it EXTENDS them all |
| other `MC*` | symmetry sets, the trees of the inspector's run |

**Grain.** A step is one backend call, or one half of a call that another
process can see between. All control between two calls belongs to the step
before it. Pure S3 requests are atomic; on the local backend
`create_if_absent` is `O_EXCL` open (the cell becomes *empty*) and then the write
(*full*, if the path still is that file; `PathBackend!Finished`), and
`replace_if_match` is the comparison (`Swap`) and then the rename (`Rename`),
which overwrites whatever is there by then. A failing local write unlinks the
path (`WriteFails`).

**Data.** A body is its tag: a number that no other body placed at this path has.
This is what the code compares, since both backends' etags are hashes of the
content and lease bodies and `CURRENT` bodies contain ids and times. Tag 0 is the etag of an
empty file. Items, ids, documents' fields and workers are model values.

**Time.** `dead[p]` is the set of lease bodies whose `expires_at` has passed.
`Lapse` adds a tag at any moment, so every pattern of ttl, delay and clock that keeps
one common clock is a behaviour. Skew between clocks is not modelled.

### LeaseClaim

`pc[w]` is the next backend call of worker `w`, `mine[w]` the body it believes to
be its lease, `seen[w]` what it read.  `Try` is `try_create_lease`;
`CheckExists`, `Recreate`, `Read`, `Recheck`, `FetchETag`, `Swap` are the calls of
`try_reclaim_lease` in order: `Read` judges the expiry, `FetchETag` then fetches the
etag of the file *as it is by then*, and `Swap` is conditioned on that one. If the
file is gone by then the etag is None and the "replace" is a plain write (`Put`).
`Renew` is `PathQueueEdge.renew`, which compares with the lease at the path and not
with the caller's. `FindLease` and `DeleteLease` are the release by
complete, fail and the compactor: exists, then delete, without a condition.
`Abandon` is a crash of a worker.

### QueueEngine

`phase[w]` is where `run_once` stands; the claim inside of it is the
steps of `LeaseClaim` on `pc`, `at`, `mine`, `seen`. `ListPending` takes a listing, from
which `TryCandidate` works until a claim succeeds or the listing is used up; any order of
candidates is allowed. `Load` reads the pending file and raises, leaving its fresh lease
behind, if the file is gone or empty. `TransformReturns`, `SinkTakes` and
`CheckLease` follow `run_once`, with the checks of expiry at engine.py:54 and 74 and
none on the failing paths at 48 and 69. `WriteTerminal`, `FindPending`, `RemovePending`,
`RemoveLease` are `complete` and `fail` in the order of P6. A producer's `enqueue` is
`EnqueueCreate` to `EnqueuePlace`, with the fallback of edges.py:88-89.

### Compactor

`job[c].pc` is where `compact_once` stands; `log[p]` is the version in the file at source path `p`, which is
the log file of an id or, on the local backend, the temporary file of an append beside it; `checkpoint[g]` maps ids to versions; `commits[t]` is what the body with tag `t` of
`CURRENT` says. The commit is `CheckCurrent`, then `FetchCurrentETag` and
`SwapCurrent` (or `CreateCurrent` for the first): the etag is fetched at compactor.py:178,
long after the generation was read, and that distance is in the model. `HybridCurrent` to
`HybridReturn` are the reads of `hybrid_read` in their order: `CURRENT`,
checkpoint, `CURRENT` again for the watermark, the listing of the log, one read per
listed path. `consuming` is the mode all compactors are set up with.

A local append is `WriteTemp` and `RenameTemp`; `MaxTemps` bounds the temporary files there are at a time, and each id has one path for them. `write_atomic` makes its temporary file in the directory of the log,
which every listing shows. A compactor reads it whole or in part (`ReadsOf`; a part does not parse and is skipped), and
what it has read it folds and deletes. The rename then raises (`RenameTemp` with nothing to rename), `append` has not returned, and
`TakenTempIndexed` says that the record is in the index all the same. `AppendFails` is a failed write or a crash, which may leave the
temporary file for ever. `job[c].took` is `source_paths`, those a record was read from: they and no others are deleted, or named in `CURRENT`
in retained mode (`FrontierIsFolded`).

### Fold

`best` is the dictionary of a running fold. `Begin` folds the base (`merged`), `Take` is the body of the loop for any record at any time, any
number of times, `Commit` writes the result out as the next base and `CutShort` drops it: this is how the compactor and `hybrid_read` use the
fold, in an order that a listing decides. `input` and `folded` are ghosts: the records seen by the fold, and those the base comes from. `FoldIsOfTheSet` compares with
a reference (`Winner`) that knows only the set.

### GraphAssembly

`registry` is `_REGISTRY`, `attached[f]` the attribute the decorator sets on the function, `stations` and `chosen` are the builder's. `Decorate` puts the
specification into the registry before `setattr`, which raises on a callable without attributes (`Bare`). `Valid` is what `build`
checks of each transform; a build or a call that raises changes nothing and is not a step. Annotations are classes, `"any"` for none.

### PhaseTokens

`inst[a]` is the Phases object at address `a`; a token records the address (`_owner_id`, `id()` of its maker). `Collect` frees the address, `Declare` and `Copy` may
use it again. `Require` is `require` of a PhaseRef.

### Inspector

The tree is that of a campaign: the root, a group of queues with the queue `q` in it, and an index. What moves is
the queue, as any queue that keeps `AbstractQueue` would (`QueueEngine` does, by its refinement), and its leases, by the steps of `LeaseClaim`; the
rest of the tree (`tree`: sidecars, the index's `CURRENT` and `inbox/`) is one of `Trees`. Stations are taken by depth and name (`First`). `Discover` is `discover_station_dirs`, one
step, since only `q` can change during it. `ReadDir` is a step of `os.walk` with what the loop of `inspect_station` makes of the names it
yields: depth first, in any order among the directories of one level, on the directory as it is at that moment; a bucket directory that comes to be
later is not walked. `ReadLease` is `_read_lease`, later than the listing. `Report` puts the station and its `Role` into `snapshot`, of which `KindsTold` says at the end of the inspection
that an index with a `CURRENT`, an inbox or a sidecar is in it, as an index or a bare log; so is a queue that had an item; and a root without a sidecar of its own only alone. An index directory without any of these marks is not found, by the code. `due` are the leases whose `expires_at` has come,
a moment before the claim protocol calls them expired (`>=` at inspect.py:219, `>` at claim.py:68).

### SchemaSidecar

The steps of `write_schema_sidecar`: exists, read and check the holding rule, unprotect, exists
again, create or replace, protect. `WriteFails` is a local create that fails after the file is made, which is unlinked; `WriteRaises` is
`create_if_absent` or `write_atomic` raising before there is a new file. Either leaves the call by the exception, past `protect_path`. `base` is a ghost: the document at the last moment no
writer was active. `exposed` is one as well: some call has left the file writable behind it (it died or raised after it had lifted the protection, or was not to protect), and none has
protected it since.

### DayPartitions

One record is followed through the calendar: `WriteRecord` puts it into the partition of the day, `Tomorrow`
turns the date. `IsExpired` is `is_expired` as the code computes it from the number of the partition and today;
`age` is what it should be talking about. `months` is a ghost for the proof. The calendar itself
(`Leap`, `MonthLength`, `DayAfter`) stands for python's datetime.

## 3. The runs

Every module with more than one variable of its own has one type invariant, checked on one backend at least; that of the lease protocol
is proved for both.

| Run | Instance | Shows |
|---|---|---|
| `lease_s3` | 3 workers, 1 path, 3 leases, fair | `TypeOK`, `ExclusiveUntilLapse`, `HolderKeepsLease`, `OneSuccessor`, `OrphansReclaimed` |
| `lease_local` | 3 workers, 1 path, 3 leases, local, symmetry | `ExclusiveUntilLapse`, `HolderKeepsLease` |
| `queue_s3` | 1 item placed twice, 1 producer, 2 workers, 3 leases, symmetry | `TypeOK`, `NoLostItem`, `CompletedIsSunk`, `OneOutcomeUnlessLapse`, `ImplementsPromise` |
| `queue_local` | the same on the local backend | `OneOutcomeUnlessLapse`, `ImplementsPromise` |
| `queue_drains` | 1 item placed once, 2 fair workers, S3 | `QueueDrains` |
| `index_s3` | 2 compactors, 2 records, 3 commits, 3 locks, consuming, symmetry | `TypeOK`, `CurrentNotDangling`, `CommittedGrows`, `ImplementsPromise` |
| `index_hybrid` | 1 compactor, 1 reader, local, both modes, 2 records, `MaxTemps` = 1, 2 commits, symmetry | `HybridReadComplete`, `NoRecordLostAlone`, `TakenTempIndexed`, `FrontierIsFolded` |
| `parts` | one part at a time: 2 writers of the sidecar, 4 documents, 3 files, local, symmetry | `TypeOK`, `BaseFieldsKept`, `RestsProtected` |
| | 6 years, among them 2024 and 2100, five values of ttl_days, a record followed for 62 days | `DatesOK`, `FreshKept`, `StaleReported` |
| | 8 records under 3 keys, with ties, missing and None fields and versions of one and two digits | `FoldTyped`, `FoldIsOfTheSet`, `LatestKept` |
| | 3 functions with 4 wirings, 2 names, 3 declarations, 2 transforms per builder, names symmetric | `GraphTyped`, `AppIsRegistered` |
| | 3 Phases objects at 2 addresses | `TokensKeptApart` |
| `inspect` | 1 item, 1 worker, 2 leases, 3 trees, inspections for ever | `TypeOK`, `NothingMissed`, `HeldIsActive`, `KindsTold` |
| `lease_wedged` | 2 fair workers, local | *violated*: `OrphansReclaimed` |
| `queue_steal` | 2 workers, S3 | *violated*: `LiveLeaseIsExclusive` |
| `index_lost` | 2 compactors, S3 | *violated*: `NoRecordLost` |

**Bounds, and why they are enough.** `MaxTags` bounds the leases ever placed on a path:
with three, a lease is placed, taken over, and taken over again by a worker that read the first one,
which is the longest chain a stale read of one worker can straddle. Three workers
let one reclaim while two others stand at different calls. `MaxPlace` = 2 lets an item be
submitted again while it is worked on. Three files of the sidecar
are one that is there and one of each writer that finds it. Three commits let the GC of one
cycle meet a checkpoint of the next. `MaxTemps` = 1: whatever a compactor does to one temporary file it does to each on its own; the theorems have any bound. In both an id has
one temporary file at a time: an append tried again beside the file that an earlier try of the same id has left is not a behaviour of the model. `MaxVersion` = 1: an id is appended once,
as the identities of the repository's log records are used (see section 6 for what happens otherwise). One
item or path is enough for what the properties say of each item on its own; workers can hold one at a time.
What the inspector may report of an item or a lease depends on that item and lease only, so one of each will do, and a second worker would
put the lease into no state that one worker, who renews, crashes and comes back, does not.
`BoundReached`, `OutOfTags` and `AllMade` are the stutters where a bound, not the code, ends a
behaviour, so that deadlock is checked in every run.

**Symmetry** is used in safety runs only, over workers, compactors, ids, writers and names of transforms, which no
definition tells apart. `OrphansReclaimed` and `QueueDrains` are checked without it.

**Fairness** (`FairSpec`). Workers poll: `WF(Try)`, `WF(ListPending)`: the engines are run by a
loop that calls them again. A call that was begun goes on: `WF(Step)`. Time
passes: `WF(Lapse)`. Nothing is asked of producers, of a failing write, of a
crash, or of a holder, which may keep or abandon its lease. Weak fairness suffices, because a worker's step
is disabled only by its own steps. Both liveness properties except workers that crash for
ever, which no protocol can survive, and the bound on leases.

**Refinements.** `ImplementsPromise` of `QueueEngine` maps `available` to the items with a full file under
`pending/`, `settled` to the terminal records and `output` to what the sink has taken, and checks
that every step of the station is a step of `AbstractQueue` or leaves it alone: an item is removed only with an
outcome on record, outcomes are not taken back, and a completed one has its output.
That of `Compactor` maps `logged` to the ids with a log file, `accepted` to those of which an append has returned, `indexed` to those in the checkpoint
`CURRENT` names, and `void` to `overlapped`. An append that returns accepts, a commit adds to the index, the deletion of a source may take an id out of the log only if it is indexed,
and all else (a checkpoint written or collected, a lock taken over, a crash) is invisible: the index never shrinks and nothing leaves the log uncommitted, until two compactors have run at once. A record whose temporary
file was listed may be indexed before its append has returned, so a commit is not held to what was accepted.
Where every id has one version, as in `index_s3`, `ImplementsPromise` implies `NoRecordLostAlone`, which that run therefore does not repeat.

## 4. What is proved

The theorems hold for every set of workers, paths, items, compactors, readers, ids, writers and documents, every value of the
bounds, and both backends (`BackendAssumption` only says that `Backend` is one of the two), except where a hypothesis is named here. The
assumptions on constants say that bounds are numbers and that the values for "none" are not among the values they stand in for.

**Leases** (`LeaseClaimProofs`): `TypeCorrect`; `HolderKeeps`: `Spec => []HolderKeepsLease`; `Exclusive`: `Spec =>
[]ExclusiveUntilLapse`; `SingleSuccessor`: on a backend that is not local, `Spec => []OneSuccessor`.

Neither safety property is inductive. A worker that is about to overwrite another's lease can be
anywhere between `Read` and `Rename`, and it got there because some lease had lapsed. The
invariant `IInv` says that: `NoReclaim` (without a lapse, a worker without a lease of its own is
still before the reclaim or has failed), with `Placed` (tags on the path and in memory have been issued), `Standing`
(a worker claims nothing outside of a call) and `Distinct` (two claims on a path are
by different bodies). `Exclusive` then follows from `HolderKeepsLease` and `Distinct`: two
claimants' bodies would both be the one at the path. For `SingleSuccessor` the invariant adds that
no worker is between comparison and rename, and `Superseded`: a body that was swapped away is
older than the one at the path, so no later etag matches it again. This fails on
the local backend, where two workers may both have compared before either renames.

**Queue** (`QueueEngineProofs`):

* `EngineClaims`: `Spec => Claim!Spec`. The station is a user of the lease protocol, so that all of the above holds of its leases; `P ==
  INSTANCE LeaseClaimProofs` brings it in, and `ClaimFacts` says what the other proofs take from it.
* `EngineTyped`; `SunkBeforeCompleted`: `Spec => []CompletedIsSunk`.
* `AcceptedWaits`: on S3, `Spec => []NoLostItem`.
* `OneOutcome`: `Spec => []OneOutcomeUnlessLapse`, on both backends.
* `AtLeastOnce`: the refinement, `Spec => ImplementsPromise`, under `NoRivalWriter`: S3, or one producer.

`EInv` ties a worker's phase to its claim (`InPhase`) and its submission to those placed (`Numbered`). On top of it,
`SunkFirst` says that a worker past the sink has the output of *its* submission written; `OInv`, for one outcome, says that until a lapse a settled
submission is claimed by the worker that settled it until its file is gone (`StillClaimed`), and nobody else works on one
(`FirstOutcome`): another worker with the claim would have the same lease. `Kept`, for the refinement, says that an item that is being worked on still waits
or has an outcome, and that the file a local producer is about to write, or to unlink when its write fails, is its own. The last part is what two local producers
break, and why `NoRivalWriter` is there (section 6).

**Log and index** (`CompactorProofs`, `CompactorRecordProofs`):

* `LockClaims`: `Spec => Claim!Spec` for the lock; `IndexTyped`; `NoOverlapBeforeLapse`: two compactors are at work at once only after
  a lease on `compactor.lock` has lapsed, so that "while no two compactors have run at once" below may be read as "while a cycle takes less than a lease".
* `CheckpointKept`: `Spec => []CurrentNotDangling`; `CommitsOnlyGrow`: `Spec => CommittedGrows`, an action property.
* `RecordsKept`: `Spec => []NoRecordLostAlone`; `RecordsKeptBeforeLapse`: no record is lost before a lapse; `FrontierFolded`:
  `Spec => []FrontierIsFolded`; `TempsIndexed`: `Spec => []TakenTempIndexed`; `HybridReadsComplete`: `Spec => []HybridReadComplete`. These have the hypothesis
  `IdsNotReused` (`MaxVersion <= 1`), as the runs have it: of an id that is appended again between a compactor's read of its file and its
  delete the second version is lost, in the code as in the model (section 6).
* `IdsKept` and `HybridReadsFind` are what remains for any number of versions: every id appended is in the index or has a log file, and a hybrid read into which no commit
  falls returns every id that was there.
* `IndexPromise`: the refinement, `Spec => ImplementsPromise`, for any number of versions as well. The run checks it on S3 in consuming mode, the theorem covers both backends and both modes.

None of these is inductive: what a compactor deletes at `gc` or `cleanup` was decided many calls before. `Knows(c)` says what a compactor that is alone knows at each of its
calls: until the commit, the generation it has read is still the current one, its base is all that is committed, and the file of the new checkpoint, once written, holds the fold; after
it, the one it made is current and not among the checkpoints it is to delete. `Holds(c)` adds what it has of the records: before the commit every source it took is in its fold, after it in the committed
index, so that the deletion of a source by name takes nothing that is not there. `Frontier` says the same of what `CURRENT` calls folded. A commit that is lost to an overlapping compactor breaks `Knows`, and every
property is worded accordingly. A reader is followed by `ReadKnows(r)`: as long as no commit has come since it began, each id it owes is in the checkpoint it read, already found in the log, or
in a file it has yet to list or read; a commit sets `since` behind and frees it.

**Fold** (`FoldProofs`): `FoldTypeCorrect`; `FoldOfTheSet`: `[]FoldIsOfTheSet`; `LatestIsKept`: `[]LatestKept`, for any set of records of which
`RecordAssumption` holds: stamps are absent or below 100, the two widths the model writes (`Digits`), and records of one key and stamp differ in their place. The order of the fold is shown to be a total order of the records of a key
(`BeatsOrders`), by way of `TextOrder`: python's order of texts of up to two digits is that of a number (`Rank`). `FoldInv` says that each key has the record of those seen that no other exceeds, which the
order makes one record, the reference's.

**Declarations** (`DeclarationProofs`):

* `CalendarKept`; `FreshNeverExpired`: `[]FreshKept`; `StaleIsReported`: `[]StaleReported`, for every ttl_days, any years and
  any age. Neither talks about months, and `is_expired` sees nothing but a day of the month. The inductive part, `Dated`, says what the age is
  by the number of months since the record was written: this month, the difference of the days; one month back, that plus the length of
  the month; further back, at least all of the previous month. It rests on the lemma that a month has 28 to 31 days and
  that the first of a month has the month that just ended before it.
* `TokensApart`: `[]TokensKeptApart`, for any number of objects and addresses. By `Authentic` no two objects that are alive
  are one, and a token and the object that made it, while that is alive, agree on the owner and the name.
* `AssemblyTyped`, `AppRegistered`: `[]AppIsRegistered`, under `WiringAssumption`: wirings are of the functions and stations
  that are declared, and no transform is `None`. The invariant says that while the registry was not cleared a function carries what the registry has under its name, and so does a builder.

**Schema sidecar** (`SchemaSidecarProofs`): `SidecarTyped`; `FieldsKept`: `Spec => []BaseFieldsKept`; `ProtectedAtRest`: `Spec => []RestsProtected`.

`Guarded`, the inductive part of the second: as long as there is a base and no call with force, a full document is there, it
extends the base, nobody is creating the file, and each writer past its check has a document that
extends the base too. It rests on two lemmas, that the holding rule is reflexive and transitive, and
on no assumption about documents other than that their lengths are numbers. `Protecting`, that of the third: whenever
the file is there and writable, a writer that stands past the lifting of the protection is under way, or the file is `exposed`.

**Inspector** (`InspectorProofs`), for any items and workers and any files in the fixed directories beside the queue (`TreeAssumption`):

* `InspectorTyped`; `NothingIsMissed`: `[]NothingMissed`; `HeldReportedActive`: `[]HeldIsActive`; `KindsAreTold`: `[]KindsTold`.

The queue's promise and the lease protocol are what is assumed of the surroundings, the queue's steps and the leases' being those of `AbstractQueue` and `LeaseClaim`; no step of the inspector
touches either (`InspectorOnlyReads`, a lemma), so that what is proved of them can be used.

What is reported was read at different moments, of a store that moved on in between. `Found`, the core of the invariant, says at every moment of the walk of the queue where each item
stands: pending is still to be read (`Ahead`), or the item is counted, or it has an outcome in a bucket that is ahead or was behind the walk when pending was read. It rests on the queue's
promise that an item leaves pending only with an outcome, and that no outcome is taken back. Of a lease noted at the start `Noted` says that it is still the one at its path or gone for good,
which `LeaseMoves` shows from the lease protocol: a step leaves a lease, removes it, fills an empty one, or places one with a later tag. `OfTheQueue` says that leases are of items the
queue knows, so that the directory of a lease is among those the walk was shown. `Told` follows the index from its discovery to the snapshot: marked, it is still to come, is being walked, or has been
reported as what its marks (`AtIndex`) make it.

**Checked with TLC only.** The liveness properties `OrphansReclaimed` and `QueueDrains`, and with them the first and second finding's runs: fairness and `ENABLED` are out of the prover's
reach. `DayAfter`, `Digits` and the calendar are definitions that stand for python's, not theorems about it.

## 5. Findings

1. `lease_wedged`, backends/local.py:110: a worker that dies between the open and
   the write of a lease leaves an empty file; `default_is_expired` takes a body without
   `expires_at` for not expired, and the item is never claimed again. CONCURRENCY.md:95 says it is
   reclaimed when the lease expires.
2. `queue_steal`, backends/claim.py:104: the etag of the swap is fetched after the expiry
   was judged. Of two workers that read the same dead lease, the second may swap away the live lease
   of the first, on S3 as well. CONCURRENCY.md:74-75 asks for the etag of the dead lease.
3. `index_lost`, compactor.py:162: the checkpoint is named after the generation the compactor read (148-149) and written without a condition, before
   the commit. A compactor that outlives its lock writes `checkpoint.000001`, folded from what was there when it began, over the
   `checkpoint.000001` another has committed, whose sources that one has deleted: their records are gone. CONCURRENCY.md:133-134 says that before the
   commit nothing observable has changed, and :176 that correctness never rests on the lock.

Properties of leases and items above that hold only "until a lapse" are worded so because of 2 (and of `renew`, section 6), those of log and index that hold only
"while no two compactors overlap" because of 3 and of the other ways, in section 6, in which two compactors destroy each other's work.

## 6. Seen while modelling, without a run

* A transform or a sink that raises after the lease has expired is recorded as failed all the same (engine.py:48-51,
  69-72), against C4 (CONCURRENCY.md:77-78).
* `claim` never looks for a terminal record (edges.py:135), so an item whose worker crashed before
  the removal is processed again; CONCURRENCY.md:96 describes a claim that only removes it.
* On the local backend `enqueue` takes an empty file left by a crashed producer for a placed
  item (edges.py:86-88), which then fails to load. `NoLostItem` is therefore checked, and proved, on S3 only.
* With two local producers an accepted item can vanish without an outcome: one creates the file and its write fails, so that it unlinks the path; the
  other, told that the path exists, comes to the fallback of edges.py:88-89; the first tries again and creates the file anew; the second places the whole item and returns; the
  write of the first fails once more, and it unlinks what the second had placed (local.py:118-123). The proof of the refinement stops at this; `queue_local` has one producer, and `AtLeastOnce` says so.
* `hybrid_read` can miss a record if a commit and its cleanup fall into the read (edges.py:324), against P12;
  `HybridReadComplete` excepts that case.
* A log file that is written again under the same id between the compactor's read and its delete is
  deleted unread (compactor.py:210). P7 excludes this for records, `append` does not.
* In retained mode `CURRENT` records the sources of the last cycle only as folded (compactor.py:171). Once a record has been appended
  after the first commit, each cycle folds what the one before it did not, so that such an index commits for ever and never comes to
  the idle cycle of line 130; CONCURRENCY.md:150-157 describes a frontier of all that was folded. It loses nothing
  (`FrontierIsFolded`).
* The etag of the commit is fetched at compactor.py:178, long after the generation was read; CONCURRENCY.md:128 asks for the etag of the generation that was read. A compactor that began two generations ago
  commits its fold over the newer one, whose sources are deleted. With two compactors at once the loser of a commit deletes a checkpoint by its name (188), which may be the one the
  winner has committed, and the GC (226) keeps none but its own. `index_lost` shows the shortest loss, which is none of these.
* `renew` compares with the lease that is at the path (edges.py:200): a worker that lost its lease renews its successor's.
* A submission made after the first outcome of an item may be lost: a worker whose lease lapsed before its removal deletes, with its `delete` of the pending file
  (edges.py:176), what was enqueued again by then. `NoLostItem` and the refinement speak of items and their first outcomes.
* A write of the sidecar that raises after the protection was lifted leaves the old file writable (schema.py:151-162), as does a writer that dies there, until the next call protects
  it. `RestsProtected` excepts what such a call has left.
* Writers of the sidecar that overlap may drop each other's new fields (schema.py:133-159).
* Version stamps are compared as texts: of versions 9 and 10 the fold keeps 9 (compactor.py:314); `LatestKept` excepts stamps of different
  lengths. A key field that is there and None makes the key "None", which all such records share (compactor.py:284-285).
* `is_expired` (segments.py:284-296) cannot enforce a ttl_days above 26: from its 28th day on a record shares its number with a
  new day, or, like day 31 seen in March, has no date in either month considered. `__post_init__` accepts any.
* The temporary file of a local append lies in the log's directory (local.py:62); a compactor that lists it may fold it and
  delete it before its writer renames it, whose append then raises although its record is in the index (`TakenTempIndexed`).
  P4 (PHYSICAL-CONTRACT.md:70-75) says that temporary files are never read.
* After `clear_registry` a function still carries its old specification (transform.py:100, 113), which a builder prefers to what the registry has.
* `build` compares a transform's input station with the builder's by value, its output station by name only (transform.py:193-207): the
  writer of a station may have been declared, and is checked, against another model than its readers.
* A station above another one is listed as well, and reported by what lies under it (inspect.py:336-343, 385-392): a group of queues with a sidecar is a
  queue whose items are counted once more in the total, and an index under the root shows its `CURRENT` as the root's. The docstring at
  inspect.py:240 says that parents that only group stations are not stations; the comment at 291 announces to drop them, and line 292 only sorts.
* The S3 backend lists no directories (s3.py:126), by which alone a queue is discovered (inspect.py:262-267).
* A lease that is gone or empty by the time it is read counts as active (inspect.py:357). `scanned_paths` is always 0 (inspect.py:431).
* The token of a Phases object that was collected passes for a token of one that came to lie at its address, and a copy of a Phases object refuses its own tokens
  (segments.py:77, 123), against "bound to the Phases instance that created it" (:43).

## 7. What is not modelled, and the plan

Not modelled: paths and stations, shards (pure functions from keys and declarations to strings), protocols and exports (no behaviour), the command line and the
rendering of a snapshot (output); ages and watermarks in snapshots; pagination and client errors other than 404 and 412 of S3; clock skew; the protection of files
other than the sidecar, which no rename asks for; path resolution and mtime.

Order of work:

1. (done) `PathBackend`, `LeaseClaim`, `QueueEngine` with `AbstractQueue`, `Compactor`, `SchemaSidecar`, `DayPartitions`; the
   proofs of `LeaseClaim`, `SchemaSidecar` and `DayPartitions`.
2. (done) The temporary files of local appends in `Compactor`; `Fold`, `GraphAssembly`, `PhaseTokens`; `Inspector` beside a queue.
3. (done) Proofs: `QueueEngine` with its refinement; `Compactor`; `Fold`; `RestsProtected`; `GraphAssembly`, `PhaseTokens` and the calendar.
4. (done) Proofs about `Inspector`.
5. (done) `AbstractIndex`, which `Compactor` refines until two compactors run at once, and the proof of it.
