------------------------------ MODULE Compactor ------------------------------
(***************************************************************************)
(* The write-ahead log and the index it is folded into: PathLogEdge.append *)
(* and PathIndexEdge.hybrid_read (edges.py) around compact_once of         *)
(* DefaultCompactor (compactor.py).  Compactors exclude each other by a    *)
(* lease of LeaseClaim at compactor.lock, which may lapse under a slow one, *)
(* and commit by replacing CURRENT.  Every backend call is a step.         *)
(*                                                                         *)
(* A record of the log is the version last appended under its id.  Beside   *)
(* the log file of an id lies, on the local backend, the temporary file of  *)
(* an append that has not renamed it yet, and listings show both.           *)
(*                                                                          *)
(* The fold, last_write_wins_fold, keeps the highest version of each id     *)
(* (module Fold says how), so a checkpoint is a function from ids to        *)
(* versions.  CURRENT is a cell whose tag numbers the commits; commits[t]   *)
(* is what its body says.                                                   *)
(***************************************************************************)
EXTENDS PathBackend, FiniteSets, Sequences

CONSTANTS Compactors,   \* compactor ids
          Readers,      \* callers of hybrid_read
          Ids,          \* record ids, one log path each
          NoPath,       \* no path
          NoFile,       \* a checkpoint that is not there
          Modes,        \* the modes in use: TRUE deletes folded sources, FALSE keeps them
          MaxVersion,   \* bound: appends under one id; 1 if ids are never reused
          MaxCommits,   \* bound: bodies ever written to CURRENT
          MaxTags,      \* bound: leases ever placed on compactor.lock
          MaxTemps      \* bound: temporary files of local appends at a time

ASSUME ModeAssumption == Modes \subseteq BOOLEAN

VARIABLES
    lease, issued, dead, succ,   \* compactor.lock, as in LeaseClaim
    pc, at, mine, seen,          \* its acquisition, as in LeaseClaim
    log,         \* log[p]: the version in the file at source path p, 0 for no file
    appending,   \* ids whose local append has written its temporary file
    appended,    \* appended[k]: the last version for which append has returned
    checkpoint,  \* checkpoint[g]: the file of generation g, or NoFile
    current,     \* the cell CURRENT
    commits,     \* what the bodies written to CURRENT say
    job,         \* job[c]: the state of compactor c in _compact_body
    reader,      \* reader[r]: the state of a hybrid_read
    overlapped,  \* ghost: two compactors have been in _compact_body at once
    consuming    \* the mode all compactors are set up with

Lock == "compactor.lock"

Claim == INSTANCE LeaseClaim WITH Workers <- Compactors, Paths <- {Lock}

claimVars == <<lease, issued, dead, succ, pc, at, mine, seen>>
indexVars == <<checkpoint, current, commits>>
logVars   == <<log, appending, appended>>
vars == <<claimVars, logVars, indexVars, job, reader, overlapped, consuming>>

Versions == 0..MaxVersion
Content  == [Ids -> Versions]
Nothing  == [k \in Ids |-> 0]

ASSUME IndexAssumption ==
    /\ MaxVersion \in Nat /\ MaxCommits \in Nat /\ MaxTags \in Nat /\ MaxTemps \in Nat
    /\ NoPath # Lock /\ NoFile \notin Content

\* last_write_wins_fold over a base and newer records, one version per id
Fold(a, b) == [k \in Ids |-> IF a[k] >= b[k] THEN a[k] ELSE b[k]]

\* the source paths: the log file of an id, and its temporary file
File(k) == <<k, "log">>
Temp(k) == <<k, "tmp">>
Sources == Ids \X {"log", "tmp"}

Commit == [gen : 1..MaxCommits, folded : SUBSET Sources]

JobPCs == {"idle", "watermark", "list", "enumerate", "base", "checkpoint",
           "write", "commit", "etag", "swap", "put", "rename", "first", "firstWrite",
           "abandon", "delete", "gcList", "gc", "release", "releaseRead",
           "releaseDelete"}

Jobs == [pc : JobPCs,
         gen  : 0..MaxCommits,       \* the generation read_current_meta found
         skip : SUBSET Sources,      \* paths the watermark says are folded
         todo : SUBSET Sources,      \* listed paths not read, or not deleted, yet
         took : SUBSET Sources,      \* source_paths: those a record was read from
         recs : Content,             \* the records read from the sources
         base : Content,             \* the records of the committed checkpoint
         tag  : 0..MaxCommits,       \* the etag of CURRENT, then its new body's tag
         old  : SUBSET (1..MaxCommits)]  \* generations the GC has listed

NoJob == [pc |-> "idle", gen |-> 0, skip |-> {}, todo |-> {}, took |-> {}, recs |-> Nothing,
          base |-> Nothing, tag |-> 0, old |-> {}]

ReadPCs == {"idle", "current", "checkpoint", "watermark", "list", "enumerate", "done"}

Reads == [pc : ReadPCs, gen : 0..MaxCommits,
          skip : SUBSET Sources, todo : SUBSET Sources,
          out : Content,              \* what hybrid_read has collected
          owed : Content,             \* ghost: what was appended when it began
          since : 0..MaxCommits]      \* ghost: the commits there were by then

NoRead == [pc |-> "idle", gen |-> 0, skip |-> {}, todo |-> {}, out |-> Nothing,
           owed |-> Nothing, since |-> 0]

TypeOK ==
    /\ Claim!TypeOK
    /\ log \in [Sources -> Versions]
    /\ appending \subseteq Ids
    /\ appended \in Content
    /\ checkpoint \in [1..MaxCommits -> Content \cup {NoFile}]
    /\ current \in Cell
    /\ Len(commits) <= MaxCommits /\ \A t \in DOMAIN commits : commits[t] \in Commit
    /\ job \in [Compactors -> Jobs]
    /\ reader \in [Readers -> Reads]
    /\ overlapped \in BOOLEAN
    /\ consuming \in Modes

Init ==
    /\ Claim!Init
    /\ log = [p \in Sources |-> 0]
    /\ appending = {}
    /\ appended = Nothing
    /\ checkpoint = [g \in 1..MaxCommits |-> NoFile]
    /\ current = Absent
    /\ commits = <<>>
    /\ job = [c \in Compactors |-> NoJob]
    /\ reader = [r \in Readers |-> NoRead]
    /\ overlapped = FALSE
    /\ consuming \in Modes

-------------------------------------------------------------------------------
(* The log *)

OnlyLog == UNCHANGED <<claimVars, indexVars, job, reader, overlapped, consuming>>

\* append returns: the record is at the path of its id, over whatever was there
Appended(k) ==
    /\ log' = [log EXCEPT ![File(k)] = appended[k] + 1, ![Temp(k)] = 0]
    /\ appended' = [appended EXCEPT ![k] = @ + 1]

\* PathLogEdge.append on S3: one PUT
AppendRecord(k) ==
    /\ ~Local
    /\ appended[k] < MaxVersion
    /\ Appended(k)
    /\ UNCHANGED appending
    /\ OnlyLog

\* on a local disk write_atomic first writes a temporary file next to the log
\* file.  Bounds: MaxTemps such files at a time, counting those a crash has left,
\* and one of each id, for which the model has one path.
WriteTemp(k) ==
    /\ Local
    /\ appended[k] < MaxVersion
    /\ k \notin appending /\ log[Temp(k)] = 0
    /\ Cardinality({j \in Ids : j \in appending \/ log[Temp(j)] # 0}) < MaxTemps
    /\ log' = [log EXCEPT ![Temp(k)] = appended[k] + 1]
    /\ appending' = appending \cup {k}
    /\ UNCHANGED appended
    /\ OnlyLog

\* ... and renames it; if somebody has deleted it by then, append raises, and
\* its caller may try again
RenameTemp(k) ==
    /\ k \in appending
    /\ \/ log[Temp(k)] # 0 /\ Appended(k)
       \/ log[Temp(k)] = 0 /\ UNCHANGED <<log, appended>>
    /\ appending' = appending \ {k}
    /\ OnlyLog

\* the write fails and the temporary file is unlinked, or the process dies and
\* leaves it
AppendFails(k) ==
    /\ k \in appending
    /\ log' \in {log, [log EXCEPT ![Temp(k)] = 0]}
    /\ appending' = appending \ {k}
    /\ UNCHANGED appended
    /\ OnlyLog

\* what a listing of the log yields: temporary files too
Present == {p \in Sources : log[p] # 0}

\* reading one listed path: the file, nothing if it has gone, and of a
\* temporary file perhaps only a part, which does not parse and is skipped (C6)
ReadsOf(p) == IF p = Temp(p[1]) THEN {0, log[p]} ELSE {log[p]}

\* PathIndexEdge.watermark: a consuming compactor records folded: null, which
\* excludes nothing
Folded == IF consuming \/ current.st # "full" THEN {} ELSE commits[current.tag].folded

-------------------------------------------------------------------------------
(* compact_once: the lock *)

\* the compactors that are between lock and release
Working(c) == job[c].pc \notin {"idle", "release", "releaseRead", "releaseDelete"}

Unlocked(c) == job[c].pc = "idle"

AcquireLock(c) ==
    /\ Unlocked(c)
    /\ \/ Claim!Try(c, Lock)
       \/ Claim!Write(c) \/ Claim!WriteFails(c) \/ Claim!CheckExists(c)
       \/ Claim!Recreate(c) \/ Claim!Read(c) \/ Claim!Recheck(c)
       \/ Claim!FetchETag(c) \/ Claim!Swap(c) \/ Claim!Rename(c)
    /\ UNCHANGED <<logVars, indexVars, job, reader, overlapped, consuming>>

\* another compactor holds the lock, or acquire_lease raised: no cycle
LockRefused(c) ==
    /\ Unlocked(c)
    /\ Claim!Return(c)
    /\ UNCHANGED <<logVars, indexVars, job, reader, overlapped, consuming>>

\* the finally block: release the lock if it still names this compactor
FindLock(c) ==
    /\ job[c].pc = "release"
    /\ Claim!FindLease(c)
    /\ job' = [job EXCEPT ![c] = IF pc'[c] = "idle" THEN NoJob
                                 ELSE [@ EXCEPT !.pc = "releaseRead"]]
    /\ UNCHANGED <<logVars, indexVars, reader, overlapped, consuming>>

ReadLock(c) ==
    /\ job[c].pc = "releaseRead"
    /\ \/ /\ lease[Lock] = Full(mine[c])
          /\ job' = [job EXCEPT ![c].pc = "releaseDelete"]
          /\ UNCHANGED claimVars
       \/ /\ lease[Lock] # Full(mine[c])
          /\ Claim!Abandon(c)
          /\ job' = [job EXCEPT ![c] = NoJob]
    /\ UNCHANGED <<logVars, indexVars, reader, overlapped, consuming>>

DeleteLock(c) ==
    /\ job[c].pc = "releaseDelete"
    /\ Claim!DeleteLease(c)
    /\ job' = [job EXCEPT ![c] = NoJob]
    /\ UNCHANGED <<logVars, indexVars, reader, overlapped, consuming>>

-------------------------------------------------------------------------------
(* _compact_body, steps 1 to 3: CURRENT, the sources, the checkpoint *)

\* most steps change only the job
Proceed(c, j) ==
    /\ job' = [job EXCEPT ![c] = j]
    /\ UNCHANGED <<claimVars, reader, overlapped, consuming>>

\* return, or raise, into the finally block
Quit(c) == Proceed(c, [NoJob EXCEPT !.pc = "release"])

\* read_current_meta, the first read under the lock; the empty file raises
ReadMeta(c) ==
    /\ job[c].pc = "idle"
    /\ pc[c] = "held"
    /\ overlapped' = (overlapped \/ \E d \in Compactors \ {c} : Working(d))
    /\ job' = [job EXCEPT ![c] =
          CASE current.st = "absent" -> [@ EXCEPT !.pc = "watermark"]
            [] current.st = "full" -> [@ EXCEPT !.pc = "watermark",
                                                !.gen = commits[current.tag].gen]
            [] OTHER -> [@ EXCEPT !.pc = "release"]]
    /\ UNCHANGED <<claimVars, logVars, indexVars, reader, consuming>>

\* CURRENT once more, for the frontier
ReadWatermark(c) ==
    /\ job[c].pc = "watermark"
    /\ IF current.st = "empty" THEN Quit(c)
       ELSE Proceed(c, [job[c] EXCEPT !.pc = "list", !.skip = Folded])
    /\ UNCHANGED <<logVars, indexVars>>

ListSources(c) ==
    /\ job[c].pc = "list"
    /\ Proceed(c, [job[c] EXCEPT !.pc = "enumerate", !.skip = {},
                                       !.todo = Present \ job[c].skip])
    /\ UNCHANGED <<logVars, indexVars>>

\* mutant: a path counts as a source although it could not be read
ReadSourceTakesAll(c) ==
    /\ job[c].pc = "enumerate"
    /\ \E p \in job[c].todo : \E v \in ReadsOf(p) :
        Proceed(c, [job[c] EXCEPT
            !.todo = @ \ {p},
            !.took = @ \cup {p},
            !.recs = Fold(@, [Nothing EXCEPT ![p[1]] = v])])
    /\ UNCHANGED <<logVars, indexVars>>

\* read one listed path; what cannot be read is neither folded nor deleted
ReadSource(c) ==
    /\ job[c].pc = "enumerate"
    /\ \E p \in job[c].todo : \E v \in ReadsOf(p) :
        Proceed(c, [job[c] EXCEPT
            !.todo = @ \ {p},
            !.took = IF v = 0 THEN @ ELSE @ \cup {p},
            !.recs = Fold(@, [Nothing EXCEPT ![p[1]] = v])])
    /\ UNCHANGED <<logVars, indexVars>>

\* with nothing to fold the cycle ends, unless there is no generation yet
SourcesRead(c) ==
    /\ job[c].pc = "enumerate"
    /\ job[c].todo = {}
    /\ IF job[c].took = {} /\ job[c].gen > 0
       THEN Quit(c)
       ELSE Proceed(c, [job[c] EXCEPT !.pc = "base"])
    /\ UNCHANGED <<logVars, indexVars>>

\* read_current: CURRENT a third time, then the checkpoint it names.  gen is
\* not read again: the new generation follows the one ReadMeta saw.
ReadBase(c) ==
    /\ job[c].pc = "base"
    /\ CASE current.st = "absent" -> Proceed(c, [job[c] EXCEPT !.pc = "write"])
         [] current.st = "empty" -> Quit(c)
         [] OTHER -> Proceed(c, [job[c] EXCEPT !.pc = "checkpoint",
                                               !.tag = commits[current.tag].gen])
    /\ UNCHANGED <<logVars, indexVars>>

\* mutant: the committed generation is left out of the fold
BaseIgnored(c) ==
    /\ job[c].pc = "checkpoint"
    /\ Proceed(c, [job[c] EXCEPT !.pc = "write", !.tag = 0])
    /\ UNCHANGED <<logVars, indexVars>>

\* a checkpoint that is not there is no base; gone between exists and read, it
\* raises
ReadCheckpoint(c) ==
    LET body == checkpoint[job[c].tag]
    IN  /\ job[c].pc = "checkpoint"
        /\ \/ /\ body # NoFile
              /\ Proceed(c, [job[c] EXCEPT !.pc = "write", !.base = body, !.tag = 0])
           \/ /\ body = NoFile
              /\ \/ Proceed(c, [job[c] EXCEPT !.pc = "write", !.tag = 0])
                 \/ Quit(c)
        /\ UNCHANGED <<logVars, indexVars>>

\* fold, and write the next generation's checkpoint over any file of that name
WriteCheckpoint(c) ==
    /\ job[c].pc = "write"
    /\ job[c].gen < MaxCommits
    /\ checkpoint' = [checkpoint EXCEPT ![job[c].gen + 1] =
                        Fold(job[c].base, job[c].recs)]
    /\ Proceed(c, [job[c] EXCEPT !.pc = "commit", !.base = Nothing, !.recs = Nothing])
    /\ UNCHANGED <<logVars, current, commits>>

-------------------------------------------------------------------------------
(* _compact_body, step 4: the commit *)

CheckCurrent(c) ==
    /\ job[c].pc = "commit"
    /\ Proceed(c, [job[c] EXCEPT !.pc = IF Exists(current) THEN "etag" ELSE "first"])
    /\ UNCHANGED <<logVars, indexVars>>

\* the etag of CURRENT as it is now, not as ReadMeta found it; none if it has
\* gone, and then the replacement carries no condition
FetchCurrentETag(c) ==
    /\ job[c].pc = "etag"
    /\ Proceed(c, IF Exists(current)
                  THEN [job[c] EXCEPT !.pc = "swap", !.tag = ETag(current)]
                  ELSE [job[c] EXCEPT !.pc = "put"])
    /\ UNCHANGED <<logVars, indexVars>>

\* mutant: the generation is counted on twice
PutCurrentSkipping(c, cell) ==
    /\ Len(commits) < MaxCommits
    /\ current' = cell
    /\ commits' = Append(commits, [gen |-> job[c].gen + 2, folded |-> {}])
    /\ UNCHANGED <<logVars, checkpoint>>

\* mutant: the frontier is all that a listing shows, read or not
PutCurrentOfListing(c, cell) ==
    /\ Len(commits) < MaxCommits
    /\ current' = cell
    /\ commits' = Append(commits, [gen |-> job[c].gen + 1,
                                   folded |-> IF consuming THEN {} ELSE Present])
    /\ UNCHANGED <<logVars, checkpoint>>

\* a new body of CURRENT naming the new generation
PutCurrent(c, cell) ==
    /\ Len(commits) < MaxCommits
    /\ current' = cell
    /\ commits' = Append(commits,
          [gen    |-> job[c].gen + 1,
           folded |-> IF consuming THEN {} ELSE job[c].took])
    /\ UNCHANGED <<logVars, checkpoint>>

NextTag == Len(commits) + 1

\* mutant: all of the log goes, what was appended since the enumeration too
CleanUpAll(c) ==
    Proceed(c, [job[c] EXCEPT !.pc = "delete", !.tag = 0, !.took = {}, !.todo = Present])

\* after the commit: delete the folded sources, or go straight to the GC
CleanUp(c) ==
    Proceed(c, [job[c] EXCEPT
        !.pc = IF consuming THEN "delete" ELSE "gcList",
        !.tag = 0, !.took = {},
        !.todo = IF consuming THEN job[c].took ELSE {}])

CommitLost(c) == Proceed(c, [job[c] EXCEPT !.pc = "abandon", !.tag = 0])

\* replace_if_match: atomic on S3, a comparison and then a rename locally.  With
\* an etag nothing that is not there is replaced; without one S3 puts whatever
\* there is, and a local backend still asks for the file.  A local CURRENT
\* unlinked during the comparison raises, and so may If-Match on a missing key.
SwapCurrent(c) ==
    LET matches == IF job[c].pc = "put" THEN ~Local \/ Exists(current)
                   ELSE Exists(current) /\ ETag(current) = job[c].tag
    IN  /\ job[c].pc \in {"swap", "put"}
        /\ \/ /\ ~matches
              /\ CommitLost(c) \/ (~Exists(current) /\ Quit(c))
              /\ UNCHANGED <<logVars, indexVars>>
           \/ /\ matches /\ Local
              /\ Proceed(c, [job[c] EXCEPT !.pc = "rename"])
              /\ UNCHANGED <<logVars, indexVars>>
           \/ /\ matches /\ ~Local
              /\ PutCurrent(c, Full(NextTag))
              /\ CleanUp(c)

RenameCurrent(c) ==
    /\ job[c].pc = "rename"
    /\ PutCurrent(c, Full(NextTag))
    /\ CleanUp(c)

\* the first CURRENT is made by create_if_absent
CreateCurrent(c) ==
    /\ job[c].pc = "first"
    /\ \/ /\ Exists(current)
          /\ CommitLost(c)
          /\ UNCHANGED <<logVars, indexVars>>
       \/ /\ ~Exists(current)
          /\ PutCurrent(c, Created(NextTag))
          /\ IF Local
             THEN Proceed(c, [job[c] EXCEPT !.pc = "firstWrite", !.tag = NextTag])
             ELSE CleanUp(c)

WriteCurrent(c) ==
    /\ job[c].pc = "firstWrite"
    /\ current' = Finished(current, job[c].tag)
    /\ CleanUp(c)
    /\ UNCHANGED <<logVars, checkpoint, commits>>

\* its write fails: the file is unlinked and the cycle raises
WriteCurrentFails(c) ==
    /\ job[c].pc = "firstWrite"
    /\ current' = Absent
    /\ Quit(c)
    /\ UNCHANGED <<logVars, checkpoint, commits>>

\* the commit was lost: delete the checkpoint by its name
AbandonCheckpoint(c) ==
    /\ job[c].pc = "abandon"
    /\ checkpoint' = [checkpoint EXCEPT ![job[c].gen + 1] = NoFile]
    /\ Quit(c)
    /\ UNCHANGED <<logVars, current, commits>>

-------------------------------------------------------------------------------
(* _compact_body, steps 5 and 6: cleanup *)

\* delete one folded source path, whatever it holds by now
DeleteSource(c) ==
    /\ job[c].pc = "delete"
    /\ \E p \in job[c].todo :
        /\ log' = [log EXCEPT ![p] = 0]
        /\ Proceed(c, [job[c] EXCEPT !.todo = @ \ {p}])
    /\ UNCHANGED <<appending, appended, indexVars>>

\* mutant: the GC keeps nothing
ListAllCheckpoints(c) ==
    /\ \/ job[c].pc = "delete" /\ job[c].todo = {}
       \/ job[c].pc = "gcList"
    /\ Proceed(c, [job[c] EXCEPT
            !.pc = "gc",
            !.old = {g \in 1..MaxCommits : checkpoint[g] # NoFile}])
    /\ UNCHANGED <<logVars, indexVars>>

\* list every checkpoint but the one this job wrote
ListCheckpoints(c) ==
    /\ \/ job[c].pc = "delete" /\ job[c].todo = {}
       \/ job[c].pc = "gcList"
    /\ Proceed(c, [job[c] EXCEPT
            !.pc = "gc",
            !.old = {g \in 1..MaxCommits : checkpoint[g] # NoFile} \ {job[c].gen + 1}])
    /\ UNCHANGED <<logVars, indexVars>>

DeleteCheckpoint(c) ==
    /\ job[c].pc = "gc"
    /\ \E g \in job[c].old :
        /\ checkpoint' = [checkpoint EXCEPT ![g] = NoFile]
        /\ Proceed(c, [job[c] EXCEPT !.old = @ \ {g}])
    /\ UNCHANGED <<logVars, current, commits>>

CycleDone(c) ==
    /\ job[c].pc = "gc"
    /\ job[c].old = {}
    /\ Quit(c)
    /\ UNCHANGED <<logVars, indexVars>>

\* a compactor dies at any point of its cycle
Crash(c) ==
    /\ pc[c] # "idle"
    /\ Claim!Abandon(c)
    /\ job' = [job EXCEPT ![c] = NoJob]
    /\ UNCHANGED <<logVars, indexVars, reader, overlapped, consuming>>

-------------------------------------------------------------------------------
(* hybrid_read: the base first, the sources second *)

ReadOn(r, rd) ==
    /\ reader' = [reader EXCEPT ![r] = rd]
    /\ UNCHANGED <<claimVars, logVars, indexVars, job, overlapped, consuming>>

\* read_current reads CURRENT; the empty file raises and the read is over
HybridCurrent(r) ==
    /\ reader[r].pc = "idle"
    /\ current.st # "empty"
    /\ ReadOn(r, [NoRead EXCEPT
            !.pc = IF current.st = "full" THEN "checkpoint" ELSE "watermark",
            !.gen = IF current.st = "full" THEN commits[current.tag].gen ELSE 0,
            !.owed = appended,
            !.since = Len(commits)])

\* ... and the checkpoint it named: none is no base, or raises
HybridCheckpoint(r) ==
    LET body == checkpoint[reader[r].gen]
    IN  /\ reader[r].pc = "checkpoint"
        /\ \/ /\ body # NoFile
              /\ ReadOn(r, [reader[r] EXCEPT !.pc = "watermark", !.gen = 0, !.out = body])
           \/ /\ body = NoFile
              /\ \/ ReadOn(r, [reader[r] EXCEPT !.pc = "watermark", !.gen = 0])
                 \/ ReadOn(r, NoRead)

\* mutant: with a CURRENT, everything in the log passes for folded
HybridSkipsAll(r) ==
    /\ reader[r].pc = "watermark"
    /\ ReadOn(r, [reader[r] EXCEPT
            !.pc = "list", !.skip = IF current.st = "full" THEN Sources ELSE {}])

\* watermark reads CURRENT again
HybridWatermark(r) ==
    /\ reader[r].pc = "watermark"
    /\ ReadOn(r, IF current.st = "empty" THEN NoRead
                 ELSE [reader[r] EXCEPT !.pc = "list", !.skip = Folded])

\* iter_beyond lists the log
HybridList(r) ==
    /\ reader[r].pc = "list"
    /\ ReadOn(r, [reader[r] EXCEPT !.pc = "enumerate", !.skip = {},
                                   !.todo = Present \ reader[r].skip])

\* iter_beyond reads one listed path, and skips one that is gone
HybridSource(r) ==
    /\ reader[r].pc = "enumerate"
    /\ \E p \in reader[r].todo : \E v \in ReadsOf(p) :
        ReadOn(r, [reader[r] EXCEPT
            !.todo = @ \ {p},
            !.out = Fold(@, [Nothing EXCEPT ![p[1]] = v])])

HybridReturn(r) ==
    /\ reader[r].pc = "enumerate"
    /\ reader[r].todo = {}
    /\ ReadOn(r, [reader[r] EXCEPT !.pc = "done"])

HybridForget(r) == reader[r].pc = "done" /\ ReadOn(r, NoRead)

-------------------------------------------------------------------------------

Cycle(c) ==
    \/ AcquireLock(c) \/ LockRefused(c)
    \/ ReadMeta(c) \/ ReadWatermark(c) \/ ListSources(c) \/ ReadSource(c)
    \/ SourcesRead(c) \/ ReadBase(c) \/ ReadCheckpoint(c) \/ WriteCheckpoint(c)
    \/ CheckCurrent(c) \/ FetchCurrentETag(c) \/ SwapCurrent(c) \/ RenameCurrent(c)
    \/ CreateCurrent(c) \/ WriteCurrent(c) \/ WriteCurrentFails(c)
    \/ AbandonCheckpoint(c)
    \/ DeleteSource(c) \/ ListCheckpoints(c) \/ DeleteCheckpoint(c) \/ CycleDone(c)
    \/ FindLock(c) \/ ReadLock(c) \/ DeleteLock(c)

HybridRead(r) ==
    \/ HybridCurrent(r) \/ HybridCheckpoint(r) \/ HybridWatermark(r)
    \/ HybridList(r) \/ HybridSource(r) \/ HybridReturn(r) \/ HybridForget(r)

\* the lock that is there runs out; nobody asks after a lock that has gone
Lapse ==
    /\ Claim!Lapse(Lock)
    /\ dead'[Lock] = dead[Lock] \cup {lease[Lock].tag}
    /\ UNCHANGED <<logVars, indexVars, job, reader, overlapped, consuming>>

\* the bound allows no other lock or no other commit
BoundReached ==
    /\ issued[Lock] = MaxTags \/ Len(commits) = MaxCommits
    /\ UNCHANGED vars

Next ==
    \/ \E k \in Ids : AppendRecord(k) \/ WriteTemp(k) \/ RenameTemp(k) \/ AppendFails(k)
    \/ \E c \in Compactors : Cycle(c) \/ Crash(c)
    \/ \E r \in Readers : HybridRead(r)
    \/ Lapse
    \/ BoundReached

Spec == Init /\ [][Next]_vars

-------------------------------------------------------------------------------
(* Properties *)

\* what the committed checkpoint holds, as a reader of CURRENT finds it
Committed ==
    IF current.st = "full" /\ checkpoint[commits[current.tag].gen] # NoFile
    THEN checkpoint[commits[current.tag].gen]
    ELSE Nothing

\* Every record appended is in the committed index or still in the log, as the
\* version appended or a later one.
NoRecordLost ==
    \A k \in Ids : Committed[k] >= appended[k] \/ log[File(k)] >= appended[k]

\* While no two compactors have run at once, crashes, restarts and takeovers
\* of the lock lose nothing (crash matrix of CONCURRENCY.md, C8, C9, C11).
NoRecordLostAlone == ~overlapped => NoRecordLost

\* ... and the checkpoint that CURRENT names is there, no cleanup of a later or
\* an earlier cycle having taken it (C8, C10).
CurrentNotDangling ==
    ~overlapped /\ current.st = "full" => checkpoint[commits[current.tag].gen] # NoFile

\* A commit never takes a record out of the index or back to an older version,
\* while no two compactors run at once.
CommittedGrows ==
    [][~overlapped' => \A k \in Ids : Committed'[k] >= Committed[k]]_vars

\* An append that raises because a compactor has deleted its temporary file has
\* not lost its record: the compactor deletes what it has read, and the record
\* is in the committed index (C6, C9).
TakenTempIndexed ==
    \A k \in appending :
        ~overlapped /\ log[Temp(k)] = 0 => Committed[k] > appended[k]

\* In retained mode no source that CURRENT says is folded holds a record the
\* committed checkpoint lacks: under-reading is not safe (P11, P12).
FrontierIsFolded ==
    ~overlapped /\ current.st = "full" =>
        \A p \in commits[current.tag].folded : Committed[p[1]] >= log[p]

\* hybrid_read misses a record appended before it began only if a commit, which
\* is followed by the deletion of what it folded, fell into the read (P12).
HybridReadComplete ==
    \A r \in Readers :
        reader[r].pc = "done" /\ ~overlapped /\ Len(commits) = reader[r].since =>
            \A k \in Ids : reader[r].out[k] >= reader[r].owed[k]

\* Log and index keep the promise of AbstractIndex: the commit point comes before
\* every deletion of a source, and a compaction changes nothing of what is there
\* (P11, C9), until two compactors run at once.
Logged   == {k \in Ids : log[File(k)] # 0}
Accepted == {k \in Ids : appended[k] # 0}
Indexed  == {k \in Ids : Committed[k] # 0}

Promise == INSTANCE AbstractIndex WITH logged <- Logged, accepted <- Accepted,
                                       indexed <- Indexed, void <- overlapped

ImplementsPromise == Promise!Spec
===============================================================================
