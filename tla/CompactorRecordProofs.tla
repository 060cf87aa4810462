------------------------- MODULE CompactorRecordProofs -------------------------
(***************************************************************************)
(* Proofs that compaction loses no record and that hybrid_read finds them. *)
(* Of ids this is shown for any constants, and so is the refinement of     *)
(* AbstractIndex; of the versions of an id for ids that are not used       *)
(* again: MaxVersion is at most 1.  An id that is appended once more while *)
(* a compactor holds the first version is another matter: the path is      *)
(* deleted for the version that was read, whatever it holds by then.       *)
(***************************************************************************)
EXTENDS CompactorProofs

\* Every record is appended under an id of its own.
IdsNotReused == MaxVersion <= 1

-------------------------------------------------------------------------------
(* The log *)

\* An append puts its record in the file of its id, and its temporary file stays
\* until it is over.
LEMMA AppendFacts ==
    ASSUME LogTypes, NEW k \in Ids, AppendStep(k)
    PROVE  /\ \A j \in Ids : \/ log'[File(j)] = log[File(j)] /\ appended'[j] = appended[j]
                             \/ log'[File(j)] = appended'[j] /\ appended'[j] = appended[j] + 1
           /\ \A j \in appending' : \/ j \in appending /\ log'[Temp(j)] = log[Temp(j)]
                                    \/ log'[Temp(j)] # 0
<1>1. log \in [Sources -> Versions] /\ appended \in [Ids -> Versions] /\ appending \subseteq Ids
  BY DEF LogTypes, Content
<1>2. /\ \A j \in Ids : File(j) \in Sources /\ Temp(j) \in Sources /\ File(j) # Temp(k)
                        /\ Temp(j) # File(k)
      /\ \A j \in Ids \ {k} : File(j) # File(k) /\ Temp(j) # Temp(k)
  BY SourceFacts
<1>3. ASSUME Appended(k)
      PROVE  /\ log'[File(k)] = appended[k] + 1 /\ appended'[k] = appended[k] + 1
             /\ \A j \in Ids \ {k} : /\ log'[File(j)] = log[File(j)] /\ appended'[j] = appended[j]
                                     /\ log'[Temp(j)] = log[Temp(j)]
  BY <1>1, <1>2, <1>3 DEF Appended
<1>4. CASE AppendRecord(k)
  <2>1. Appended(k) /\ appending' = appending /\ ~Local
    BY <1>4 DEF AppendRecord
  <2>2. appending = {}
    BY <2>1 DEF LogTypes
  <2> QED
    BY <1>3, <2>1, <2>2
<1>5. CASE WriteTemp(k)
  <2>1. /\ log' = [log EXCEPT ![Temp(k)] = appended[k] + 1] /\ appended' = appended
        /\ appending' = appending \cup {k}
    BY <1>5 DEF WriteTemp
  <2>2. log'[Temp(k)] = appended[k] + 1 /\ appended[k] + 1 # 0
    BY <1>1, <1>2, <2>1, IndexAssumption DEF Versions
  <2> QED
    BY <1>1, <1>2, <2>1, <2>2
<1>6. CASE RenameTemp(k)
  <2>1. appending' = appending \ {k} /\ (Appended(k) \/ UNCHANGED <<log, appended>>)
    BY <1>6 DEF RenameTemp
  <2> QED
    BY <1>1, <1>3, <2>1
<1>7. CASE AppendFails(k)
  BY <1>1, <1>2, <1>7 DEF AppendFails
<1> QED
  BY <1>4, <1>5, <1>6, <1>7 DEF AppendStep

-------------------------------------------------------------------------------
(* What a compactor has of the records while it is alone *)

\* Of every source it took, before the commit its records, at the commit its
\* checkpoint and after it the committed one hold the record; and the frontier it
\* commits names no other source.
Holds(c) ==
    /\ job[c].pc \in Reading => \A p \in job[c].took : job[c].recs[p[1]] >= 1
    /\ job[c].pc \in Committing \cup {"firstWrite"} =>
          \A p \in job[c].took : checkpoint[job[c].gen + 1][p[1]] >= 1
    /\ job[c].pc = "firstWrite" => commits[job[c].tag].folded \subseteq job[c].took
    /\ job[c].pc = "delete" => \A p \in job[c].todo : Committed[p[1]] >= 1

Frontier == current.st = "full" => \A p \in commits[current.tag].folded : Committed[p[1]] >= 1

TempKept == \A k \in appending : log[Temp(k)] # 0 \/ Committed[k] >= 1

\* Every id that has been appended is in the index or in the log.
NoIdLost == \A k \in Ids : appended[k] >= 1 => Committed[k] >= 1 \/ log[File(k)] >= 1

RInv == ~overlapped => /\ Frontier /\ NoIdLost /\ TempKept
                       /\ \A c \in Compactors : Holds(c)

LEMMA NotWorkingHolds ==
    ASSUME NEW c \in Compactors, job[c].pc \in {"idle", "release", "releaseRead", "releaseDelete"}
    PROVE  Holds(c)
BY DEF Holds, Reading, Committing

\* The records a job has in hand grow.
LEMMA TookFacts ==
    ASSUME Types, NEW c \in Compactors
    PROVE  /\ job[c] \in Jobs /\ \A p \in job[c].took \cup job[c].todo : p[1] \in Ids
           /\ \A k \in Ids : job[c].recs[k] \in Int /\ job[c].base[k] \in Int
                             /\ Committed[k] \in Int
<1>1. job[c] \in Jobs
  BY DEF Types, JobTypes
<1>2. \A p \in Sources : p[1] \in Ids
  BY DEF Sources
<1> QED
  BY <1>1, <1>2, FieldTypes, CommittedFacts, IndexAssumption DEF Types, Content, Versions

LEMMA HoldsReading ==
    ASSUME Types, NEW c \in Compactors, Holds(c),
           \/ ReadMeta(c) \/ ReadWatermark(c) \/ ListSources(c) \/ ReadSource(c) \/ SourcesRead(c)
           \/ ReadBase(c) \/ ReadCheckpoint(c)
    PROVE  Holds(c)'
<1>1. JobTypes /\ IndexTypes /\ LogTypes
  BY DEF Types
<1>2. job'[c].pc = "release" => Holds(c)'
  BY DEF Holds, Reading, Committing
<1>3. ASSUME job'[c].pc \in Reading, \A p \in job'[c].took : job'[c].recs[p[1]] >= 1
      PROVE  Holds(c)'
  BY <1>3 DEF Holds, Reading, Committing
<1>4. job[c].pc \in Reading => \A p \in job[c].took : job[c].recs[p[1]] >= 1
  BY DEF Holds
<1>5. CASE ReadMeta(c)
  BY <1>1, <1>2, <1>3, <1>5, ReadMetaStep DEF Reading
<1>6. CASE \/ ReadWatermark(c) \/ ListSources(c) \/ SourcesRead(c) \/ ReadBase(c)
           \/ ReadCheckpoint(c)
  <2>1. \/ job'[c].pc = "release"
        \/ /\ job[c].pc \in Reading /\ job'[c].pc \in Reading
           /\ job'[c].took = job[c].took /\ job'[c].recs = job[c].recs
    BY <1>1, <1>6, WatermarkStep, ListStep, SourcesReadStep, ReadBaseStep, ReadCheckpointStep
       DEF Ends, SameWork, Reading
  <2> QED
    BY <1>2, <1>3, <1>4, <2>1
<1>7. CASE ReadSource(c)
  <2>1. /\ job[c].pc = "enumerate" /\ job'[c].pc = "enumerate"
        /\ \A k \in Ids : job'[c].recs[k] >= job[c].recs[k]
        /\ \A p \in job'[c].took : p \in job[c].took \/ job'[c].recs[p[1]] >= 1
    BY <1>1, <1>7, SourceStep
  <2>2. \A k \in Ids : job[c].recs[k] \in Int /\ job'[c].recs[k] \in Int
    <3>1. job[c] \in Jobs /\ job'[c] \in Jobs
      BY <1>1, <1>7, SourceStep DEF JobTypes, Only
    <3> QED
      BY <3>1, FieldTypes, IndexAssumption DEF Content, Versions
  <2>3. \A p \in job[c].took : job[c].recs[p[1]] >= 1 /\ p[1] \in Ids
    BY <1>4, <2>1, TookFacts DEF Reading
  <2>4. \A p \in job'[c].took : job'[c].recs[p[1]] >= 1
    BY <2>1, <2>2, <2>3
  <2> QED
    BY <1>3, <2>1, <2>4 DEF Reading
<1> QED
  BY <1>5, <1>6, <1>7

LEMMA HoldsCheckpoint ==
    ASSUME Types, NEW c \in Compactors, Holds(c), WriteCheckpoint(c)
    PROVE  Holds(c)'
<1>1. JobTypes /\ IndexTypes /\ LogTypes
  BY DEF Types
<1> DEFINE b == Fold(job[c].base, job[c].recs)
           g == job[c].gen + 1
<1>2. /\ job[c].pc = "write" /\ g \in 1..MaxCommits
      /\ job[c].base \in Content /\ job[c].recs \in Content
      /\ checkpoint' = [checkpoint EXCEPT ![g] = b]
      /\ job'[c].pc = "commit" /\ job'[c].gen = job[c].gen /\ job'[c].took = job[c].took
  BY <1>1, WriteCheckpointStep
<1>3. b \in Content /\ \A k \in Ids : b[k] >= job[c].recs[k]
  BY <1>2, FoldFacts
<1>4. checkpoint'[g] = b
  <2> HIDE DEF b, g
  <2> QED
    BY <1>1, <1>2 DEF IndexTypes
<1>5. \A p \in job[c].took : job[c].recs[p[1]] >= 1 /\ p[1] \in Ids
  BY <1>2, TookFacts DEF Holds, Reading
<1>6. \A k \in Ids : b[k] \in Int /\ job[c].recs[k] \in Int
  <2> HIDE DEF b
  <2> QED
    BY <1>2, <1>3, IndexAssumption DEF Content, Versions
<1>7. \A p \in job[c].took : b[p[1]] >= 1
  <2> HIDE DEF b
  <2> QED
    BY <1>3, <1>5, <1>6
<1> HIDE DEF b
<1> QED
  BY <1>2, <1>4, <1>7 DEF Holds, Reading, Committing

\* The frontier of a commit is of sources that are in its checkpoint.
LEMMA HoldsPut ==
    ASSUME Types, NEW c \in Compactors, Knows(c), Holds(c), PutsCurrent(c)
    PROVE  Holds(c)' /\ Frontier'
<1>1. PICK S \in SUBSET job[c].took :
          commits' = Append(commits, [gen |-> job[c].gen + 1, folded |-> S])
  BY DEF PutsCurrent
<1>2. commits'[NextTag].folded = S
  BY <1>1 DEF Types, IndexTypes, NextTag
<1>3. job[c].pc \in Committing /\ checkpoint' = checkpoint
  BY DEF PutsCurrent
<1>4. \A p \in job[c].took : checkpoint[job[c].gen + 1][p[1]] >= 1
  BY <1>3 DEF Holds
<1>5. CASE current' = Full(NextTag) /\ CleansUp(c)
  <2>1. current'.st = "full" /\ current'.tag = NextTag
    BY <1>5 DEF Full
  <2>2. Committed' = checkpoint[job[c].gen + 1]
    BY <2>1, KnowsPut
  <2>3. Frontier'
    BY <1>1, <1>2, <1>4, <2>1, <2>2 DEF Frontier
  <2>4. \A p \in job'[c].todo : Committed'[p[1]] >= 1
    BY <1>4, <1>5, <2>2 DEF CleansUp
  <2>5. Holds(c)'
    BY <1>5, <2>4 DEF CleansUp, Holds, Reading, Committing, Cleaning
  <2> QED
    BY <2>3, <2>5
<1>6. CASE /\ current' = Empty(NextTag)
           /\ Only(c) /\ job'[c].pc = "firstWrite" /\ job'[c].tag = NextTag
           /\ job'[c].gen = job[c].gen /\ job'[c].took = job[c].took
  <2>1. Frontier'
    BY <1>6 DEF Frontier, Empty
  <2>2. Holds(c)'
    BY <1>1, <1>2, <1>3, <1>4, <1>6 DEF Holds, Reading, Committing
  <2> QED
    BY <2>1, <2>2
<1> QED
  BY <1>5, <1>6 DEF PutsCurrent

LEMMA HoldsFirst ==
    ASSUME Types, NEW c \in Compactors, Knows(c), Holds(c), WriteCurrent(c) \/ WriteCurrentFails(c)
    PROVE  Holds(c)' /\ Frontier'
<1>1. /\ job[c].pc = "firstWrite" /\ UNCHANGED <<checkpoint, commits>>
      /\ \/ CleansUp(c) /\ current' = Finished(current, job[c].tag)
         \/ Ends(c) /\ current' = Absent
  BY FirstWriteStep DEF Types
<1>2. /\ current = Empty(job[c].tag) /\ commits[job[c].tag].folded \subseteq job[c].took
      /\ \A p \in job[c].took : checkpoint[job[c].gen + 1][p[1]] >= 1
  BY <1>1 DEF Knows, Holds
<1>3. CASE CleansUp(c) /\ current' = Full(job[c].tag)
  <2>1. current'.st = "full" /\ current'.tag = job[c].tag
    BY <1>3 DEF Full
  <2>2. Committed' = checkpoint[job[c].gen + 1]
    BY <2>1, KnowsFirst
  <2>3. Frontier'
    BY <1>1, <1>2, <2>1, <2>2 DEF Frontier
  <2>4. \A p \in job'[c].todo : Committed'[p[1]] >= 1
    BY <1>2, <1>3, <2>2 DEF CleansUp
  <2>5. Holds(c)'
    BY <1>3, <2>4 DEF CleansUp, Holds, Reading, Committing, Cleaning
  <2> QED
    BY <2>3, <2>5
<1>4. CASE Ends(c) /\ current' = Absent
  BY <1>4 DEF Ends, Absent, Frontier, Holds, Reading, Committing
<1> QED
  BY <1>1, <1>2, <1>3, <1>4 DEF Finished

\* The other steps of a job
LEMMA HoldsOther ==
    ASSUME Types, NEW c \in Compactors, Holds(c), Knows(c), NotDangling,
           \/ GoesOn(c)
           \/ Ends(c) /\ UNCHANGED indexVars
           \/ DeleteSource(c) \/ ListCheckpoints(c) \/ CycleDone(c)
           \/ AbandonCheckpoint(c) \/ DeleteCheckpoint(c)
    PROVE  Holds(c)'
<1>1. IndexTypes /\ JobTypes
  BY DEF Types
<1>2. CASE GoesOn(c)
  BY <1>2 DEF GoesOn, Holds, Reading, Committing, indexVars
<1>3. CASE Ends(c) \/ CycleDone(c) \/ AbandonCheckpoint(c)
  <2>1. Ends(c)
    BY <1>1, <1>3, Quits, AbandonStep DEF CycleDone
  <2> QED
    BY <2>1 DEF Ends, Holds, Reading, Committing
<1>4. CASE ListCheckpoints(c) \/ DeleteCheckpoint(c)
  <2>1. job'[c].pc = "gc"
    BY <1>1, <1>4, ListCheckpointsStep, DeleteCheckpointStep
  <2> QED
    BY <2>1 DEF Holds, Reading, Committing
<1>5. CASE DeleteSource(c)
  <2>1. /\ job[c].pc = "delete" /\ job'[c].pc = "delete" /\ job'[c].todo \subseteq job[c].todo
    BY <1>1, <1>5, DeleteSourceStep
  <2>2. Committed' = Committed
    BY <1>1, <1>5, KnowsOther, CommittedSame DEF indexVars
  <2> QED
    BY <2>1, <2>2 DEF Holds, Reading, Committing
<1> QED
  BY <1>2, <1>3, <1>4, <1>5

CommittedOfInts == \A k \in Ids : Committed[k] \in Int

LEMMA CommittedTyped == IndexTypes' => CommittedOfInts'
<1>1. IndexTypes => CommittedOfInts
  BY CommittedFacts, IndexAssumption DEF Content, Versions, CommittedOfInts
<1> QED
  BY <1>1, PTL

\* The frontier stands while CURRENT does.
LEMMA FrontierStays ==
    ASSUME Types, IndexTypes', Frontier, UNCHANGED <<current, commits>>,
           \A k \in Ids : Committed'[k] >= Committed[k]
    PROVE  Frontier'
<1>1. current.st = "full" => \A p \in commits[current.tag].folded : p[1] \in Ids
  BY CurrentFacts DEF Types, Commit, Sources, Exists
<1>2. \A k \in Ids : Committed[k] \in Int /\ Committed'[k] \in Int
  BY CommittedTyped, CommittedFacts, IndexAssumption DEF CommittedOfInts, Types, Content, Versions
<1> QED
  BY <1>1, <1>2 DEF Frontier

\* What the log lacks the committed checkpoint has, as long as only that grows.
LEMMA LogStays ==
    ASSUME Types, IndexTypes', NoIdLost, TempKept, UNCHANGED logVars,
           \A k \in Ids : Committed'[k] >= Committed[k]
    PROVE  NoIdLost' /\ TempKept'
<1>1. \A k \in Ids : Committed[k] \in Int /\ Committed'[k] \in Int
  BY CommittedTyped, CommittedFacts, IndexAssumption DEF CommittedOfInts, Types, Content, Versions
<1>2. (\A k \in Ids : appended[k] \in Int) /\ appending \subseteq Ids
  BY IndexAssumption DEF Types, LogTypes, Content, Versions
<1>3. NoIdLost'
  BY <1>1, <1>2 DEF NoIdLost, logVars
<1>4. TempKept'
  BY <1>1, <1>2 DEF TempKept, logVars
<1> QED
  BY <1>3, <1>4

\* A source is deleted when the committed checkpoint has its id.
LEMMA SourceDeleted ==
    ASSUME Types, NEW c \in Compactors, Holds(c), Knows(c), NotDangling, DeleteSource(c)
    PROVE  /\ UNCHANGED <<appending, appended, current, commits>> /\ Committed' = Committed
           /\ \A p \in Sources : log'[p] = log[p] \/ Committed[p[1]] >= 1
<1>1. job[c].pc = "delete" /\ UNCHANGED <<appending, appended, indexVars>>
  BY DeleteSourceStep DEF Types
<1>2. PICK p \in job[c].todo : log' = [log EXCEPT ![p] = 0]
  BY DeleteSourceStep DEF Types
<1>3. Committed[p[1]] >= 1
  BY <1>1 DEF Holds
<1>4. Committed' = Committed
  BY <1>1, CommittedSame DEF indexVars, Types
<1>5. \A q \in Sources : log'[q] = log[q] \/ q = p
  BY <1>2 DEF Types, LogTypes
<1> QED
  BY <1>1, <1>3, <1>4, <1>5 DEF indexVars

LEMMA RecordsNext ==
    ASSUME Types, NEW c \in Compactors, Knows(c), NotDangling, Holds(c), Frontier,
           NoIdLost, TempKept, JobStep(c)
    PROVE  Holds(c)' /\ Frontier' /\ NoIdLost' /\ TempKept'
<1>1. JobTypes /\ IndexTypes /\ LogTypes /\ IndexTypes'
  BY IndexKept DEF Types, JobStep, Cycle
<1>2. \A k \in Ids : Committed'[k] >= Committed[k]
  BY KnowsNext
<1>3. UNCHANGED <<current, commits>> => Frontier'
  BY <1>1, <1>2, FrontierStays
<1>4. UNCHANGED logVars => NoIdLost' /\ TempKept'
  BY <1>1, <1>2, LogStays
<1>5. CASE \/ ReadMeta(c) \/ ReadWatermark(c) \/ ListSources(c) \/ ReadSource(c) \/ SourcesRead(c)
           \/ ReadBase(c) \/ ReadCheckpoint(c)
  <2>1. UNCHANGED <<logVars, indexVars>>
    BY <1>5 DEF ReadMeta, ReadWatermark, ListSources, ReadSource, SourcesRead, ReadBase,
       ReadCheckpoint
  <2> QED
    BY <1>3, <1>4, <1>5, <2>1, HoldsReading DEF indexVars
<1>6. CASE WriteCheckpoint(c)
  BY <1>3, <1>4, <1>6, HoldsCheckpoint DEF WriteCheckpoint
<1>7. CASE \/ GoesOn(c)
           \/ Ends(c) /\ UNCHANGED <<logVars, indexVars>>
           \/ ListCheckpoints(c) \/ CycleDone(c)
  <2>1. UNCHANGED <<logVars, indexVars>>
    BY <1>7 DEF GoesOn, ListCheckpoints, CycleDone
  <2> QED
    BY <1>3, <1>4, <1>7, <2>1, HoldsOther DEF indexVars
<1>8. CASE PutsCurrent(c)
  BY <1>4, <1>8, HoldsPut DEF PutsCurrent
<1>9. CASE WriteCurrent(c) \/ WriteCurrentFails(c)
  BY <1>1, <1>4, <1>9, HoldsFirst, FirstWriteStep
<1>10. CASE AbandonCheckpoint(c) \/ DeleteCheckpoint(c)
  BY <1>3, <1>4, <1>10, HoldsOther DEF AbandonCheckpoint, DeleteCheckpoint
<1>11. CASE DeleteSource(c)
  <2>1. /\ UNCHANGED <<appending, appended, current, commits>> /\ Committed' = Committed
        /\ \A p \in Sources : log'[p] = log[p] \/ Committed[p[1]] >= 1
    BY <1>11, SourceDeleted
  <2>2. \A k \in Ids : /\ log'[File(k)] = log[File(k)] \/ Committed[k] >= 1
                       /\ log'[Temp(k)] = log[Temp(k)] \/ Committed[k] >= 1
    BY <2>1, SourceFacts
  <2>3. (\A k \in Ids : Committed[k] \in Int) /\ appending \subseteq Ids
    BY TookFacts DEF Types, LogTypes
  <2>4. NoIdLost'
    BY <2>1, <2>2, <2>3 DEF NoIdLost
  <2>5. TempKept'
    BY <2>1, <2>2, <2>3 DEF TempKept
  <2> QED
    BY <1>3, <1>11, <2>1, <2>4, <2>5, HoldsOther
<1> QED
  BY <1>1, <1>5, <1>6, <1>7, <1>8, <1>9, <1>10, <1>11, CheckStep, CommitStep DEF JobStep

-------------------------------------------------------------------------------
(* The invariant *)

LEMMA LogSteps ==
    ASSUME [Next]_vars
    PROVE  \/ \E c \in Compactors : JobStep(c)
           \/ \E k \in Ids : AppendStep(k)
           \/ UNCHANGED logVars
<1>1. ASSUME NEW c \in Compactors, Cycle(c) \/ Crash(c) PROVE JobStep(c) \/ UNCHANGED logVars
  BY <1>1 DEF Cycle, Crash, JobStep, AcquireLock, LockRefused, FindLock, ReadLock, DeleteLock
<1>2. ASSUME NEW r \in Readers, HybridRead(r) PROVE UNCHANGED logVars
  BY <1>2, ReadMoves
<1>3. Lapse => UNCHANGED logVars
  BY LapseMoves
<1>4. UNCHANGED vars => UNCHANGED logVars
  BY DEF vars
<1> QED
  BY <1>1, <1>2, <1>3, <1>4, Steps

LEMMA RInit == Init => RInv
<1> SUFFICES ASSUME Init PROVE RInv
  OBVIOUS
<1>1. \A c \in Compactors : Holds(c)
  BY NoJobFields DEF Init, IsJob, Holds, Reading, Committing
<1>2. Frontier /\ TempKept
  BY DEF Init, Absent, Frontier, TempKept
<1>3. NoIdLost
  <2>1. current.st # "full"
    BY DEF Init, Absent
  <2>2. Committed = Nothing /\ appended = Nothing
    BY <2>1 DEF Init, Committed
  <2> QED
    BY <2>2 DEF NoIdLost, Nothing
<1> QED
  BY <1>1, <1>2, <1>3 DEF RInv

\* Steps outside _compact_body
LEMMA ROutside ==
    ASSUME Types, UNCHANGED <<indexVars, overlapped>>, RInv, ~overlapped,
           \A d \in Compactors : job'[d] = job[d] \/ ~Working(d)',
           (\E k \in Ids : AppendStep(k)) \/ UNCHANGED logVars
    PROVE  RInv'
<1>1. LogTypes /\ IndexTypes
  BY DEF Types
<1>2. Committed' = Committed
  BY <1>1, CommittedSame DEF indexVars
<1>3. ASSUME NEW d \in Compactors PROVE Holds(d)'
  <2>1. CASE job'[d] = job[d]
    BY <2>1, <1>2, <1>3 DEF RInv, Holds, indexVars
  <2>2. CASE ~Working(d)'
    BY <2>2 DEF Working, Holds, Reading, Committing
  <2> QED
    BY <2>1, <2>2
<1>4. Frontier'
  BY <1>2 DEF RInv, Frontier, indexVars
<1>5. CASE UNCHANGED logVars
  BY <1>2, <1>3, <1>4, <1>5 DEF RInv, NoIdLost, TempKept, logVars
<1>6. ASSUME NEW k \in Ids, AppendStep(k) PROVE RInv'
  <2>1. /\ \A j \in Ids : \/ log'[File(j)] = log[File(j)] /\ appended'[j] = appended[j]
                          \/ log'[File(j)] = appended'[j] /\ appended'[j] = appended[j] + 1
        /\ \A j \in appending' : \/ j \in appending /\ log'[Temp(j)] = log[Temp(j)]
                                 \/ log'[Temp(j)] # 0
    BY <1>1, <1>6, AppendFacts
  <2>2. \A j \in Ids : appended[j] \in Int
    BY <1>1, IndexAssumption DEF LogTypes, Content, Versions
  <2>3. NoIdLost'
    BY <1>2, <2>1, <2>2 DEF RInv, NoIdLost
  <2>4. TempKept'
    BY <1>2, <2>1 DEF RInv, TempKept
  <2> QED
    BY <1>3, <1>4, <2>3, <2>4 DEF RInv
<1> QED
  BY <1>5, <1>6

LEMMA RNext ==
    ASSUME Types, LInv, KInv, RInv, [Next]_vars
    PROVE  RInv'
<1> SUFFICES ASSUME ~overlapped'
             PROVE  RInv'
  BY DEF RInv
<1>1. ASSUME NEW c \in Compactors, JobStep(c)
      PROVE  RInv'
  <2>1. /\ ~overlapped /\ Only(c)
        /\ \A d \in Compactors \ {c} : ~Working(d) /\ ~Working(d)'
    BY <1>1, Alone DEF LInv
  <2>2. Holds(c)' /\ Frontier' /\ NoIdLost' /\ TempKept'
    BY <1>1, <2>1, RecordsNext DEF RInv, KInv
  <2>3. \A d \in Compactors \ {c} : Holds(d)'
    BY <2>1 DEF Working, Holds, Reading, Committing
  <2> QED
    BY <2>2, <2>3 DEF RInv
<1>2. ASSUME ~\E c \in Compactors : JobStep(c)
      PROVE  RInv'
  <2>1. /\ UNCHANGED <<indexVars, overlapped>>
        /\ \A d \in Compactors : job'[d] = job[d] \/ ~Working(d)'
    BY <1>2, IndexSteps
  <2>2. (\E k \in Ids : AppendStep(k)) \/ UNCHANGED logVars
    BY <1>2, LogSteps
  <2> QED
    BY <2>1, <2>2, ROutside
<1> QED
  BY <1>1, <1>2

LEMMA RecordInv == Spec => [](P!IInv /\ Types /\ LInv /\ KInv /\ RInv)
<1>1. Init => RInv
  BY RInit
<1>2. Types /\ LInv /\ KInv /\ RInv /\ [Next]_vars => RInv'
  BY RNext
<1> QED
  BY <1>1, <1>2, IndexInv, PTL DEF Spec

-------------------------------------------------------------------------------
(* No record is lost *)

\* While no two compactors have run at once, every id ever appended is in the
\* committed index or still has its log file, for any numbers of compactors, ids
\* and versions of an id, in both modes and on both backends, through crashes
\* and lapses of the lock: a source is deleted only once CURRENT names a
\* checkpoint that has it (crash matrix of CONCURRENCY.md, C8, C9, C11).
THEOREM IdsKept == Spec => [](~overlapped => NoIdLost)
<1>1. RInv => (~overlapped => NoIdLost)
  BY DEF RInv
<1> QED
  BY <1>1, RecordInv, PTL

LEMMA OnlyVersion ==
    ASSUME IdsNotReused, Types
    PROVE  /\ \A k \in Ids : appended[k] \in Int /\ appended[k] <= 1 /\ Committed[k] \in Nat
           /\ \A p \in Sources : log[p] \in Int /\ log[p] <= 1
BY CommittedFacts, IndexAssumption DEF IdsNotReused, Types, LogTypes, Content, Versions

LEMMA OnlyVersionKept ==
    ASSUME IdsNotReused
    PROVE  RInv /\ Types => NoRecordLostAlone
<1> SUFFICES ASSUME RInv, Types, ~overlapped, NEW k \in Ids
             PROVE  Committed[k] >= appended[k] \/ log[File(k)] >= appended[k]
  BY DEF NoRecordLostAlone, NoRecordLost
<1>1. appended[k] >= 1 => Committed[k] >= 1 \/ log[File(k)] >= 1
  BY DEF RInv, NoIdLost
<1>2. appended[k] \in Int /\ appended[k] <= 1 /\ Committed[k] \in Nat /\ log[File(k)] \in Int
  BY OnlyVersion, SourceFacts
<1> QED
  BY <1>1, <1>2

\* If no id is used twice, while no two compactors have run at once every record
\* appended is in the committed index or in the log, as the version appended.
\* (An id that is appended again between a compactor's read and its delete
\* loses the second version: its path is deleted by name.)
THEOREM RecordsKept ==
    ASSUME IdsNotReused
    PROVE  Spec => []NoRecordLostAlone
<1> QED
  BY OnlyVersionKept, RecordInv, PTL

\* As long as no lease on compactor.lock has lapsed under its holder, nothing is
\* lost, whatever else happens: a TTL longer than a cycle is enough.
THEOREM RecordsKeptBeforeLapse ==
    ASSUME IdsNotReused
    PROVE  Spec => [](dead[Lock] = {} => NoRecordLost)
<1>1. RInv /\ Types /\ LInv => (dead[Lock] = {} => NoRecordLost)
  BY OnlyVersionKept DEF LInv, LapseFree, NoRecordLostAlone
<1> QED
  BY <1>1, RecordInv, PTL

\* In retained mode no source that CURRENT says is folded holds a record the
\* committed checkpoint lacks, so that a reader that skips it misses nothing
\* (P11, P12).
THEOREM FrontierFolded ==
    ASSUME IdsNotReused
    PROVE  Spec => []FrontierIsFolded
<1>1. ASSUME RInv, Types PROVE FrontierIsFolded
  <2>1. ASSUME ~overlapped, current.st = "full", NEW p \in commits[current.tag].folded
        PROVE  Committed[p[1]] >= log[p]
    <3>1. p \in Sources /\ p[1] \in Ids
      BY <1>1, <2>1, CurrentFacts DEF Types, Commit, Sources, Exists
    <3>2. log[p] \in Int /\ log[p] <= 1 /\ Committed[p[1]] \in Int
      BY <1>1, <3>1, OnlyVersion
    <3>3. Committed[p[1]] >= 1
      BY <1>1, <2>1 DEF RInv, Frontier
    <3> QED
      BY <3>2, <3>3
  <2> QED
    BY <2>1 DEF FrontierIsFolded
<1>2. RInv /\ Types => FrontierIsFolded
  BY <1>1
<1> QED
  BY <1>2, RecordInv, PTL

-------------------------------------------------------------------------------
(* An append that raises *)

\* Bound of the model: an append that has not returned has room for its version.
Room == \A k \in appending : appended[k] < MaxVersion

LEMMA AppendsOne ==
    ASSUME LogTypes, NEW k \in Ids, AppendStep(k)
    PROVE  /\ appending' \subseteq appending \cup {k} /\ appending \subseteq Ids
           /\ \A j \in Ids \ {k} : appended'[j] = appended[j]
           /\ k \in appending' => \/ appended'[k] < MaxVersion
                                  \/ k \in appending /\ appended'[k] = appended[k]
<1>1. appending \subseteq Ids /\ appended \in [Ids -> Versions] /\ (~Local => appending = {})
  BY DEF LogTypes, Content
<1> QED
  BY <1>1 DEF AppendStep, AppendRecord, WriteTemp, RenameTemp, AppendFails, Appended

LEMMA RoomNext ==
    ASSUME Types, Room, [Next]_vars
    PROVE  Room'
<1>1. UNCHANGED logVars => Room'
  BY DEF Room, logVars
<1>2. ASSUME NEW c \in Compactors, JobStep(c) PROVE Room'
  <2>1. UNCHANGED <<appending, appended>>
    BY <1>2, CheckStep, CommitStep DEF Types, JobStep, GoesOn, PutsCurrent, logVars, ReadMeta,
       ReadWatermark, ListSources, ReadSource, SourcesRead, ReadBase, ReadCheckpoint,
       WriteCheckpoint, WriteCurrent, WriteCurrentFails, AbandonCheckpoint, DeleteSource,
       ListCheckpoints, DeleteCheckpoint, CycleDone
  <2> QED
    BY <2>1 DEF Room
<1>3. ASSUME NEW k \in Ids, AppendStep(k) PROVE Room'
  <2>1. /\ appending' \subseteq appending \cup {k}
        /\ \A j \in Ids \ {k} : appended'[j] = appended[j]
        /\ appending \subseteq Ids
    BY <1>3, AppendsOne DEF Types
  <2>2. k \in appending' => appended'[k] < MaxVersion
    BY <1>3, AppendsOne DEF Types, Room
  <2> QED
    BY <2>1, <2>2 DEF Room
<1> QED
  BY <1>1, <1>2, <1>3, LogSteps

LEMMA RoomInv == Spec => []Room
<1>1. Init => Room
  BY DEF Init, Room
<1>2. Types /\ Room /\ [Next]_vars => Room'
  BY RoomNext
<1> QED
  BY <1>1, <1>2, Typed, PTL DEF Spec

\* An append that raises because a compactor has deleted its temporary file has
\* not lost its record: the compactor deletes what it has read, and the record
\* is in the committed index (C6, C9).
THEOREM TempsIndexed ==
    ASSUME IdsNotReused
    PROVE  Spec => []TakenTempIndexed
<1>1. ASSUME RInv, Types, Room PROVE TakenTempIndexed
  <2>1. ASSUME NEW k \in appending, ~overlapped, log[Temp(k)] = 0
        PROVE  Committed[k] > appended[k]
    <3>1. k \in Ids /\ Committed[k] >= 1 /\ appended[k] < MaxVersion
      BY <1>1, <2>1 DEF RInv, TempKept, Types, LogTypes, Room
    <3>2. appended[k] \in Int /\ Committed[k] \in Nat
      BY <1>1, <3>1, OnlyVersion
    <3> QED
      BY <3>1, <3>2, IndexAssumption DEF IdsNotReused
  <2> QED
    BY <2>1 DEF TakenTempIndexed
<1>2. RInv /\ Types /\ Room => TakenTempIndexed
  BY <1>1
<1> QED
  BY <1>2, RecordInv, RoomInv, PTL

-------------------------------------------------------------------------------
(* hybrid_read *)

\* As long as no commit has fallen into a read: CURRENT is the one it began
\* with, what it has collected is at least the checkpoint that CURRENT names,
\* what it skips is in that checkpoint, and every id it owes its caller is in
\* what it has or among the paths it will read.
ReadKnows(r) ==
    ~overlapped /\ reader[r].pc # "idle" /\ Len(commits) = reader[r].since =>
        /\ current.st # "empty"
        /\ reader[r].pc = "checkpoint" => current.st = "full" /\ reader[r].gen = Generation
        /\ reader[r].pc # "checkpoint" => \A k \in Ids : reader[r].out[k] >= Committed[k]
        /\ \A p \in reader[r].skip : Committed[p[1]] >= 1
        /\ \A k \in Ids :
              reader[r].owed[k] >= 1 => Committed[k] >= 1 \/ log[File(k)] >= 1
        /\ reader[r].pc \in {"enumerate", "done"} =>
              \A k \in Ids : reader[r].owed[k] >= 1 =>
                                reader[r].out[k] >= 1 \/ File(k) \in reader[r].todo
        /\ reader[r].pc = "done" => reader[r].todo = {}

Since == \A r \in Readers : reader[r].since <= Len(commits)

HInv == Since /\ \A r \in Readers : ReadKnows(r)

\* A step of a job commits, or leaves the index as a reader finds it and deletes
\* only what the committed checkpoint has.
LEMMA JobStepReads ==
    ASSUME Types, NEW c \in Compactors, Knows(c), NotDangling, Holds(c), JobStep(c)
    PROVE  \/ Len(commits') = Len(commits) + 1
           \/ current.st = "empty"
           \/ /\ UNCHANGED <<current, commits>>
              /\ Committed' = Committed /\ Generation' = Generation
              /\ \A k \in Ids : log'[File(k)] = log[File(k)] \/ Committed[k] >= 1
<1>1. JobTypes /\ IndexTypes /\ LogTypes
  BY DEF Types
<1>2. CASE UNCHANGED <<logVars, indexVars>>
  BY <1>1, <1>2, CommittedSame DEF logVars, indexVars
<1>3. CASE WriteCheckpoint(c)
  BY <1>3, KnowsCheckpoint DEF WriteCheckpoint, logVars
<1>4. CASE PutsCurrent(c)
  BY <1>1, <1>4 DEF PutsCurrent, IndexTypes
<1>5. CASE WriteCurrent(c) \/ WriteCurrentFails(c)
  BY <1>1, <1>5, FirstWriteStep DEF Knows, Empty
<1>6. CASE AbandonCheckpoint(c) \/ DeleteCheckpoint(c)
  BY <1>6, KnowsDeletes DEF AbandonCheckpoint, DeleteCheckpoint, logVars
<1>7. CASE DeleteSource(c)
  <2>1. /\ UNCHANGED <<current, commits>> /\ Committed' = Committed
        /\ \A p \in Sources : log'[p] = log[p] \/ Committed[p[1]] >= 1
    BY <1>7, SourceDeleted
  <2>2. Generation' = Generation
    BY <2>1 DEF Generation
  <2> QED
    BY <2>1, <2>2, SourceFacts
<1>8. CASE \/ ReadMeta(c) \/ ReadWatermark(c) \/ ListSources(c) \/ ReadSource(c) \/ SourcesRead(c)
           \/ ReadBase(c) \/ ReadCheckpoint(c) \/ GoesOn(c) \/ ListCheckpoints(c) \/ CycleDone(c)
           \/ Ends(c) /\ UNCHANGED <<logVars, indexVars>>
  BY <1>2, <1>8 DEF ReadMeta, ReadWatermark, ListSources, ReadSource, SourcesRead, ReadBase,
     ReadCheckpoint, GoesOn, ListCheckpoints, CycleDone
<1> QED
  BY <1>1, <1>3, <1>4, <1>5, <1>6, <1>7, <1>8, CheckStep, CommitStep DEF JobStep

\* What a reader knows stands while it takes no step itself.
LEMMA ReadStays ==
    ASSUME Types, NEW r \in Readers, ReadKnows(r), reader'[r] = reader[r],
           ~overlapped' => ~overlapped,
           UNCHANGED <<current, commits>>, Committed' = Committed, Generation' = Generation,
           \A k \in Ids : \/ log'[File(k)] = log[File(k)]
                          \/ Committed[k] >= 1
                          \/ log'[File(k)] >= 1
    PROVE  ReadKnows(r)'
BY DEF ReadKnows

LEMMA ReaderInts ==
    ASSUME Types, NEW r \in Readers
    PROVE  /\ reader[r] \in Reads /\ reader[r].skip \subseteq Sources
           /\ reader[r].todo \subseteq Sources
           /\ \A k \in Ids : /\ reader[r].out[k] \in Nat /\ reader[r].owed[k] \in Int
                             /\ reader[r].owed[k] <= MaxVersion
                             /\ Committed[k] \in Nat /\ log[File(k)] \in Nat
           /\ \A p \in Sources : p[1] \in Ids
<1>1. reader[r] \in Reads
  BY DEF Types, ReaderTypes
<1>2. \A p \in Sources : p[1] \in Ids
  BY DEF Sources
<1>3. /\ reader[r].skip \subseteq Sources /\ reader[r].todo \subseteq Sources
      /\ reader[r].out \in Content /\ reader[r].owed \in Content
  BY <1>1, ReadFieldTypes
<1>4. log \in [Sources -> Versions]
  BY DEF Types, LogTypes
<1> QED
  BY <1>1, <1>2, <1>3, <1>4, SourceFacts, CommittedFacts, IndexAssumption
     DEF Types, Content, Versions

\* The steps of a read
LEMMA ReadKnowsOwn ==
    ASSUME Types, RInv, KInv, NEW r \in Readers, ReadKnows(r), HybridRead(r)
    PROVE  ReadKnows(r)'
<1>1. ReaderTypes /\ IndexTypes /\ LogTypes
  BY DEF Types
<1>2. UNCHANGED <<logVars, indexVars, overlapped>>
  BY ReadMoves
<1>3. Committed' = Committed /\ Generation' = Generation
  BY <1>1, <1>2, CommittedSame DEF indexVars
<1>4. UNCHANGED <<current, commits, log, appended>>
  BY <1>2 DEF logVars, indexVars
<1>5. ReaderTypes'
  BY <1>1, ReaderKept
<1>6. ASSUME reader'[r] = NoRead PROVE ReadKnows(r)'
  BY <1>6, NoReadFields DEF ReadKnows, IsRead
<1> SUFFICES ASSUME ~overlapped, Len(commits) = reader'[r].since, reader'[r] # NoRead
             PROVE  ReadKnows(r)'
  BY <1>2, <1>4, <1>6 DEF ReadKnows
<1>7. \A k \in Ids : /\ reader[r].out[k] \in Int /\ reader[r].owed[k] \in Int
                     /\ Committed[k] \in Nat /\ log[File(k)] \in Nat
  BY ReaderInts
<1>8. \A k \in Ids : reader'[r].out[k] \in Int /\ reader'[r].owed[k] \in Int
  BY <1>5, ReadFieldTypes, IndexAssumption DEF ReaderTypes, Content, Versions
<1>9. CASE HybridCurrent(r)
  <2>1. /\ OnlyRead(r) /\ current.st # "empty"
        /\ reader'[r].pc = IF current.st = "full" THEN "checkpoint" ELSE "watermark"
        /\ reader'[r].gen = Generation /\ reader'[r].out = Nothing
        /\ reader'[r].skip = {} /\ reader'[r].todo = {}
        /\ reader'[r].owed = appended /\ reader'[r].since = Len(commits)
    BY <1>1, <1>9, HybridCurrentStep
  <2>2. \A k \in Ids : appended[k] >= 1 => Committed[k] >= 1 \/ log[File(k)] >= 1
    BY DEF RInv, NoIdLost
  <2>3. current.st # "full" => Committed = Nothing
    BY DEF Committed
  <2>4. \A k \in Ids : Nothing[k] >= Nothing[k]
    BY DEF Nothing
  <2> QED
    BY <1>3, <1>4, <2>1, <2>2, <2>3, <2>4 DEF ReadKnows
<1>10. ASSUME SameRead(reader[r], reader'[r]), reader[r].pc # "idle"
       PROVE  /\ current.st # "empty"
              /\ reader[r].pc = "checkpoint" => current.st = "full" /\ reader[r].gen = Generation
              /\ reader[r].pc # "checkpoint" => \A k \in Ids : reader[r].out[k] >= Committed[k]
              /\ \A p \in reader[r].skip : Committed[p[1]] >= 1
              /\ \A k \in Ids :
                    reader'[r].owed[k] >= 1 => Committed[k] >= 1 \/ log[File(k)] >= 1
              /\ reader[r].pc \in {"enumerate", "done"} =>
                    \A k \in Ids : reader'[r].owed[k] >= 1 =>
                                      reader[r].out[k] >= 1 \/ File(k) \in reader[r].todo
  BY <1>10 DEF ReadKnows, SameRead
<1>11. CASE HybridCheckpoint(r)
  <2>1. /\ reader[r].pc = "checkpoint"
        /\ reader'[r].pc = "watermark" /\ SameRead(reader[r], reader'[r])
        /\ reader'[r].skip = reader[r].skip
        /\ reader'[r].out = IF checkpoint[reader[r].gen] = NoFile THEN reader[r].out
                            ELSE checkpoint[reader[r].gen]
    BY <1>1, <1>11, HybridCheckpointStep
  <2>2. current.st = "full" /\ reader[r].gen = Generation
    BY <1>10, <2>1
  <2>3. reader'[r].out = Committed
    BY <1>1, <2>1, <2>2, CommittedFacts DEF KInv, NotDangling
  <2>4. \A k \in Ids : reader'[r].out[k] >= Committed[k]
    BY <1>7, <2>3
  <2> QED
    BY <1>3, <1>4, <1>10, <2>1, <2>4 DEF ReadKnows
<1>12. CASE HybridWatermark(r)
  <2>1. /\ reader[r].pc = "watermark"
        /\ reader'[r].pc = "list" /\ SameRead(reader[r], reader'[r])
        /\ reader'[r].skip = Folded /\ reader'[r].out = reader[r].out
    BY <1>1, <1>12, HybridWatermarkStep
  <2>2. \A p \in Folded : Committed[p[1]] >= 1
    BY DEF Folded, RInv, Frontier
  <2> QED
    BY <1>3, <1>4, <1>10, <2>1, <2>2 DEF ReadKnows
<1>13. CASE HybridList(r)
  <2>1. /\ reader[r].pc = "list"
        /\ reader'[r].pc = "enumerate" /\ SameRead(reader[r], reader'[r])
        /\ reader'[r].skip = {} /\ reader'[r].todo = Present \ reader[r].skip
        /\ reader'[r].out = reader[r].out
    BY <1>1, <1>13, HybridListStep
  <2>2. ASSUME NEW k \in Ids, reader'[r].owed[k] >= 1, File(k) \notin reader'[r].todo
        PROVE  reader'[r].out[k] >= 1
    <3>1. reader[r].out[k] >= Committed[k]
      BY <1>10, <2>1
    <3>2. Committed[k] >= 1 \/ log[File(k)] >= 1
      BY <1>10, <2>1, <2>2
    <3>3. log[File(k)] >= 1 => File(k) \in reader[r].skip
      BY <1>7, <2>1, <2>2, SourceFacts DEF Present
    <3>4. File(k) \in reader[r].skip => Committed[k] >= 1
      BY <1>10, <2>1, SourceFacts
    <3> QED
      BY <1>7, <2>1, <3>1, <3>2, <3>3, <3>4
  <2> QED
    BY <1>3, <1>4, <1>10, <2>1, <2>2 DEF ReadKnows
<1>14. CASE HybridSource(r)
  <2>1. /\ reader[r].pc = "enumerate"
        /\ reader'[r].pc = "enumerate" /\ SameRead(reader[r], reader'[r])
        /\ reader'[r].skip = reader[r].skip
        /\ \A k \in Ids : reader'[r].out[k] >= reader[r].out[k]
    BY <1>1, <1>14, HybridSourceStep
  <2>2. PICK p \in reader[r].todo :
          /\ reader'[r].todo = reader[r].todo \ {p}
          /\ \A k \in Ids : p = File(k) => reader'[r].out[k] >= log[p]
    BY <1>1, <1>14, HybridSourceStep
  <2>3. \A k \in Ids : reader'[r].out[k] >= Committed[k]
    BY <1>7, <1>8, <1>10, <2>1
  <2>4. ASSUME NEW k \in Ids, reader'[r].owed[k] >= 1, File(k) \notin reader'[r].todo
        PROVE  reader'[r].out[k] >= 1
    <3>1. CASE File(k) = p
      <4>1. reader'[r].out[k] >= log[File(k)]
        BY <2>2, <3>1
      <4>2. Committed[k] >= 1 \/ log[File(k)] >= 1
        BY <1>10, <2>1, <2>4
      <4> QED
        BY <1>7, <1>8, <2>3, <4>1, <4>2
    <3>2. CASE File(k) # p
      <4>1. reader[r].out[k] >= 1
        BY <1>10, <2>1, <2>2, <2>4, <3>2
      <4> QED
        BY <1>7, <1>8, <2>1, <4>1
    <3> QED
      BY <3>1, <3>2
  <2> QED
    BY <1>3, <1>4, <1>10, <2>1, <2>3, <2>4 DEF ReadKnows
<1>15. CASE HybridReturn(r)
  <2>1. /\ reader[r].pc = "enumerate" /\ reader[r].todo = {}
        /\ reader'[r].pc = "done" /\ SameRead(reader[r], reader'[r])
        /\ reader'[r].skip = reader[r].skip /\ reader'[r].todo = {}
        /\ reader'[r].out = reader[r].out
    BY <1>1, <1>15, HybridReturnStep
  <2> QED
    BY <1>3, <1>4, <1>10, <2>1 DEF ReadKnows
<1>16. CASE HybridForget(r)
  BY <1>1, <1>16, HybridForgets DEF HybridForget
<1> QED
  BY <1>9, <1>11, <1>12, <1>13, <1>14, <1>15, <1>16 DEF HybridRead

\* The commits only grow in number, and a read counts them as it begins.
LEMMA SinceNext ==
    ASSUME Types, Since, [Next]_vars
    PROVE  Since'
<1>1. ReaderTypes /\ IndexTypes /\ LogTypes /\ JobTypes /\ Len(commits) \in Nat
  BY DEF Types, IndexTypes
<1>2. \A r \in Readers : reader[r].since \in Int
  BY <1>1, ReadFieldTypes, IndexAssumption DEF ReaderTypes
<1>3. ASSUME reader' = reader, Len(commits) <= Len(commits'), Len(commits') \in Int PROVE Since'
  BY <1>1, <1>2, <1>3 DEF Since
<1>4. ASSUME NEW c \in Compactors, Cycle(c) \/ Crash(c) PROVE Since'
  <2>1. IndexTypes' /\ Len(commits) <= Len(commits')
    BY <1>1, <1>4, IndexKept
  <2> QED
    BY <1>3, <1>4, <2>1, OtherVars DEF IndexTypes
<1>5. ASSUME NEW r \in Readers, HybridRead(r) PROVE Since'
  <2>1. commits' = commits
    BY <1>5, ReadMoves DEF indexVars
  <2>2. /\ OnlyRead(r)
        /\ \/ reader'[r].since \in {reader[r].since, Len(commits)}
           \/ reader'[r] = NoRead
    BY <1>1, <1>5, HybridCurrentStep, HybridCheckpointStep, HybridWatermarkStep, HybridListStep,
       HybridSourceStep, HybridReturnStep, HybridForgets DEF HybridRead, HybridForget, SameRead
  <2>3. NoRead.since = 0
    BY NoReadFields DEF IsRead
  <2>4. reader'[r].since <= Len(commits)
    BY <1>1, <2>2, <2>3 DEF Since
  <2> QED
    BY <2>1, <2>2, <2>4 DEF OnlyRead, Since
<1>6. ASSUME UNCHANGED <<reader, commits>> PROVE Since'
  BY <1>6 DEF Since
<1> QED
  BY <1>4, <1>5, <1>6, Steps, AppendMoves, LapseMoves DEF vars, indexVars

LEMMA HNext ==
    ASSUME Types, LInv, KInv, RInv, HInv, [Next]_vars
    PROVE  HInv'
<1>1. Since'
  BY SinceNext DEF HInv
<1>2. ReaderTypes /\ IndexTypes /\ LogTypes /\ Len(commits) \in Nat
      /\ \A r \in Readers : reader[r].since \in Int
  BY ReadFieldTypes, IndexAssumption DEF Types, IndexTypes, ReaderTypes
<1> SUFFICES ASSUME NEW r \in Readers
             PROVE  ReadKnows(r)'
  BY <1>1 DEF HInv
<1>3. ReadKnows(r) /\ reader[r].since <= Len(commits)
  BY DEF HInv, Since
<1>4. ASSUME NEW c \in Compactors, JobStep(c)
      PROVE  ReadKnows(r)'
  <2> SUFFICES ASSUME ~overlapped', reader'[r].pc # "idle", Len(commits') = reader'[r].since
               PROVE  ReadKnows(r)'
    BY DEF ReadKnows
  <2>1. ~overlapped
    BY <1>4, Alone DEF LInv
  <2>2. reader' = reader
    BY <1>4, OtherVars DEF JobStep, Cycle
  <2>3. \/ Len(commits') = Len(commits) + 1
        \/ current.st = "empty"
        \/ /\ UNCHANGED <<current, commits>>
           /\ Committed' = Committed /\ Generation' = Generation
           /\ \A k \in Ids : log'[File(k)] = log[File(k)] \/ Committed[k] >= 1
    BY <1>4, <2>1, JobStepReads DEF KInv, RInv
  <2>4. Len(commits') # Len(commits) + 1
    BY <1>2, <1>3, <2>2
  <2>5. current.st = "empty" => commits' = commits
    <3>1. CASE UNCHANGED commits
      BY <3>1
    <3>2. CASE PutsCurrent(c)
      BY <1>2, <2>4, <3>2 DEF PutsCurrent, Types, IndexTypes
    <3> QED
      BY <1>4, <3>1, <3>2, CheckStep, CommitStep, FirstWriteStep DEF Types, JobStep, GoesOn,
         ReadMeta, ReadWatermark, ListSources, ReadSource, SourcesRead, ReadBase, ReadCheckpoint,
         WriteCheckpoint, AbandonCheckpoint, DeleteSource, ListCheckpoints, DeleteCheckpoint,
         CycleDone, indexVars
  <2>6. current.st # "empty"
    BY <1>3, <2>1, <2>2, <2>5 DEF ReadKnows
  <2> QED
    BY <1>3, <2>1, <2>2, <2>3, <2>4, <2>6, ReadStays
<1>5. ASSUME NEW q \in Readers, HybridRead(q)
      PROVE  ReadKnows(r)'
  <2>1. UNCHANGED <<logVars, indexVars, overlapped>>
    BY <1>5, ReadMoves
  <2>2. Committed' = Committed /\ Generation' = Generation
    BY <1>2, <2>1, CommittedSame DEF indexVars
  <2>3. CASE r = q
    BY <1>3, <1>5, <2>3, ReadKnowsOwn
  <2>4. CASE r # q
    <3>1. reader'[r] = reader[r]
      BY <1>2, <1>5, <2>4, HybridCurrentStep, HybridCheckpointStep, HybridWatermarkStep,
         HybridListStep, HybridSourceStep, HybridReturnStep, HybridForgets
         DEF HybridRead, HybridForget, OnlyRead
    <3> QED
      BY <1>3, <2>1, <2>2, <3>1, ReadStays DEF logVars, indexVars
  <2> QED
    BY <2>3, <2>4
<1>6. ASSUME NEW k \in Ids, AppendStep(k)
      PROVE  ReadKnows(r)'
  <2>1. UNCHANGED <<indexVars, reader, overlapped>>
    BY <1>6, AppendMoves
  <2>2. Committed' = Committed /\ Generation' = Generation
    BY <1>2, <2>1, CommittedSame DEF indexVars
  <2>3. \A j \in Ids : log'[File(j)] = log[File(j)] \/ log'[File(j)] = appended[j] + 1
    BY <1>2, <1>6, AppendFacts
  <2>4. \A j \in Ids : appended[j] + 1 >= 1
    BY <1>2, IndexAssumption DEF LogTypes, Content, Versions
  <2> QED
    BY <1>3, <2>1, <2>2, <2>3, <2>4, ReadStays DEF indexVars
<1>7. ASSUME UNCHANGED <<logVars, indexVars, overlapped, reader>>
      PROVE  ReadKnows(r)'
  <2>1. Committed' = Committed /\ Generation' = Generation
    BY <1>2, <1>7, CommittedSame DEF indexVars
  <2> QED
    BY <1>3, <1>7, <2>1, ReadStays DEF logVars, indexVars
<1>8. ASSUME NEW c \in Compactors, Cycle(c) \/ Crash(c), ~JobStep(c)
      PROVE  UNCHANGED <<logVars, indexVars, overlapped, reader>>
  BY <1>8, OtherVars DEF Cycle, Crash, JobStep, AcquireLock, LockRefused, FindLock, ReadLock,
     DeleteLock
<1> QED
  BY <1>4, <1>5, <1>6, <1>7, <1>8, Steps, LapseMoves DEF vars

LEMMA HInit == Init => HInv
<1> SUFFICES ASSUME Init PROVE HInv
  OBVIOUS
<1>1. \A r \in Readers : reader[r] = NoRead /\ NoRead.pc = "idle" /\ NoRead.since = 0
  BY NoReadFields DEF Init, IsRead
<1>2. Len(commits) = 0
  BY DEF Init
<1> QED
  BY <1>1, <1>2 DEF HInv, Since, ReadKnows

LEMMA ReadInv == Spec => [](P!IInv /\ Types /\ LInv /\ KInv /\ RInv /\ HInv)
<1>1. Types /\ LInv /\ KInv /\ RInv /\ HInv /\ [Next]_vars => HInv'
  BY HNext
<1> QED
  BY <1>1, HInit, RecordInv, PTL DEF Spec

\* hybrid_read finds a record for every id appended before it began, whatever
\* appends, deletions and garbage collection go on around it, unless a commit
\* falls into it: for any numbers of compactors, readers, ids and versions.
THEOREM HybridReadsFind ==
    Spec => [](\A r \in Readers :
                  reader[r].pc = "done" /\ ~overlapped /\ Len(commits) = reader[r].since =>
                      \A k \in Ids : reader[r].owed[k] >= 1 => reader[r].out[k] >= 1)
<1>1. HInv => \A r \in Readers :
                 reader[r].pc = "done" /\ ~overlapped /\ Len(commits) = reader[r].since =>
                     \A k \in Ids : reader[r].owed[k] >= 1 => reader[r].out[k] >= 1
  BY DEF HInv, ReadKnows
<1> QED
  BY <1>1, ReadInv, PTL

\* If no id is used twice, it returns every record appended before it began,
\* unless a commit falls into it (P12).
THEOREM HybridReadsComplete ==
    ASSUME IdsNotReused
    PROVE  Spec => []HybridReadComplete
<1>1. ASSUME HInv, Types PROVE HybridReadComplete
  <2>1. ASSUME NEW r \in Readers, NEW k \in Ids, reader[r].pc = "done", ~overlapped,
               Len(commits) = reader[r].since
        PROVE  reader[r].out[k] >= reader[r].owed[k]
    <3>1. reader[r].owed[k] >= 1 => reader[r].out[k] >= 1
      BY <1>1, <2>1 DEF HInv, ReadKnows
    <3>2. /\ reader[r].owed[k] \in Int /\ reader[r].owed[k] <= 1
          /\ reader[r].out[k] \in Int /\ reader[r].out[k] >= 0
      BY <1>1, ReaderInts, IndexAssumption DEF IdsNotReused
    <3> QED
      BY <3>1, <3>2
  <2> QED
    BY <2>1 DEF HybridReadComplete
<1>2. HInv /\ Types => HybridReadComplete
  BY <1>1
<1> QED
  BY <1>2, ReadInv, PTL

-------------------------------------------------------------------------------
(* What log and index promise together *)

\* A step that changes neither log nor appends, and leaves the index as it is or
\* lets it grow, commits.
LEMMA PromiseCommit ==
    ASSUME Types, IndexTypes', UNCHANGED logVars, UNCHANGED overlapped,
           \A k \in Ids : Committed'[k] >= Committed[k]
    PROVE  Promise!Next
<1>1. Logged' = Logged /\ Accepted' = Accepted
  BY DEF Logged, Accepted, logVars
<1>2. \A k \in Ids : Committed[k] \in Nat /\ Committed'[k] \in Int
  BY CommittedTyped, CommittedFacts DEF CommittedOfInts, Types
<1>3. Indexed' = Indexed \cup Indexed' /\ Indexed' \in SUBSET Ids
  BY <1>2 DEF Indexed
<1>4. Promise!Commit(Indexed')
  BY <1>1, <1>3 DEF Promise!Commit
<1> QED
  BY <1>3, <1>4 DEF Promise!Next

\* The deletion of a source takes an id out of the log that the index has.
LEMMA PromiseClean ==
    ASSUME Types, NEW c \in Compactors, Holds(c), Knows(c), NotDangling, DeleteSource(c),
           UNCHANGED overlapped
    PROVE  Promise!Next \/ UNCHANGED <<Logged, Accepted, Indexed, overlapped>>
<1>1. job[c].pc = "delete" /\ appended' = appended
  BY DeleteSourceStep DEF Types
<1>2. PICK p \in job[c].todo : p \in Sources /\ log' = [log EXCEPT ![p] = 0]
  BY DeleteSourceStep DEF Types
<1>3. Committed' = Committed /\ Committed[p[1]] >= 1 /\ p[1] \in Ids
  BY <1>1, <1>2, SourceDeleted DEF Holds, Sources
<1>4. Accepted' = Accepted /\ Indexed' = Indexed /\ p[1] \in Indexed
  <2>1. Committed[p[1]] \in Int
    BY <1>3, TookFacts
  <2> QED
    BY <1>1, <1>3, <2>1 DEF Accepted, Indexed
<1>5. log \in [Sources -> Versions] /\ \A k \in Ids : File(k) \in Sources
  BY SourceFacts DEF Types, LogTypes
<1>6. CASE \E k \in Ids : p = File(k)
  <2>1. p = File(p[1])
    BY <1>6, SourceFacts
  <2>2. \A k \in Ids : log'[File(k)] = IF k = p[1] THEN 0 ELSE log[File(k)]
    BY <1>2, <1>3, <1>5, <2>1, SourceFacts
  <2>3. Logged' = Logged \ {p[1]}
    BY <2>2 DEF Logged
  <2>4. Promise!Clean(p[1])
    BY <1>4, <2>3 DEF Promise!Clean
  <2> QED
    BY <1>3, <2>4 DEF Promise!Next
<1>7. CASE \A k \in Ids : p # File(k)
  <2>1. \A k \in Ids : log'[File(k)] = log[File(k)]
    BY <1>2, <1>5, <1>7
  <2>2. Logged' = Logged
    BY <2>1 DEF Logged
  <2> QED
    BY <1>4, <2>2
<1> QED
  BY <1>6, <1>7

\* An append that returns has put the record into the log.
LEMMA PromiseAccept ==
    ASSUME Types, NEW k \in Ids, AppendStep(k)
    PROVE  Promise!Next \/ UNCHANGED <<Logged, Accepted, Indexed, overlapped>>
<1>1. UNCHANGED <<indexVars, overlapped>>
  BY AppendMoves
<1>2. Indexed' = Indexed
  BY <1>1, CommittedSame DEF Types, indexVars, Indexed
<1>3. /\ \A j \in Ids : \/ log'[File(j)] = log[File(j)] /\ appended'[j] = appended[j]
                        \/ log'[File(j)] = appended'[j] /\ appended'[j] = appended[j] + 1
      /\ \A j \in Ids \ {k} : appended'[j] = appended[j]
      /\ \A j \in Ids : appended[j] \in Nat
  BY AppendFacts, AppendsOne, IndexAssumption DEF Types, LogTypes, Content, Versions
<1>4. \A j \in Ids \ {k} : log'[File(j)] = log[File(j)] /\ appended'[j] = appended[j]
  BY <1>3
<1>5. CASE log'[File(k)] = log[File(k)] /\ appended'[k] = appended[k]
  <2>1. Logged' = Logged /\ Accepted' = Accepted
    BY <1>4, <1>5 DEF Logged, Accepted
  <2> QED
    BY <1>1, <1>2, <2>1
<1>6. CASE log'[File(k)] = appended'[k] /\ appended'[k] = appended[k] + 1
  <2>1. log'[File(k)] # 0 /\ appended'[k] # 0
    BY <1>3, <1>6
  <2>2. Logged' = Logged \cup {k} /\ Accepted' = Accepted \cup {k}
    BY <1>4, <2>1 DEF Logged, Accepted
  <2>3. Promise!Accept(k)
    BY <1>1, <1>2, <2>2 DEF Promise!Accept
  <2> QED
    BY <2>3 DEF Promise!Next
<1> QED
  BY <1>3, <1>5, <1>6

\* Of the steps of a job only the deletion of a source touches the log.
LEMMA LogOfJob ==
    ASSUME JobTypes, IndexTypes, NEW c \in Compactors, JobStep(c), ~DeleteSource(c)
    PROVE  UNCHANGED logVars
<1>1. CASE \/ ReadMeta(c) \/ ReadWatermark(c) \/ ListSources(c) \/ ReadSource(c)
           \/ SourcesRead(c) \/ ReadBase(c) \/ ReadCheckpoint(c)
  <2>1. UNCHANGED <<logVars, indexVars>>
    BY <1>1 DEF ReadMeta, ReadWatermark, ListSources, ReadSource, SourcesRead, ReadBase,
       ReadCheckpoint
  <2> QED
    BY <2>1
<1>2. CASE \/ SwapCurrent(c) \/ RenameCurrent(c) \/ CreateCurrent(c)
           \/ CheckCurrent(c) \/ FetchCurrentETag(c)
  BY <1>2, CheckStep, CommitStep DEF GoesOn, PutsCurrent
<1>3. CASE \/ WriteCheckpoint(c) \/ WriteCurrent(c) \/ WriteCurrentFails(c)
           \/ AbandonCheckpoint(c) \/ ListCheckpoints(c) \/ DeleteCheckpoint(c)
           \/ CycleDone(c)
  BY <1>3 DEF WriteCheckpoint, WriteCurrent, WriteCurrentFails, AbandonCheckpoint,
     ListCheckpoints, DeleteCheckpoint, CycleDone
<1> QED
  BY <1>1, <1>2, <1>3 DEF JobStep

\* A step of a compactor that is alone
LEMMA PromiseJob ==
    ASSUME Types, IndexTypes', NEW c \in Compactors, Knows(c), Holds(c), NotDangling, JobStep(c),
           UNCHANGED overlapped
    PROVE  Promise!Next \/ UNCHANGED <<Logged, Accepted, Indexed, overlapped>>
<1>1. CASE DeleteSource(c)
  BY <1>1, PromiseClean
<1>2. CASE ~DeleteSource(c)
  <2>1. UNCHANGED logVars
    BY <1>2, LogOfJob DEF Types
  <2>2. \A k \in Ids : Committed'[k] >= Committed[k]
    BY KnowsNext
  <2> QED
    BY <2>1, <2>2, PromiseCommit
<1> QED
  BY <1>1, <1>2

LEMMA PromiseStep ==
    ASSUME Types, IndexTypes', LInv, KInv, RInv, [Next]_vars
    PROVE  [Promise!Next]_<<Logged, Accepted, Indexed, overlapped>>
<1>1. CASE overlapped' = TRUE
  BY <1>1 DEF Promise!Next, Promise!Break
<1>2. CASE ~overlapped' /\ \E c \in Compactors : JobStep(c)
  <2>1. PICK c \in Compactors : JobStep(c)
    BY <1>2
  <2>2. ~overlapped
    BY <1>2, <2>1, Alone DEF LInv
  <2>3. overlapped' = overlapped
    <3>1. CASE ReadMeta(c)
      BY <1>2, <2>2, <3>1 DEF ReadMeta, Types
    <3>2. CASE ~ReadMeta(c)
      BY <2>1, <3>2, OtherVars DEF JobStep, Cycle
    <3> QED
      BY <3>1, <3>2
  <2> QED
    BY <2>1, <2>2, <2>3, PromiseJob DEF KInv, RInv
<1>3. CASE ~\E c \in Compactors : JobStep(c)
  <2>1. UNCHANGED <<indexVars, overlapped>>
    BY <1>3, IndexSteps
  <2>2. Committed' = Committed
    BY <2>1, CommittedSame DEF Types, indexVars
  <2>3. CASE UNCHANGED logVars
    BY <2>1, <2>2, <2>3 DEF Logged, Accepted, Indexed, logVars
  <2> QED
    BY <1>3, <2>3, LogSteps, PromiseAccept
<1>4. overlapped' \in BOOLEAN
  <2>1. Types'
    BY NextTypes
  <2> QED
    BY <2>1 DEF Types
<1> QED
  BY <1>1, <1>2, <1>3, <1>4

\* Until two compactors have run at once, append and compaction keep together
\* what AbstractIndex promises: an accepted record leaves the log only once the
\* committed index has its id, and that forgets none. This is so for any numbers
\* of compactors, readers, ids and versions of an id, in both modes and on both
\* backends, through crashes and lapses of the lock (P11, C8, C9).
THEOREM IndexPromise == Spec => ImplementsPromise
<1>1. Init => Promise!Init
  <2> SUFFICES ASSUME Init PROVE Promise!Init
    OBVIOUS
  <2>1. Committed = Nothing
    BY DEF Init, Absent, Committed
  <2>2. \A k \in Ids : log[File(k)] = 0 /\ appended[k] = 0 /\ Committed[k] = 0
    BY <2>1, SourceFacts DEF Init, Nothing
  <2> QED
    BY <2>2 DEF Init, Promise!Init, Logged, Accepted, Indexed
<1>2. Types /\ Types' /\ LInv /\ KInv /\ RInv /\ [Next]_vars
        => [Promise!Next]_<<Logged, Accepted, Indexed, overlapped>>
  BY PromiseStep DEF Types
<1> QED
  BY <1>1, <1>2, RecordInv, PTL DEF Spec, ImplementsPromise, Promise!Spec
===============================================================================
