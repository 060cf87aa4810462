------------------------------ MODULE Inspector ------------------------------
(***************************************************************************)
(* The read-only inspector (inspect.py) over a local root while a queue    *)
(* under the root is worked.  The queue is any that keeps the promise of   *)
(* AbstractQueue, its leases are those of LeaseClaim, and the inspector    *)
(* sees the tree as LocalPathBackend.list streams it: a directory at a     *)
(* time, whatever happens between two directories, and then reads the      *)
(* leases it was shown one by one.                                         *)
(*                                                                         *)
(* The tree is that of a campaign: the root holds a group of queues with   *)
(* one queue q in it, and an index.  The files of an item are abstracted   *)
(* to their place, counts to the sets they count.                          *)
(***************************************************************************)
EXTENDS PathBackend, FiniteSets, Sequences

CONSTANTS Items, Workers, NoPath, MaxTags,   \* as in LeaseClaim
          Trees      \* the files that do not change: [sidecars, current, inbox]

VARIABLES
    lease, issued, dead, succ, pc, at, mine, seen,   \* as in LeaseClaim
    available, settled, output,                      \* as in AbstractQueue
    due,       \* pairs <<item, tag>> of leases whose expires_at is now or past
    tree,      \* the tree that is inspected
    state,     \* "idle", "walking" a station, or "reported" its snapshot
    todo,      \* the set of the stations not yet inspected
    station,   \* the station that is
    walk,      \* directories listed and not read, those of the deepest level first
    unread,    \* leases listed and not yet read
    names,     \* names of buckets and of CURRENT files seen in the station
    listed,    \* pairs <<item, directory>> counted
    judged,    \* pairs <<item, verdict>> of the leases read
    snapshot,  \* pairs <<station, role>> of the stations reported
    start      \* ghost: what there was when the inspection began

Claim == INSTANCE LeaseClaim WITH Paths <- Items
Queue == INSTANCE AbstractQueue

claimVars == <<lease, issued, dead, succ, pc, at, mine, seen>>
queueVars == <<available, settled, output>>
scanVars  == <<state, todo, station, walk, unread, names, listed, judged, snapshot>>
vars == <<claimVars, queueVars, due, tree, scanVars, start>>

QueueBuckets == {"pending", "completed", "failed"}
IndexMarkers == {"inbox", "CURRENT"}
Dirs == {"root", "queues", "q", "index", "inbox"} \cup QueueBuckets

ASSUME ItemAssumption == NoPath \notin Items
ASSUME TagsAssumption == MaxTags \in Nat
ASSUME TreeAssumption ==
    \A t \in Trees : t.sidecars \subseteq Dirs /\ t.current \in BOOLEAN /\ t.inbox \in BOOLEAN

-------------------------------------------------------------------------------
(* The tree.  A bucket comes to be with its first file, and stays. *)

Buckets ==
    (IF available = {} /\ settled = {} THEN {} ELSE {"pending"}) \cup {s[2] : s \in settled}

Subdirs(d) ==
    CASE d = "root"   -> {"queues", "index"}
      [] d = "queues" -> {"q"}
      [] d = "q"      -> Buckets
      [] d = "index"  -> IF tree.inbox THEN {"inbox"} ELSE {}
      [] OTHER        -> {}

Current(d) == IF d = "index" /\ tree.current THEN {"CURRENT"} ELSE {}

ItemsIn(d) ==
    IF d = "pending" THEN available ELSE {s[1] : s \in {s \in settled : s[2] = d}}

LeasesIn(d) == IF d = "pending" THEN {i \in Items : Exists(lease[i])} ELSE {}

-------------------------------------------------------------------------------
(* The inspection *)

\* what discover_station_dirs notes of a directory
Marks(d) ==
    (Subdirs(d) \cap (QueueBuckets \cup {"inbox"})) \cup Current(d)
        \cup (IF d \in tree.sidecars THEN {"datapackage"} ELSE {})

\* mutant: the parents of a station are dropped, and what lies beside it
DeepestOnly == IF Marks("q") # {} THEN {"q"} ELSE {"root"}

\* the directories with a mark; the root if there is none
StationDirs ==
    LET found == {d \in {"root", "index", "queues", "q"} : Marks(d) # {}}
    IN  IF found = {} THEN {"root"} ELSE found

\* stations are taken in the order of their depth, then name
First(dirs) ==
    CASE "root" \in dirs -> "root"
      [] "root" \notin dirs /\ "index" \in dirs -> "index"
      [] dirs \cap {"root", "index"} = {} /\ "queues" \in dirs -> "queues"
      [] OTHER -> "q"

Idle ==
    /\ state' = "idle" /\ station' = "root" /\ todo' = {} /\ walk' = <<>>
    /\ unread' = {} /\ names' = {} /\ listed' = {} /\ judged' = {} /\ snapshot' = {}
    /\ start' = [items |-> {}, leases |-> {}, blind |-> {}]

\* inspect_station begins on an empty snapshot
Enter(d) ==
    /\ state' = "walking"
    /\ station' = d
    /\ walk' = <<{d}>>
    /\ names' = {}
    /\ listed' = {}
    /\ judged' = {}

\* inspect_root: discover_station_dirs lists the whole tree, of which only the
\* buckets of q can change, so that it is one step
Discover ==
    /\ state = "idle"
    /\ todo' = StationDirs \ {First(StationDirs)}
    /\ Enter(First(StationDirs))
    /\ unread' = {} /\ snapshot' = {}
    /\ start' = [items  |-> available \cup {s[1] : s \in settled},
                 leases |-> {<<i, lease[i]>> : i \in {i \in Items : lease[i].st = "full"
                                                        /\ <<i, lease[i].tag>> \notin due}},
                 blind  |-> {}]

\* os.walk reads one directory, in any order among those of one directory, and
\* list yields its subdirectories, then its files
ReadDir(d) ==
    LET deeper == IF Subdirs(d) = {} THEN <<>> ELSE <<Subdirs(d)>>
        beside == IF Head(walk) = {d} THEN <<>> ELSE <<Head(walk) \ {d}>>
    IN  /\ state = "walking" /\ walk # <<>> /\ unread = {}
        /\ d \in Head(walk)
        /\ walk' = deeper \o beside \o Tail(walk)
        /\ names' = names \cup (Subdirs(d) \cap (QueueBuckets \cup {"inbox"})) \cup Current(d)
        /\ listed' = listed \cup (ItemsIn(d) \X {d})
        /\ unread' = LeasesIn(d)
        /\ start' = IF d = "pending"
                    THEN [start EXCEPT !.blind = QueueBuckets \ Head(walk)] ELSE start
        /\ UNCHANGED <<state, todo, station, judged, snapshot>>

\* mutant: a lease that does not parse counts as expired
ReadLeaseStrictly(i) ==
    /\ i \in unread
    /\ unread' = unread \ {i}
    /\ judged' = judged \cup
        {<<i, IF lease[i].st = "full" /\ <<i, lease[i].tag>> \notin due
              THEN "active" ELSE "expired">>}
    /\ UNCHANGED <<state, todo, station, walk, names, listed, snapshot, start>>

\* _read_lease, some time after the lease was listed: one that is gone by now,
\* or does not parse, has no expiry and counts as active
ReadLease(i) ==
    /\ i \in unread
    /\ unread' = unread \ {i}
    /\ judged' = judged \cup
        {<<i, IF lease[i].st = "full" /\ <<i, lease[i].tag>> \in due
              THEN "expired" ELSE "active">>}
    /\ UNCHANGED <<state, todo, station, walk, names, listed, snapshot, start>>

\* the role in the station's snapshot
Role ==
    CASE names \cap QueueBuckets # {} -> "queue"
      [] names \cap QueueBuckets = {} /\ names \cap IndexMarkers # {} -> "index"
      [] names = {} /\ station \in tree.sidecars -> "wal"
      [] OTHER -> "unknown"

\* mutant: the snapshot does not wait for the leases
ReportAtOnce ==
    /\ state = "walking" /\ walk = <<>>
    /\ state' = "reported"
    /\ snapshot' = snapshot \cup {<<station, Role>>}
    /\ UNCHANGED <<todo, station, walk, unread, names, listed, judged, start>>

Report ==
    /\ state = "walking" /\ walk = <<>> /\ unread = {}
    /\ state' = "reported"
    /\ snapshot' = snapshot \cup {<<station, Role>>}
    /\ UNCHANGED <<todo, station, walk, unread, names, listed, judged, start>>

\* the next station, or the whole snapshot is returned
NextStation ==
    /\ state = "reported"
    /\ \/ /\ todo # {} /\ Enter(First(todo)) /\ todo' = todo \ {First(todo)}
          /\ UNCHANGED <<unread, snapshot, start>>
       \/ todo = {} /\ Idle

-------------------------------------------------------------------------------
(* The queue and its workers *)

InQueue(i) == i \in available \/ \E s \in settled : s[1] = i

QueueStep == Queue!Next /\ UNCHANGED <<claimVars, due>>

\* workers claim what they have seen in the queue
ClaimStep ==
    /\ \/ \E w \in Workers, i \in Items : InQueue(i) /\ Claim!Try(w, i)
       \/ \E w \in Workers : Claim!Step(w) \/ Claim!WriteFails(w) \/ Claim!Renew(w)
                              \/ Claim!FindLease(w) \/ Claim!Abandon(w)
    /\ UNCHANGED <<queueVars, due>>

\* the clock reaches expires_at of the lease on i, and passes it.  A lease that
\* is no longer there lapses unseen.
Reach(i) ==
    /\ lease[i].st = "full" /\ <<i, lease[i].tag>> \notin due
    /\ due' = due \cup {<<i, lease[i].tag>>}
    /\ UNCHANGED <<claimVars, queueVars>>

Pass(i) ==
    /\ <<i, lease[i].tag>> \in due
    /\ Claim!Lapse(i)
    /\ dead' = [dead EXCEPT ![i] = @ \cup {lease[i].tag}]
    /\ UNCHANGED <<queueVars, due>>

-------------------------------------------------------------------------------

InspectorInit ==
    /\ Claim!Init
    /\ Queue!Init
    /\ due = {}
    /\ tree \in Trees
    /\ state = "idle" /\ station = "root" /\ todo = {} /\ walk = <<>>
    /\ unread = {} /\ names = {} /\ listed = {} /\ judged = {} /\ snapshot = {}
    /\ start = [items |-> {}, leases |-> {}, blind |-> {}]

Inspect ==
    /\ \/ Discover \/ Report \/ NextStation
       \/ \E d \in Dirs : ReadDir(d)
       \/ \E i \in Items : ReadLease(i)
    /\ UNCHANGED <<claimVars, queueVars, due, tree>>

InspectorNext ==
    \/ Inspect
    \/ /\ QueueStep \/ ClaimStep \/ \E i \in Items : Reach(i) \/ Pass(i)
       /\ UNCHANGED <<tree, scanVars, start>>

InspectorSpec == InspectorInit /\ [][InspectorNext]_vars

-------------------------------------------------------------------------------
(* Properties *)

TypeOK ==
    /\ Claim!TypeOK
    /\ available \subseteq Items /\ output \subseteq Items
    /\ settled \subseteq Items \X QueueBuckets
    /\ due \subseteq Items \X (1..MaxTags)
    /\ \A i \in Items, t \in 1..MaxTags : t \in dead[i] => <<i, t>> \in due
    /\ state \in {"idle", "walking", "reported"}
    /\ {station} \cup todo \subseteq Dirs
    /\ walk \in Seq(SUBSET Dirs)
    /\ names \subseteq QueueBuckets \cup IndexMarkers
    /\ listed \subseteq Items \X QueueBuckets
    /\ unread \subseteq Items
    /\ state # "walking" => walk = <<>> /\ unread = {}
    /\ judged \subseteq Items \X {"active", "expired"}
    /\ snapshot \subseteq Dirs \X {"queue", "index", "wal", "unknown"}

Over == state = "reported" /\ todo = {}

\* An item that was in the queue when the inspection began is counted in the
\* queue's snapshot, whatever the queue's workers and producers do meanwhile,
\* unless it moved: it has come to rest in a bucket that the walk had passed,
\* or did not know of, when it came to the pending files.
NothingMissed ==
    Over => \A i \in start.items :
        /\ station = "q" /\ Role = "queue"
        /\ \/ \E b \in QueueBuckets : <<i, b>> \in listed
           \/ \E s \in settled : s[1] = i /\ s[2] \in start.blind

\* A lease that was held with time left when the inspection began, and still is
\* when the queue is reported, is reported active; and only a lease whose
\* expires_at had come is ever reported expired.
HeldIsActive ==
    state = "reported" /\ station = "q" => \A i \in Items :
        /\ <<i, lease[i]>> \in start.leases /\ <<i, lease[i].tag>> \notin due
              => <<i, "active">> \in judged
        /\ <<i, "expired">> \in judged => \E t \in 1..MaxTags : <<i, t>> \in due

\* At the end of an inspection the stations with no station under them have been
\* found and reported as what they are: the index as an index if it has a CURRENT
\* or an inbox, else as a bare log if it has a sidecar, and the queue if it had an
\* item when the inspection began.  An index with none of these marks is not
\* found.  The root, unless it has a sidecar of its own, stands for what was not
\* found only when nothing was.
KindsTold ==
    Over =>
        /\ tree.current \/ tree.inbox => <<"index", "index">> \in snapshot
        /\ ~(tree.current \/ tree.inbox) /\ "index" \in tree.sidecars
              => <<"index", "wal">> \in snapshot
        /\ start.items # {} => <<"q", "queue">> \in snapshot
        /\ \A s \in snapshot :
              s[1] = "root" /\ "root" \notin tree.sidecars => snapshot = {s}
===============================================================================
