-------------------------------- MODULE Fold --------------------------------
(***************************************************************************)
(* last_write_wins_fold (compactor.py), the fold that hybrid reads and     *)
(* every compaction apply to records, run as the compactor runs it: over   *)
(* the records of the committed generation first and then over whatever    *)
(* sources it enumerates, cycle after cycle, any of which may be cut short.*)
(*                                                                         *)
(* A record has the two identity fields id and email, for the five the     *)
(* code looks for in order, a version, for the four stamps, and a body: the *)
(* place of its JSON text among those of the records with the same key and *)
(* stamp.  Stamps are compared as the texts str() makes of them, sequences *)
(* of digits here.                                                         *)
(***************************************************************************)
EXTENDS Integers, Sequences

CONSTANTS Records,    \* the records ever appended
          Missing,    \* a field the record does not have
          Null,       \* a field that is there and None
          NoRecord    \* no record under a key

VARIABLES
    best,      \* best[k]: the record kept under key k in the running fold
    merged,    \* merged[k]: the record of key k in the committed generation
    running,   \* whether a fold is running
    input,     \* ghost: the records the running fold has seen, by way of the base or not
    folded     \* ghost: the records the committed generation comes from

foldVars == <<best, merged, running, input, folded>>

\* _key: the first field the record has, even if it is None
Key(r) == IF r.id # Missing THEN r.id ELSE r.email

Keys == {Key(r) : r \in Records}

\* str() of a number below 100
Digits(n) == IF n < 10 THEN <<n>> ELSE <<n \div 10, n % 10>>

\* _ver: the empty text if there is no stamp, or if it is None
Stamp(r) == IF r.version \in {Missing, Null} THEN <<>> ELSE Digits(r.version)

\* s <= t, as python compares texts
TextLeq(s, t) ==
    \/ \E n \in DOMAIN s \cap DOMAIN t :
          /\ s[n] < t[n]
          /\ \A m \in 1..(n - 1) : s[m] = t[m]
    \/ /\ Len(s) <= Len(t)
       /\ \A n \in DOMAIN s : s[n] = t[n]

\* mutant: of two records with one stamp the later one read is kept
SupersedesAtTie(r, b) == TextLeq(Stamp(b), Stamp(r))

\* mutant: the first record read is kept unless a later one has a stamp and it none
SupersedesUnstamped(r, b) == Stamp(b) = <<>>

\* r replaces b in the dictionary: a stamp that is no less, and at a tie a
\* JSON text that is no less
Supersedes(r, b) ==
    /\ TextLeq(Stamp(b), Stamp(r))
    /\ Stamp(r) = Stamp(b) => r.body >= b.body

\* Stamps have the widths that Digits writes, and different records of one key
\* and stamp have different places.
ASSUME RecordAssumption ==
    /\ \A r \in Records : r.version \in {Missing, Null} \cup (0..99) /\ r.body \in Int
    /\ \A r, q \in Records :
          Key(r) = Key(q) /\ Stamp(r) = Stamp(q) /\ r.body = q.body => r = q
    /\ NoRecord \notin Records

NoneKept == [k \in Keys |-> NoRecord]

FoldTyped ==
    /\ best \in [Keys -> Records \cup {NoRecord}]
    /\ merged \in [Keys -> Records \cup {NoRecord}]
    /\ running \in BOOLEAN
    /\ folded \subseteq input \/ ~running
    /\ \A k \in Keys :
          /\ best[k] # NoRecord => Key(best[k]) = k
          /\ merged[k] # NoRecord => Key(merged[k]) = k

FoldInit ==
    /\ best = NoneKept
    /\ merged = NoneKept
    /\ running = FALSE
    /\ input = {}
    /\ folded = {}

-------------------------------------------------------------------------------

\* mutant: the committed generation is not read
BeginAfresh ==
    /\ ~running
    /\ running' = TRUE
    /\ best' = NoneKept
    /\ input' = {}
    /\ UNCHANGED <<merged, folded>>

\* the loop over the base, which has one record per key
Begin ==
    /\ ~running
    /\ running' = TRUE
    /\ best' = merged
    /\ input' = folded
    /\ UNCHANGED <<merged, folded>>

\* the body of the loop, for one source record, perhaps for the second time
Take(r) ==
    /\ running
    /\ input' = input \cup {r}
    /\ best' = IF best[Key(r)] = NoRecord \/ Supersedes(r, best[Key(r)])
               THEN [best EXCEPT ![Key(r)] = r]
               ELSE best
    /\ UNCHANGED <<merged, running, folded>>

Stop ==
    /\ running' = FALSE
    /\ best' = NoneKept
    /\ input' = {}

\* the result is written out and committed; a record is read back as it was
Commit ==
    /\ running
    /\ merged' = best
    /\ folded' = input
    /\ Stop

\* the cycle crashes, or its commit is lost
CutShort ==
    /\ running
    /\ Stop
    /\ UNCHANGED <<merged, folded>>

FoldNext == Begin \/ Commit \/ CutShort \/ \E r \in Records : Take(r)

FoldSpec == FoldInit /\ [][FoldNext]_foldVars

-------------------------------------------------------------------------------
(* Properties *)

\* what "the greatest version stamp, ties broken by content" makes of a set of
\* records: the one of each key that no other exceeds
Winner(R, k) ==
    LET rivals == {r \in R : Key(r) = k}
    IN  IF rivals = {} THEN NoRecord
        ELSE CHOOSE r \in rivals : \A q \in rivals :
                \/ Stamp(q) # Stamp(r) /\ TextLeq(Stamp(q), Stamp(r))
                \/ Stamp(q) = Stamp(r) /\ q.body <= r.body

\* The fold depends on the set of records only: in whatever order, batches and
\* cycles they are read, however often, and whichever cycles crash (C7).
FoldIsOfTheSet ==
    \A k \in Keys :
        /\ running => best[k] = Winner(input, k)
        /\ merged[k] = Winner(folded, k)

\* The committed record of a key has the greatest version of all that were
\* folded, as long as the versions of the key have one number of digits, as
\* ISO times have: of 9 and 10 the fold keeps 9.
LatestKept ==
    \A r \in folded :
        LET kin == {q \in folded : Key(q) = Key(r)}
        IN  (\A q \in kin : Stamp(q) # <<>> /\ Len(Stamp(q)) = Len(Stamp(r)))
                => merged[Key(r)].version >= r.version
===============================================================================
