---------------------------- MODULE AbstractIndex ----------------------------
(***************************************************************************)
(* What log and index promise together (P11, P12, C8, C9), as long as no   *)
(* two compactors run at once: a record once accepted is in the log or in  *)
(* the index, it leaves the log only when the index has it, and the index  *)
(* forgets none.  How a generation is written, named by CURRENT and        *)
(* cleaned up is nobody's concern.                                         *)
(***************************************************************************)
CONSTANT Ids

VARIABLES
    logged,      \* ids with a file in the log
    accepted,    \* ids of which an append has returned
    indexed,     \* ids in the committed generation
    void         \* two compactors have run at once: nothing is promised any more

Init ==
    /\ logged = {}
    /\ accepted = {}
    /\ indexed = {}
    /\ void = FALSE

\* append returns with the record in the log
Accept(k) ==
    /\ logged' = logged \cup {k}
    /\ accepted' = accepted \cup {k}
    /\ UNCHANGED <<indexed, void>>

\* a commit adds to the index.  Among what it adds may be a record whose append
\* has not returned yet, or never will.
Commit(S) ==
    /\ indexed' = indexed \cup S
    /\ UNCHANGED <<logged, accepted, void>>

\* the source of an indexed record is deleted
Clean(k) ==
    /\ k \in indexed
    /\ logged' = logged \ {k}
    /\ UNCHANGED <<accepted, indexed, void>>

Break == void' = TRUE

Next ==
    \/ \E k \in Ids : Accept(k) \/ Clean(k)
    \/ \E S \in SUBSET Ids : Commit(S)
    \/ Break

Spec == Init /\ [][Next]_<<logged, accepted, indexed, void>>
==============================================================================
