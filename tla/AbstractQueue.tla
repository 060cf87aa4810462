---------------------------- MODULE AbstractQueue ----------------------------
(***************************************************************************)
(* What a queue station promises (P6, C5): at-least-once delivery.  An item *)
(* placed stays available until an outcome of it is recorded, outcomes are  *)
(* never taken back, and a completed item has had its output written.       *)
(* Nothing is said of who works on an item or how often.                    *)
(***************************************************************************)
CONSTANT Items

VARIABLES
    available,   \* items that wait in the queue
    settled,     \* pairs <<item, "completed" or "failed">> recorded
    output       \* items whose result has reached the sink

Init ==
    /\ available = {}
    /\ settled = {}
    /\ output = {}

HasOutcome(i) == \E o \in {"completed", "failed"} : <<i, o>> \in settled

\* also of an item that has an outcome: it is then delivered once more, or not
Place(i) ==
    /\ available' = available \cup {i}
    /\ UNCHANGED <<settled, output>>

\* a worker may write an output more than once, and late
Deliver(i) ==
    /\ i \in available \/ HasOutcome(i)
    /\ output' = output \cup {i}
    /\ UNCHANGED <<available, settled>>

Settle(i, o) ==
    /\ i \in available \/ HasOutcome(i)
    /\ o = "completed" => i \in output
    /\ settled' = settled \cup {<<i, o>>}
    /\ UNCHANGED <<available, output>>

\* mutant: the pending file goes as soon as the output is written
RemoveFirst(i) ==
    /\ i \in output
    /\ available' = available \ {i}
    /\ UNCHANGED <<settled, output>>

\* P6: the outcome first, then the removal
Remove(i) ==
    /\ HasOutcome(i)
    /\ available' = available \ {i}
    /\ UNCHANGED <<settled, output>>

Next ==
    \E i \in Items :
        \/ Place(i) \/ Deliver(i) \/ Remove(i)
        \/ \E o \in {"completed", "failed"} : Settle(i, o)

Spec == Init /\ [][Next]_<<available, settled, output>>
==============================================================================
