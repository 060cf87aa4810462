---------------------------- MODULE MCInspector ----------------------------
(* Inspector for TLC *)
EXTENDS Inspector

\* nothing but the queue; an index beside it, and a sidecar above it; an index
\* with no more than a sidecar, and a sidecar at the root
SampleTrees ==
    {[sidecars |-> {}, current |-> FALSE, inbox |-> FALSE],
     [sidecars |-> {"queues"}, current |-> TRUE, inbox |-> TRUE],
     [sidecars |-> {"root", "index"}, current |-> FALSE, inbox |-> FALSE]}
============================================================================
