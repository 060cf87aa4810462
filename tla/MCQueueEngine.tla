---------------------------- MODULE MCQueueEngine ----------------------------
(* QueueEngine for TLC: the worker symmetry of its safety runs. *)
EXTENDS QueueEngine, TLC

WorkerSymmetry == Permutations(Workers)
===============================================================================
