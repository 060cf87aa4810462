----------------------------- MODULE MCLeaseClaim -----------------------------
(* LeaseClaim for TLC: the worker symmetry of its safety runs. *)
EXTENDS LeaseClaim, TLC

WorkerSymmetry == Permutations(Workers)
===============================================================================
