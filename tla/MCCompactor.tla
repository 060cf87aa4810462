----------------------------- MODULE MCCompactor -----------------------------
(* Compactor for TLC: the symmetries of its safety runs. *)
EXTENDS Compactor, TLC

Symmetry == Permutations(Compactors) \cup Permutations(Ids)
===============================================================================
