---------------------------- MODULE MCStateRoot ----------------------------
(* Small instances of StateRoot for TLC. *)
EXTENDS StateRoot, TLC

Symmetry == Permutations(Procs) \cup Permutations(Nodes)
=============================================================================
