----------------------------- MODULE MCLooseGc -----------------------------
(* Small instances of LooseGc for TLC. *)
EXTENDS LooseGc, TLC

Symmetry == Permutations(Fanouts) \cup Permutations(Objects)
=============================================================================
