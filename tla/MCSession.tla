----------------------------- MODULE MCSession -----------------------------
(* Small instances of SessionLifecycle for TLC. *)
EXTENDS SessionLifecycle, TLC

Symmetry == Permutations(Procs) \cup Permutations(Roots)
=============================================================================
