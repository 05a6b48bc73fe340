------------------------------ MODULE MCRecord ------------------------------
(* Small instances of RecordTxn for TLC. *)
EXTENDS RecordTxn, TLC

Symmetry == Permutations(Txns)
=============================================================================
