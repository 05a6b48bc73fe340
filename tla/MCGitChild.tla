----------------------------- MODULE MCGitChild -----------------------------
(* Small instances of GitChild for TLC. *)
EXTENDS GitChild, TLC
=============================================================================
