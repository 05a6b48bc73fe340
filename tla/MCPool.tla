------------------------------- MODULE MCPool -------------------------------
(* Small instances of MaterializePool for TLC. *)
EXTENDS MaterializePool
=============================================================================
