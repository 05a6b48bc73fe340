----------------------------- MODULE MCTemplate -----------------------------
(* Small instances of TemplateLifecycle for TLC. *)
EXTENDS TemplateLifecycle, TLC
=============================================================================
