--------------------------- MODULE PublishTarget ---------------------------
(***************************************************************************)
(* What `git vws publish` promises about the authority's target ref, told  *)
(* without journals, leases or git children.  Each session has at most one *)
(* open transaction, which froze a fast-forward; it lands at most once, and*)
(* only on the very tip it froze.  A transaction that has not landed may be*)
(* given up; only one that has landed is finished, and only then does the  *)
(* session take the tip it froze for its own.  Everybody else moves the ref*)
(* at will.                                                                *)
(***************************************************************************)
CONSTANTS Sessions, Commits, NoCommit, Ancestry

Tips == Commits \cup {NoCommit}

VARIABLES
  target,   \* the ref
  phase,    \* [Sessions -> {"closed", "open", "landed"}]
  frozen,   \* [Sessions -> Swaps]: the swap of the transaction
  expected  \* [Sessions -> Tips]: the authority tip the session last agreed with

vars == <<target, phase, frozen, expected>>

Swaps  == [new : Tips, old : Tips]
NoSwap == [new |-> NoCommit, old |-> NoCommit]

FastForward(swap) ==
  /\ swap.new \in Commits
  /\ swap.old = NoCommit \/ <<swap.old, swap.new>> \in Ancestry

Init ==
  /\ target \in Tips
  /\ phase = [s \in Sessions |-> "closed"]
  /\ frozen = [s \in Sessions |-> NoSwap]
  /\ expected \in [Sessions -> Tips]

Open(s) ==
  /\ phase[s] = "closed"
  /\ phase' = [phase EXCEPT ![s] = "open"]
  /\ \E swap \in Swaps : FastForward(swap) /\ frozen' = [frozen EXCEPT ![s] = swap]
  /\ UNCHANGED <<target, expected>>

Land(s) ==
  /\ phase[s] = "open"
  /\ target = frozen[s].old
  /\ target' = frozen[s].new
  /\ phase' = [phase EXCEPT ![s] = "landed"]
  /\ UNCHANGED <<frozen, expected>>

GiveUp(s) ==
  /\ phase[s] = "open"
  /\ phase' = [phase EXCEPT ![s] = "closed"]
  /\ frozen' = [frozen EXCEPT ![s] = NoSwap]
  /\ UNCHANGED <<target, expected>>

Finish(s) ==
  /\ phase[s] = "landed"
  /\ phase' = [phase EXCEPT ![s] = "closed"]
  /\ expected' = [expected EXCEPT ![s] = frozen[s].new]
  /\ frozen' = [frozen EXCEPT ![s] = NoSwap]
  /\ UNCHANGED target

OtherWriter ==
  /\ target' \in Tips
  /\ UNCHANGED <<phase, frozen, expected>>

Next == OtherWriter \/ \E s \in Sessions : Open(s) \/ Land(s) \/ GiveUp(s) \/ Finish(s)

Spec == Init /\ [][Next]_vars
=============================================================================
