---------------------------- MODULE PublishQuiet -----------------------------
(***************************************************************************)
(* Publish, with a history variable that tells which calls were left alone.*)
(* What a call resumes is old: the journal was frozen by another process,  *)
(* and the authority, its objects and the private repository may have      *)
(* changed since.  A call that nobody disturbs has to find that out before *)
(* it raises the fence, for nothing takes the fence down.                  *)
(***************************************************************************)
EXTENDS Publish

VARIABLE quiet  \* [Procs -> BOOLEAN]: p's call has been left alone since it began

quietVars == <<vars, quiet>>

\* No call fails, nobody else writes, no other session's swap goes through.
LeftAlone(p) ==
  /\ UNCHANGED <<faults, env>>
  /\ \A s \in Sessions \ {sess[p]} : landed'[s] <= landed[s]

Began(p) == pc[p] = "idle" /\ pc'[p] = "lease"

Remember == quiet' = [p \in Procs |-> Began(p) \/ (quiet[p] /\ LeftAlone(p))]

QuietInit == Init /\ quiet = [p \in Procs |-> FALSE]
QuietNext == Next /\ Remember
QuietSpec == QuietInit /\ [][QuietNext]_quietVars
FairQuietSpec == QuietSpec /\ Fairness

\* A publish that nothing disturbs from its start to its end does not leave the fence
\* CasAttempted behind, whatever became of the session and the authority before it: killed
\* publishers, a journal frozen long ago, imported objects that were pruned, a ref, a
\* configuration or a private tip that moved (publish_objects_imported looks at all of
\* them again before it writes CasAttempted).
QuietNeverFences ==
  [][\A p \in Procs :
       pc[p] \in Critical /\ pc'[p] = "idle" /\ quiet'[p] =>
         record'[sess[p]].journal # "CasAttempted"]_quietVars
=============================================================================
