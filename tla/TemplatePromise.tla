-------------------------- MODULE TemplatePromise ---------------------------
(***************************************************************************)
(* What create and gc promise of templates, told without records, names,   *)
(* leases or temporaries.                                                  *)
(*                                                                         *)
(* The commands take turns.  A template is made, offered to sessions, then *)
(* going, and gone; it never goes back, though whoever works on it may     *)
(* stop anywhere and leave the rest to another.  It is offered once its    *)
(* tree is sealed, and from then until it is going nothing touches the     *)
(* tree.  A create leaves a session only of a template that is offered,    *)
(* and one that reports success leaves a session or has found it; a        *)
(* template is given up only when no session names it, and a gc that       *)
(* reports success leaves what sessions needed when it looked, and no      *)
(* more.  gc does nothing while a template is half made.  Sessions go at   *)
(* any time.                                                               *)
(***************************************************************************)
CONSTANTS Procs, Keys, Dirs, Sessions, NoKey, NoDir

VARIABLES
  stage,    \* [Keys -> {"none", "making", "offered", "going"}]
  tree,     \* [Keys -> Dirs \cup {NoDir}]: the directory that is a template's tree
  shape,    \* [Dirs -> {"none", "open", "sealed"}]
  session,  \* [Sessions -> ...]: the template a session was cloned from
  turn,     \* SUBSET Procs: who works on templates
  job,      \* [Procs -> {"none", "create", "gc"}]
  want,     \* [Procs -> Keys \cup {NoKey}]: the template a create needs
  needed,   \* [Procs -> SUBSET Keys]: what sessions needed when a gc looked
  answer    \* [Procs -> {"none", "ok", "failed"}]

vars      == <<stage, tree, shape, session, turn, job, want, needed, answer>>
templates == <<stage, tree, shape>>
callVars  == <<turn, job, want, needed, answer>>

NoSession  == [key |-> NoKey, dir |-> NoDir]
Needs(k)   == \E s \in Sessions : session[s].key = k
Becomes(k, s) == stage' = [stage EXCEPT ![k] = s]

Init ==
  /\ stage = [k \in Keys |-> "none"] /\ tree = [k \in Keys |-> NoDir]
  /\ shape = [d \in Dirs |-> "none"] /\ session = [s \in Sessions |-> NoSession]
  /\ turn = {} /\ job = [p \in Procs |-> "none"] /\ want = [p \in Procs |-> NoKey]
  /\ needed = [p \in Procs |-> {}] /\ answer = [p \in Procs |-> "none"]

Call(p, o, k) ==
  /\ job[p] = "none"
  /\ job' = [job EXCEPT ![p] = o]
  /\ want' = [want EXCEPT ![p] = IF o = "create" THEN k ELSE NoKey]
  /\ needed' = [needed EXCEPT ![p] = {}] /\ answer' = [answer EXCEPT ![p] = "none"]
  /\ UNCHANGED <<templates, session, turn>>

Enter(p) ==
  /\ job[p] # "none" /\ turn = {}
  /\ turn' = {p}
  /\ UNCHANGED <<templates, session, job, want, needed, answer>>

Works(p, o) == p \in turn /\ job[p] = o /\ UNCHANGED <<session, callVars>>

(***************************************************************************)
(* create                                                                  *)
(***************************************************************************)
Begin(p) ==
  /\ Works(p, "create") /\ stage[want[p]] = "none"
  /\ Becomes(want[p], "making")
  /\ UNCHANGED <<tree, shape>>

Root(p, d) ==
  /\ Works(p, "create") /\ stage[want[p]] = "making"
  /\ tree[want[p]] = NoDir /\ shape[d] = "none"
  /\ tree' = [tree EXCEPT ![want[p]] = d] /\ shape' = [shape EXCEPT ![d] = "open"]
  /\ UNCHANGED stage

Shaped(p) ==
  /\ p \in turn /\ job[p] = "create"
  /\ stage[want[p]] = "making" /\ tree[want[p]] # NoDir
  /\ \E s \in {"open", "sealed"} : shape' = [shape EXCEPT ![tree[want[p]]] = s]
  /\ UNCHANGED <<stage, tree>>

Build(p) == Works(p, "create") /\ Shaped(p)

Offer(p) ==
  /\ Works(p, "create") /\ stage[want[p]] = "making"
  /\ tree[want[p]] # NoDir /\ shape[tree[want[p]]] = "sealed"
  /\ Becomes(want[p], "offered")
  /\ UNCHANGED <<tree, shape>>

(***************************************************************************)
(* gc                                                                      *)
(***************************************************************************)
\* gc does nothing while a template is half made.
NoneHalfMade == \A k \in Keys : stage[k] # "making"

Look(p) ==
  /\ p \in turn /\ job[p] = "gc" /\ NoneHalfMade
  /\ needed' = [needed EXCEPT ![p] = {k \in Keys : Needs(k)}]
  /\ UNCHANGED <<templates, session, turn, job, want, answer>>

GiveUp(p, k) ==
  /\ Works(p, "gc") /\ NoneHalfMade /\ stage[k] = "offered" /\ ~Needs(k)
  /\ Becomes(k, "going")
  /\ UNCHANGED <<tree, shape>>

Clear(p, k) ==
  /\ Works(p, "gc") /\ NoneHalfMade /\ stage[k] = "going" /\ tree[k] # NoDir
  /\ \/ shape' = [shape EXCEPT ![tree[k]] = "open"] /\ UNCHANGED tree
     \/ shape' = [shape EXCEPT ![tree[k]] = "none"] /\ tree' = [tree EXCEPT ![k] = NoDir]
  /\ UNCHANGED stage

Reclaim(p, k) ==
  /\ Works(p, "gc") /\ NoneHalfMade /\ stage[k] = "going" /\ tree[k] = NoDir
  /\ Becomes(k, "none")
  /\ UNCHANGED <<tree, shape>>

(***************************************************************************)
(* How a call ends.                                                        *)
(***************************************************************************)
Return(p, how) ==
  /\ job[p] # "none"
  /\ job' = [job EXCEPT ![p] = "none"] /\ want' = [want EXCEPT ![p] = NoKey]
  /\ turn' = turn \ {p} /\ answer' = [answer EXCEPT ![p] = how]
  /\ UNCHANGED needed

\* A session is made of a template that is offered, by whoever works on templates.
Of(k) == [key |-> k, dir |-> tree[k]]
HasOffered(p) ==
  /\ p \in turn /\ job[p] = "create"
  /\ stage[want[p]] = "offered" /\ tree[want[p]] # NoDir /\ shape[tree[want[p]]] = "sealed"
NewSession(k) ==
  \E s \in Sessions : session[s] = NoSession /\ session' = [session EXCEPT ![s] = Of(k)]

\* The session is new, or it was made before.
Created(p) ==
  /\ HasOffered(p) /\ Return(p, "ok") /\ UNCHANGED templates
  /\ \/ NewSession(want[p])
     \/ (\E s \in Sessions : session[s] = Of(want[p])) /\ UNCHANGED session

Collected(p) ==
  /\ p \in turn /\ job[p] = "gc"
  /\ \A k \in Keys : stage[k] = "none" \/ (stage[k] = "offered" /\ k \in needed[p])
  /\ Return(p, "ok") /\ UNCHANGED <<templates, session>>

\* A create that fails may close the tree it was making, or leave the session it was making.
Failed(p) ==
  /\ Return(p, "failed")
  /\ \/ UNCHANGED session /\ (Shaped(p) \/ UNCHANGED templates)
     \/ HasOffered(p) /\ NewSession(want[p]) /\ UNCHANGED templates

Forget(s) ==
  /\ session' = [session EXCEPT ![s] = NoSession]
  /\ UNCHANGED <<templates, callVars>>

Next ==
  \/ \E p \in Procs :
       \/ \E o \in {"create", "gc"}, k \in Keys : Call(p, o, k)
       \/ Enter(p)
       \/ Begin(p) \/ (\E d \in Dirs : Root(p, d)) \/ Build(p) \/ Offer(p)
       \/ Look(p) \/ \E k \in Keys : GiveUp(p, k) \/ Clear(p, k) \/ Reclaim(p, k)
       \/ Created(p) \/ Collected(p) \/ Failed(p)
  \/ \E s \in Sessions : Forget(s)

Spec == Init /\ [][Next]_vars
=============================================================================
