--------------------------- MODULE SessionPromise ---------------------------
(***************************************************************************)
(* What the commands on one session name promise their users, told without *)
(* records, locks, names or temporaries: what happens to the trees, on     *)
(* whose behalf, and what an answer is worth.                              *)
(*                                                                         *)
(* There is one tree at a time.  A create makes its own and may take it    *)
(* back until it has been delivered; any other tree goes only after a      *)
(* removal has condemned it, and none goes while a program runs in it.  A  *)
(* create that reports success delivers a whole tree, or one that has been *)
(* condemned since; a removal that does leaves nothing that was ever       *)
(* delivered.  A refused call has done nothing, a busy one has touched no  *)
(* tree, and any other failure promises nothing.                           *)
(***************************************************************************)
CONSTANTS Procs, Roots, NoRoot

VARIABLES
  tree,       \* [Roots -> {"none", "building", "whole", "broken", "gone"}]
  delivered,  \* roots that a create has returned
  condemned,  \* roots that a removal has given up for good
  program,    \* [Procs -> Roots \cup {NoRoot}]: where the program of an exec runs
  job,        \* [Procs -> Commands \cup {"none"}]: what a process has been asked
  own,        \* [Procs -> Roots \cup {NoRoot}]: the root a create has made
  did,        \* [Procs -> {"nothing", "begun", "changed"}]: how far a call has gone
  answer      \* [Procs -> ...]: how the last call ended

vars == <<tree, delivered, condemned, program, job, own, did, answer>>
trees == <<tree, delivered, condemned>>

Commands == {"create", "remove", "force", "exec", "publish", "gc"}

Init ==
  /\ tree = [i \in Roots |-> "none"] /\ delivered = {} /\ condemned = {}
  /\ program = [p \in Procs |-> NoRoot] /\ job = [p \in Procs |-> "none"]
  /\ own = [p \in Procs |-> NoRoot] /\ did = [p \in Procs |-> "nothing"]
  /\ answer = [p \in Procs |-> "none"]

Live(i)    == tree[i] \in {"building", "whole", "broken"}
Unused(i)  == \A p \in Procs : program[p] # i
Did(p, what) == did' = [did EXCEPT ![p] = what]

Call(p, o) ==
  /\ job[p] = "none" /\ program[p] = NoRoot
  /\ job' = [job EXCEPT ![p] = o] /\ answer' = [answer EXCEPT ![p] = "none"]
  /\ UNCHANGED <<trees, program, own, did>>

(***************************************************************************)
(* What a call does.                                                       *)
(***************************************************************************)
Make(p, i) ==
  /\ job[p] = "create" /\ own[p] = NoRoot
  /\ tree[i] = "none" /\ \A j \in Roots : ~Live(j)
  /\ tree' = [tree EXCEPT ![i] = "building"]
  /\ own' = [own EXCEPT ![p] = i] /\ Did(p, "changed")
  /\ UNCHANGED <<delivered, condemned, program, job, answer>>

Complete(p) ==
  /\ job[p] = "create" /\ own[p] # NoRoot /\ tree[own[p]] = "building"
  /\ tree' = [tree EXCEPT ![own[p]] = "whole"]
  /\ UNCHANGED <<delivered, condemned, program, job, own, did, answer>>

\* Whoever removes trees: a create its own, the others what is condemned.
MayBreak(p, i) ==
  \/ job[p] = "create" /\ own[p] = i /\ i \notin delivered
  \/ job[p] \in {"remove", "force", "gc"} /\ i \in condemned

Break(p, i) ==
  /\ MayBreak(p, i) /\ Live(i) /\ Unused(i)
  /\ \E t \in {"broken", "gone"} : tree' = [tree EXCEPT ![i] = t]
  /\ Did(p, "changed")
  /\ UNCHANGED <<delivered, condemned, program, job, own, answer>>

\* Only a forced removal condemns a tree that is not whole.
Condemn(p, i) ==
  /\ job[p] = "force" \/ (job[p] = "remove" /\ tree[i] = "whole")
  /\ tree[i] # "none" /\ Unused(i)
  /\ condemned' = condemned \cup {i} /\ Did(p, "begun")
  /\ UNCHANGED <<tree, delivered, program, job, own, answer>>

Enter(p, i) ==
  /\ job[p] = "exec" /\ program[p] = NoRoot /\ tree[i] = "whole"
  /\ program' = [program EXCEPT ![p] = i] /\ Did(p, "changed")
  /\ UNCHANGED <<trees, job, own, answer>>

\* The program ends, maybe after its exec.
Leave(p) ==
  /\ program[p] # NoRoot
  /\ program' = [program EXCEPT ![p] = NoRoot]
  /\ UNCHANGED <<trees, job, own, did, answer>>

\* A call goes so far that it will not be refused any more.
Proceed(p) ==
  /\ job[p] \in {"remove", "force", "gc", "publish"}
  /\ (did[p] = "nothing" /\ Did(p, "begun")) \/ Did(p, "changed")
  /\ UNCHANGED <<trees, program, job, own, answer>>

(***************************************************************************)
(* How it ends.                                                            *)
(***************************************************************************)
Return(p, how) ==
  /\ job[p] # "none"
  /\ job' = [job EXCEPT ![p] = "none"] /\ own' = [own EXCEPT ![p] = NoRoot]
  /\ Did(p, "nothing") /\ answer' = [answer EXCEPT ![p] = how]
  /\ UNCHANGED <<tree, condemned, program>>

\* A create that finds the session there returns it too.
Created(p, i) ==
  /\ job[p] = "create" /\ own[p] \in {i, NoRoot}
  /\ tree[i] = "whole" \/ (own[p] = i /\ i \in condemned)
  /\ Return(p, "ok") /\ delivered' = delivered \cup {i}

Removed(p) ==
  /\ job[p] \in {"remove", "force"} /\ \A i \in delivered : tree[i] = "gone"
  /\ Return(p, "ok") /\ UNCHANGED delivered

Ran(p) ==
  /\ job[p] = "exec" /\ did[p] = "changed" /\ program[p] = NoRoot
  /\ Return(p, "ok") /\ UNCHANGED delivered

Done(p)    == job[p] \in {"publish", "gc"} /\ Return(p, "ok") /\ UNCHANGED delivered
Refused(p) == did[p] = "nothing" /\ Return(p, "refused") /\ UNCHANGED delivered
Busy(p)    == did[p] # "changed" /\ Return(p, "busy") /\ UNCHANGED delivered
Failed(p)  == Return(p, "failed") /\ UNCHANGED delivered

Next ==
  \E p \in Procs :
    \/ \E o \in Commands : Call(p, o)
    \/ \E i \in Roots :
         Make(p, i) \/ Break(p, i) \/ Condemn(p, i) \/ Enter(p, i) \/ Created(p, i)
    \/ Complete(p) \/ Leave(p) \/ Proceed(p)
    \/ Removed(p) \/ Ran(p) \/ Done(p) \/ Refused(p) \/ Busy(p) \/ Failed(p)

Spec == Init /\ [][Next]_vars
=============================================================================
