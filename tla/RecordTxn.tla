------------------------------ MODULE RecordTxn ------------------------------
(***************************************************************************)
(* Transactions on one record: RecordTxn (create and replace), the bound   *)
(* removal of the record, and the sweep of a temporary that a transaction  *)
(* left.  A step is a system call.  create and gc hold the lock on HOME to *)
(* the end; remove and publish, which tombstone and remove records and     *)
(* replace ready ones, release it before they touch the record.            *)
(*                                                                         *)
(* A transaction stands for the inode of its temporary as well.  An inode  *)
(* is written once and before it gets the final name, so that the bytes    *)
(* and the identity of a RecordBinding are both said by the inode.         *)
(***************************************************************************)
EXTENDS Naturals, FiniteSets

CONSTANTS
  Txns,       \* transactions, each with a temporary name of its own
  Origin,     \* the inode of the record that may be there at the beginning
  None,       \* nothing at a name
  Stages,     \* the last stage of a record; stage n directly precedes n + 1
  MaxFaults   \* bound: failed and interrupted calls, kills and power cuts

ASSUME NameAssumption  == Origin \notin Txns /\ None \notin Txns /\ None # Origin
ASSUME BoundAssumption == Stages \in Nat \ {0} /\ MaxFaults \in Nat

VARIABLES
  dir,        \* the directory: what the final name and the temporary names lead to
  past,       \* the directories a power cut may leave: those since the last sync
  whole,      \* SUBSET Inodes: written and synced
  stage,      \* [Inodes -> 1..Stages]: what the bytes say
  op,         \* [Txns -> Ops]
  expected,   \* [Txns -> Inodes \cup {None}]: expected_old, or the binding to remove
  target,     \* [Txns -> Txns]: whose temporary a sweep is about
  pc,         \* [Txns -> Locations]
  result,     \* [Txns -> Results]: how it ended, or will when it has cleaned up
  writer,     \* history: the last transaction that changed what the final name leads to
  faults

vars == <<dir, past, whole, stage, op, expected, target, pc, result, writer, faults>>
callVars == <<stage, op, expected, target>>

Inodes == Txns \cup {Origin}
Links  == Inodes \cup {None}
Ops    == {"create", "replace", "remove", "sweep"}
Directories == [final : Links, tmp : [Txns -> Links]]

\* STATE_RECORD_EXISTS; STATE_CORRUPT, STATE_UNAVAILABLE and STATE_CLEANUP_FAILED;
\* STATE_COMMITTED_RECOVERY_REQUIRED and STATE_COMMITTED_UNSYNCED.
Results == {"none", "ok", "exists", "error", "doubt", "killed"}

CommitSteps == {"begin", "open", "write", "commit", "link", "verify", "compare", "exchange",
                "published", "displaced", "drop", "drop_unlink"}
UndoSteps   == {"rollback", "unswap", "restored", "abort", "abort_unlink", "abort_sync"}
RemoveSteps == {"precedes", "read", "stat", "unlink"}
Running     == CommitSteps \cup UndoSteps \cup RemoveSteps
                 \cup {"sync", "return", "unknown"}
Locations   == Running \cup {"new", "done"}

(***************************************************************************)
(* One transaction.                                                        *)
(***************************************************************************)
Goto(t, to) == pc' = [pc EXCEPT ![t] = to] /\ UNCHANGED result

Finish(t, code) ==
  /\ pc' = [pc EXCEPT ![t] = "done"]
  /\ result' = [result EXCEPT ![t] = code]

Abort(t, primary) ==
  /\ pc' = [pc EXCEPT ![t] = "abort"]
  /\ result' = [result EXCEPT ![t] = primary]

Fault == faults < MaxFaults /\ faults' = faults + 1

\* A change of the directory reaches the disk some time before the next sync.
Change(d) == dir' = d /\ past' = past \cup {d}

Exchanged(t)    == [dir EXCEPT !.final = dir.tmp[t], !.tmp[t] = dir.final]
Exchangeable(t) == dir.final # None /\ dir.tmp[t] # None

StagesAfter(i) == stage[i] + 1 .. Stages

\* What create and gc do to a record: all but the tombstone and its removal.
UnderHome(o, s) == o \in {"create", "sweep"} \/ (o = "replace" /\ s < Stages)
HomeFree == \A u \in Txns : pc[u] \in Running => ~UnderHome(op[u], stage[u])

\* The call begins.  A replacement and a removal hold the binding they have read, a
\* sweep that of somebody's temporary.  A replacement moves on by a stage or more.
Start(t, o) ==
  /\ pc[t] = "new"
  /\ op' = [op EXCEPT ![t] = o]
  /\ \/ /\ o = "create"
        /\ stage' = [stage EXCEPT ![t] = 1]
        /\ Goto(t, "open")
        /\ UNCHANGED <<expected, target>>
     \/ /\ o \in {"replace", "remove"} /\ dir.final # None
        /\ expected' = [expected EXCEPT ![t] = dir.final]
        /\ IF o = "replace" THEN \E s \in StagesAfter(dir.final) : stage' = [stage EXCEPT ![t] = s]
           ELSE UNCHANGED stage
        /\ Goto(t, IF o = "replace" THEN "begin" ELSE "read")
        /\ UNCHANGED target
     \/ /\ o = "sweep"
        /\ \E u \in Txns :
             /\ dir.tmp[u] # None
             /\ target' = [target EXCEPT ![t] = u]
             /\ expected' = [expected EXCEPT ![t] = dir.tmp[u]]
        /\ Goto(t, "precedes")
        /\ UNCHANGED stage
  /\ UnderHome(o, stage'[t]) => HomeFree
  /\ UNCHANGED <<dir, past, whole, writer, faults>>

\* A comparison that changes nothing.
Check(t, at, ok, to, code) ==
  /\ pc[t] = at
  /\ IF ok THEN Goto(t, to) ELSE Finish(t, code)
  /\ UNCHANGED <<dir, past, whole, callVars, writer, faults>>

\* read_bound_expected_old, before anything is made.
Begin(t) == Check(t, "begin", dir.final = expected[t], "open", "error")

\* openat with O_CREAT and O_EXCL.
Open(t) ==
  /\ pc[t] = "open"
  /\ \/ Change([dir EXCEPT !.tmp[t] = t]) /\ Goto(t, "write") /\ UNCHANGED faults
     \/ Fault /\ Finish(t, "error") /\ UNCHANGED <<dir, past>>
  /\ UNCHANGED <<whole, callVars, writer>>

\* Mutant: the temporary is written but not synced.
InitializeUnsynced(t) ==
  /\ pc[t] = "write"
  /\ Goto(t, "commit")
  /\ UNCHANGED <<dir, past, whole, callVars, writer, faults>>

\* initialize: the mode, the bytes, sync_all.
Initialize(t) ==
  /\ pc[t] = "write"
  /\ \/ whole' = whole \cup {t} /\ Goto(t, "commit") /\ UNCHANGED faults
     \/ Fault /\ Abort(t, "error") /\ UNCHANGED whole
  /\ UNCHANGED <<dir, past, callVars, writer>>

\* commit: the temporary name still leads to the temporary.
Commit(t) ==
  /\ pc[t] = "commit"
  /\ IF dir.tmp[t] = t THEN Goto(t, IF op[t] = "create" THEN "link" ELSE "compare")
     ELSE Abort(t, "error")
  /\ UNCHANGED <<dir, past, whole, callVars, writer, faults>>

\* commit_new.  An interrupted rename may or may not have been done.
Link(t) ==
  LET free == dir.final = None /\ dir.tmp[t] # None
      linked == [dir EXCEPT !.final = dir.tmp[t], !.tmp[t] = None]
  IN  /\ pc[t] = "link"
      /\ \/ /\ free /\ Change(linked) /\ writer' = t
            /\ \/ Goto(t, "verify") /\ UNCHANGED faults
               \/ Fault /\ Goto(t, "unknown")
         \/ /\ IF free THEN Fault ELSE UNCHANGED faults
            /\ Abort(t, IF dir.final # None /\ dir.tmp[t] # None THEN "exists" ELSE "error")
            /\ UNCHANGED <<dir, past, writer>>
         \/ /\ free /\ Fault /\ Goto(t, "unknown")
            /\ UNCHANGED <<dir, past, writer>>
      /\ UNCHANGED <<whole, callVars>>

\* commit_exchange reads the record once more ...
Compare(t) ==
  /\ pc[t] = "compare"
  /\ IF dir.final = expected[t] THEN Goto(t, "exchange") ELSE Abort(t, "error")
  /\ UNCHANGED <<dir, past, whole, callVars, writer, faults>>

\* ... and exchanges it with the temporary.
Exchange(t) ==
  /\ pc[t] = "exchange"
  /\ \/ /\ Exchangeable(t) /\ Change(Exchanged(t)) /\ writer' = t
        /\ \/ Goto(t, "published") /\ UNCHANGED faults
           \/ Fault /\ Goto(t, "unknown")
     \/ /\ IF Exchangeable(t) THEN Fault ELSE UNCHANGED faults
        /\ Abort(t, "error")
        /\ UNCHANGED <<dir, past, writer>>
     \/ /\ Exchangeable(t) /\ Fault /\ Goto(t, "unknown")
        /\ UNCHANGED <<dir, past, writer>>
  /\ UNCHANGED <<whole, callVars>>

Unknown(t) == Check(t, "unknown", FALSE, "done", "doubt")

\* Both names are read after the exchange; a read may fail.
Reread(t, at, ok, to) ==
  /\ pc[t] = at
  /\ \/ Goto(t, IF ok THEN to ELSE "rollback") /\ UNCHANGED faults
     \/ ok /\ Fault /\ Goto(t, "rollback")
  /\ UNCHANGED <<dir, past, whole, callVars, writer>>

Published(t) == Reread(t, "published", dir.final = t, "displaced")

\* Mutant: what the exchange displaced is not looked at.
DisplacedUnread(t) == Reread(t, "displaced", TRUE, "drop")

Displaced(t) == Reread(t, "displaced", dir.tmp[t] = expected[t], "drop")

\* unlink_capability: a stat of the name, then the unlink of the name.
UnlinkAt(t, at, present, to, without, code) ==
  /\ pc[t] = at
  /\ IF present THEN Change(without) /\ Goto(t, to)
     ELSE Finish(t, code) /\ UNCHANGED <<dir, past>>
  /\ UNCHANGED <<whole, callVars, faults>>

WithoutTmp(t) == [dir EXCEPT !.tmp[t] = None]

\* The displaced record goes.
Drop(t) ==
  \/ Check(t, "drop", dir.tmp[t] = expected[t], "drop_unlink", "doubt")
  \/ /\ UnlinkAt(t, "drop_unlink", dir.tmp[t] # None, "sync", WithoutTmp(t), "doubt")
     /\ UNCHANGED writer

\* verify_new_binding, before the sync of a new record.
Verify(t) ==
  \/ Check(t, "verify", dir.final = t, "sync", "doubt")
  \/ Check(t, "verify", dir.final = t, "sync", "error")

\* Mutant: success is reported without a sync of the directory.
NoSync(t) == Check(t, "sync", TRUE, "return", "doubt")

\* sync_record_parent.
Sync(t) ==
  /\ pc[t] = "sync"
  /\ \/ past' = {dir} /\ Goto(t, "return") /\ UNCHANGED faults
     \/ Fault /\ Finish(t, "doubt") /\ UNCHANGED past
  /\ UNCHANGED <<dir, whole, callVars, writer>>

\* A commit verifies its binding once more.
Return(t) ==
  \E code \in {"doubt", "error"} :
    IF op[t] \in {"create", "replace"} /\ dir.final # t
      THEN Check(t, "return", FALSE, "done", code)
      ELSE Check(t, "return", FALSE, "done", "ok")

(***************************************************************************)
(* rollback_exchange_if_owned and abort.                                   *)
(***************************************************************************)
\* Mutant: a drifted exchange is tidied up.
RollbackTidies(t) ==
  /\ pc[t] = "rollback"
  /\ IF dir.final = t /\ dir.tmp[t] = expected[t] THEN Goto(t, "unswap") /\ UNCHANGED <<dir, past>>
     ELSE Finish(t, "doubt") /\ Change(WithoutTmp(t))
  /\ UNCHANGED <<whole, callVars, writer, faults>>

\* Only its own two bindings are exchanged back.
Rollback(t) ==
  Check(t, "rollback", dir.final = t /\ dir.tmp[t] = expected[t], "unswap", "doubt")

Unswap(t) ==
  /\ pc[t] = "unswap"
  /\ \/ /\ Exchangeable(t) /\ Change(Exchanged(t)) /\ writer' = t
        /\ Goto(t, "restored")
        /\ UNCHANGED faults
     \/ /\ IF Exchangeable(t) THEN Fault ELSE UNCHANGED faults
        /\ Finish(t, "doubt")
        /\ UNCHANGED <<dir, past, writer>>
  /\ UNCHANGED <<whole, callVars>>

Restored(t) ==
  /\ pc[t] = "restored"
  /\ IF dir.final = expected[t] /\ dir.tmp[t] = t THEN Abort(t, "doubt") ELSE Finish(t, "doubt")
  /\ UNCHANGED <<dir, past, whole, callVars, writer, faults>>

\* cleanup_unpublished_record: its own inode goes from its own name.
Cleanup(t) ==
  \/ Check(t, "abort", dir.tmp[t] = t, "abort_unlink", "error")
  \/ /\ UnlinkAt(t, "abort_unlink", dir.tmp[t] # None, "abort_sync", WithoutTmp(t), "error")
     /\ UNCHANGED writer
  \/ /\ pc[t] = "abort_sync"
     /\ \/ past' = {dir} /\ Finish(t, result[t]) /\ UNCHANGED faults
        \/ Fault /\ Finish(t, "doubt") /\ UNCHANGED past
     /\ UNCHANGED <<dir, whole, callVars, writer>>

(***************************************************************************)
(* remove_record_bound and remove_record_txn_temporary_bound.              *)
(***************************************************************************)
Subject(t) == IF op[t] = "remove" THEN dir.final ELSE dir.tmp[target[t]]
Precedes(i, j) == j # None /\ stage[j] = stage[i] + 1

\* session_predecessor_temporary: the temporary is the direct predecessor of the record.
Predecessor(t) ==
  Check(t, "precedes", expected[t] \in whole /\ Precedes(expected[t], dir.final), "read", "error")

Remove(t) ==
  \/ Check(t, "read", Subject(t) = expected[t], "stat", "error")
  \/ Check(t, "stat", Subject(t) = expected[t], "unlink", "error")
  \/ /\ op[t] = "remove"
     /\ UnlinkAt(t, "unlink", dir.final # None, "sync", [dir EXCEPT !.final = None], "error")
     /\ writer' = IF dir.final # None THEN t ELSE writer
  \/ /\ op[t] = "sweep"
     /\ UnlinkAt(t, "unlink", dir.tmp[target[t]] # None, "sync", WithoutTmp(target[t]), "error")
     /\ UNCHANGED writer

(***************************************************************************)
(* Specification.                                                          *)
(***************************************************************************)
Kill(t) ==
  /\ pc[t] \in Running /\ Fault
  /\ Finish(t, "killed")
  /\ UNCHANGED <<dir, past, whole, callVars, writer>>

\* The machine stops; the directory is what had reached the disk.
PowerCut ==
  /\ Fault
  /\ dir' \in past /\ past' = {dir'}
  /\ pc' = [t \in Txns |-> IF pc[t] \in Running THEN "done" ELSE pc[t]]
  /\ result' = [t \in Txns |-> IF pc[t] \in Running THEN "killed" ELSE result[t]]
  /\ writer' = IF dir'.final = dir.final THEN writer ELSE None
  /\ UNCHANGED <<whole, callVars>>

Over == (\A t \in Txns : pc[t] = "done") /\ UNCHANGED vars

Init ==
  /\ \E i \in {Origin, None} : dir = [final |-> i, tmp |-> [t \in Txns |-> None]]
  /\ past = {dir} /\ whole = {dir.final} \ {None} /\ writer = None
  /\ \E s \in 1..Stages : stage = [i \in Inodes |-> IF i = Origin THEN s ELSE 1]
  /\ op = [t \in Txns |-> "sweep"] /\ expected = [t \in Txns |-> None]
  /\ target = [t \in Txns |-> t]
  /\ pc = [t \in Txns |-> "new"] /\ result = [t \in Txns |-> "none"]
  /\ faults = 0

Step(t) ==
  \/ Begin(t) \/ Open(t) \/ Initialize(t) \/ Commit(t) \/ Link(t) \/ Compare(t) \/ Exchange(t)
  \/ Unknown(t) \/ Published(t) \/ Displaced(t) \/ Drop(t) \/ Verify(t) \/ Sync(t) \/ Return(t)
  \/ Rollback(t) \/ Unswap(t) \/ Restored(t) \/ Cleanup(t) \/ Predecessor(t) \/ Remove(t)

Next ==
  \/ \E t \in Txns : (\E o \in Ops : Start(t, o)) \/ Step(t) \/ Kill(t)
  \/ PowerCut \/ Over

Spec == Init /\ [][Next]_vars

(***************************************************************************)
(* Properties.                                                             *)
(***************************************************************************)
TypeOK ==
  /\ dir \in Directories /\ past \subseteq Directories /\ dir \in past
  /\ whole \subseteq Inodes /\ stage \in [Inodes -> 1..Stages]
  /\ op \in [Txns -> Ops] /\ expected \in [Txns -> Links] /\ target \in [Txns -> Txns]
  /\ pc \in [Txns -> Locations] /\ result \in [Txns -> Results]
  /\ writer \in Txns \cup {None} /\ faults \in 0..MaxFaults

\* Wherever a transaction is killed and whenever the power fails, the final name leads to
\* a complete record or to none (initialize syncs before commit renames).
FinalWhole == \A d \in past : d.final = None \/ d.final \in whole

\* What a successful transaction did survives a power cut unless another one changed the
\* record after it, and no temporary of its own comes back (sync_record_parent).
AckedDurable ==
  \A t \in Txns : pc[t] = "done" /\ result[t] = "ok" /\ op[t] # "sweep" =>
    \A d \in past : /\ op[t] = "replace" => d.tmp[t] = None
                    /\ writer = t => d.final = IF op[t] = "remove" THEN None ELSE t

\* A record that was there, or was acknowledged, stays under some name in whatever
\* directory a power cut may leave, until a transaction that had named it has dropped it
\* or is through, however transactions without a lock displace each other and wherever
\* they are killed.  What is unlinked by name after a look (unlink_capability) is the
\* exception: between a removal's stat and its unlink another record can come under the
\* final name; under a temporary name, if the sweep is about the temporary of a command
\* that does not hold HOME and takes back its exchange just then.
Linked(d, i) == d.final = i \/ \E t \in Txns : d.tmp[t] = i
GivenUp(t)   == pc[t] \in UndoSteps \/ (pc[t] = "done" /\ result[t] # "ok")
Blind(t) ==
  \/ op[t] = "remove"
  \/ op[t] = "sweep" /\ LET u == target[t] IN GivenUp(u) /\ ~UnderHome(op[u], stage[u])
Through(t) ==
  \/ pc[t] \in {"sync", "return"}
  \/ pc[t] = "done" /\ (op[t] \in {"create", "replace"} \/ result[t] # "error")
Excused(i) == \E t \in Txns : Through(t) /\ (expected[t] = i \/ Blind(t))
RecordKept ==
  \A i \in whole :
    i = Origin \/ (result[i] = "ok" /\ op[i] \in {"create", "replace"}) =>
      Excused(i) \/ \A d \in past : Linked(d, i)

(***************************************************************************)
(* Refinement.                                                             *)
(***************************************************************************)
Effect(t) ==
  CASE pc[t] = "new" -> "new"
    [] pc[t] = "done" -> IF result[t] = "ok" THEN "ok" ELSE "failed"
    [] pc[t] = "return" -> "settled"
    [] pc[t] \in {"verify", "sync", "drop", "drop_unlink"} ->
         IF op[t] = "sweep" THEN "pending" ELSE "applied"
    [] pc[t] \in {"published", "displaced"} ->
         IF dir.tmp[t] = expected[t] THEN "applied" ELSE "spoilt"
    [] pc[t] \in {"unknown", "rollback", "unswap", "restored"} -> "spoilt"
    [] pc[t] \in {"abort", "abort_unlink", "abort_sync"} ->
         IF result[t] = "doubt" THEN "spoilt" ELSE "pending"
    [] OTHER -> "pending"

Register == INSTANCE RecordRegister WITH
  reg    <- dir.final,
  recent <- {d.final : d \in past},
  job    <- [t \in Txns |->
               [kind |-> op[t],
                from |-> IF op[t] \in {"replace", "remove"} THEN expected[t] ELSE None]],
  st     <- [t \in Txns |-> Effect(t)]

\* A create or a replacement that reports success was an atomic, durable compare-and-swap
\* of the record, although it compares, renames, compares again and syncs in steps of their
\* own; every other one only ever promised nothing (commit_new, commit_exchange).
Implements == Register!Spec
=============================================================================
