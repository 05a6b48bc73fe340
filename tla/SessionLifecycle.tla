-------------------------- MODULE SessionLifecycle --------------------------
(***************************************************************************)
(* The life of one session name: create, remove, exec, publish and gc, each*)
(* a process of its own that may run beside the others and may be killed   *)
(* between any two of its steps.                                           *)
(*                                                                         *)
(*   absent -> Prepared -> Materializing -> Ready -> Tombstoned -> absent  *)
(*                                                                         *)
(* Three things on disk move together: the session record, the session     *)
(* root (a directory at its root name or at its tombstone name) and the    *)
(* temporaries of record transactions.  Two kinds of flock order the       *)
(* processes: create and gc hold the one on HOME from start to end; exec   *)
(* shares the one on the root, publish, remove and gc want it exclusively  *)
(* and never wait for it, create does not take it at all.                  *)
(*                                                                         *)
(* fresh[p] stands for the (bytes, inode) identity of the record that p's  *)
(* capability holds: it is TRUE while that record is the one on disk.      *)
(* The publish transaction itself is module Publish; here it only makes    *)
(* the journal busy and idle again.                                        *)
(***************************************************************************)
EXTENDS Naturals, FiniteSets

CONSTANTS
  Procs,      \* processes
  Roots,      \* directory inodes a session root can get
  NoRoot,     \* nothing at a name
  Ops,        \* the commands that are run: a subset of Commands
  MaxCalls,   \* bound: commands started, gc excepted
  MaxFaults   \* bound: kills and failed system calls

Commands == {"create", "remove", "force", "exec", "publish", "gc"}

ASSUME RootAssumption  == NoRoot \notin Roots
ASSUME OpsAssumption   == Ops \subseteq Commands
ASSUME BoundAssumption == MaxCalls \in Nat /\ MaxFaults \in Nat

\* SessionPayload and whether the publish journal is busy.  root is the
\* root_identity receipt: a Prepared record has none yet, only a Ready one publishes.
Record(st, root) == [st |-> st, root |-> root, busy |-> FALSE]
NoRecord == Record("Absent", NoRoot)
Records ==
  {NoRecord, Record("Prepared", NoRoot)}
    \cup [st : {"Materializing", "Ready", "Tombstoned"}, root : Roots, busy : {FALSE}]
    \cup [st : {"Ready"}, root : Roots, busy : {TRUE}]

VARIABLES
  rec,        \* the session record on disk
  root,       \* the inode at the root name
  tomb,       \* the inode at the tombstone name
  content,    \* [Roots -> ...]: what is under an inode
  home,       \* SUBSET Procs: holders of the HOME lock
  ex,         \* [Roots -> SUBSET Procs]: exclusive holders of a root's lease
  sh,         \* [Roots -> SUBSET Procs]: shared holders of a root's lease
  child,      \* [Procs -> Roots \cup {NoRoot}]: the exec child started by a process
  pc, op,     \* [Procs -> ...]: where a process is, and in which command
  txn,        \* [Procs -> TxnPhases]: how far its record transaction is
  cap, fresh, \* its record capability, and whether that is still the record on disk
  dir,        \* [Procs -> Roots \cup {NoRoot}]: the root it has opened
  tmp,        \* [Procs -> Records]: its record temporary on disk, dead or alive
  seen,       \* [Procs -> SUBSET Procs]: whose temporaries gc's census listed
  clean,      \* [Procs -> BOOLEAN]: its exchange displaced the record it expected
  result,     \* [Procs -> ...]: how its last command ended
  alarmed,    \* history: some command has failed otherwise than by refusing
  calls, faults,
  delivered,  \* history: roots a create has returned to its user
  condemned   \* history: roots some transaction has put into a Tombstoned record

diskVars  == <<root, tomb, content>>
lockVars  == <<home, ex, sh>>
txnVars   == <<cap, fresh, tmp, clean>>
histVars  == <<delivered, condemned>>
vars == <<rec, root, tomb, content, home, ex, sh, child, pc, op, txn, cap, fresh, dir,
          tmp, seen, clean, result, alarmed, calls, faults, delivered, condemned>>

Contents == {"unused", "building", "complete", "partial", "gone"}
Results  == {"none", "ok", "busy", "refused", "error", "recovery", "killed"}
TxnPhases == {"none", "written", "compared", "exchanged"}

Entry == [create |-> "home", remove |-> "load", force |-> "load", exec |-> "load",
          publish |-> "load", gc |-> "home"]

CreateSteps == {"lookup", "prepare", "link", "mkdir", "mat", "build", "recheck", "ready",
                "deliver", "abort", "abort_tree", "abort_rest", "abort_record"}
RemoveSteps == {"lease", "revalidate", "discard", "tombstone", "release",
                "remove_prepared"}
CompleteSteps == {"inspect", "tomb_lease", "tomb_revalidate", "promote",
                  "tomb_recheck", "delete", "delete_rest", "drop_record"}
ExecSteps == {"share", "share_revalidate", "spawn", "wait"}
PublishSteps == {"journal", "settle", "published"}
GcSteps == {"census", "recensus", "sweep", "dispatch"}
Locations == {"idle", "home", "load"} \cup CreateSteps \cup RemoveSteps
               \cup CompleteSteps \cup ExecSteps \cup PublishSteps \cup GcSteps

(***************************************************************************)
(* One process.                                                            *)
(***************************************************************************)
Goto(p, to) ==
  /\ pc' = [pc EXCEPT ![p] = to]
  /\ txn' = [txn EXCEPT ![p] = "none"]
  /\ UNCHANGED <<result, alarmed, lockVars>>

\* Mutant: the lease descriptor is close-on-exec.
InheritsNothing(p, i) == FALSE

\* The child of an exec holds a duplicate of the lease descriptor.
Inherits(p, i) == child[p] = i

\* Mutant: a git child that outlives the process holds its exclusive lease.
ExitLeaksLease(p, code) ==
  /\ pc' = [pc EXCEPT ![p] = "idle"]
  /\ txn' = [txn EXCEPT ![p] = "none"]
  /\ result' = [result EXCEPT ![p] = code]
  /\ home' = home \ {p}
  /\ UNCHANGED <<alarmed, ex, sh>>

\* The process exits.  Its descriptors close, so its locks go, but an exec child
\* keeps the lease it inherited; a temporary that is still on disk stays.
Exit(p, code) ==
  /\ pc' = [pc EXCEPT ![p] = "idle"]
  /\ txn' = [txn EXCEPT ![p] = "none"]
  /\ result' = [result EXCEPT ![p] = code]
  /\ alarmed' = (alarmed \/ code \in {"error", "recovery", "killed"})
  /\ home' = home \ {p}
  /\ ex' = [i \in Roots |-> ex[i] \ {p}]
  /\ sh' = [i \in Roots |-> IF Inherits(p, i) THEN sh[i] ELSE sh[i] \ {p}]

Fault == faults < MaxFaults /\ faults' = faults + 1

\* One check of the code that changes nothing.
Check(p, at, ok, to, code) ==
  /\ pc[p] = at
  /\ IF ok THEN Goto(p, to) ELSE Exit(p, code)
  /\ UNCHANGED <<rec, diskVars, child, op, txnVars, dir, seen, calls, faults, histVars>>

\* A process identifier is used again once nothing on disk or running bears it.
Start(p, o) ==
  /\ pc[p] = "idle" /\ child[p] = NoRoot /\ tmp[p] = NoRecord
  /\ o = "gc" \/ calls < MaxCalls
  /\ calls' = IF o = "gc" THEN calls ELSE calls + 1
  /\ pc' = [pc EXCEPT ![p] = Entry[o]]
  /\ op' = [op EXCEPT ![p] = o]
  /\ result' = [result EXCEPT ![p] = "none"]
  /\ cap' = [cap EXCEPT ![p] = NoRecord]
  /\ fresh' = [fresh EXCEPT ![p] = FALSE]
  /\ clean' = [clean EXCEPT ![p] = FALSE]
  /\ dir' = [dir EXCEPT ![p] = NoRoot]
  /\ seen' = [seen EXCEPT ![p] = {}]
  /\ UNCHANGED <<rec, diskVars, lockVars, child, txn, tmp, alarmed, faults, histVars>>

\* The HOME flock is waited for.
LockHome(p) ==
  /\ pc[p] = "home" /\ home = {}
  /\ home' = {p}
  /\ pc' = [pc EXCEPT ![p] = IF op[p] = "gc" THEN "census" ELSE "lookup"]
  /\ UNCHANGED <<rec, diskVars, ex, sh, child, op, txn, txnVars, dir, seen,
                 result, alarmed, calls, faults, histVars>>

(***************************************************************************)
(* A record transaction: the temporary is written, the record on disk is   *)
(* compared with the expected one, the two are exchanged, and what the     *)
(* exchange displaced is compared afterwards.                              *)
(***************************************************************************)
Within(p, phase) ==
  /\ txn' = [txn EXCEPT ![p] = phase]
  /\ UNCHANGED <<pc, result, alarmed, lockVars>>

\* begin_with_expected_old: a stale capability ends it before anything is written.
TxnWrite(p, new) ==
  /\ txn[p] = "none"
  /\ IF fresh[p]
       THEN tmp' = [tmp EXCEPT ![p] = new] /\ Within(p, "written")
       ELSE Exit(p, "recovery") /\ UNCHANGED tmp
  /\ UNCHANGED <<rec, cap, fresh, clean, faults, condemned>>

\* commit_exchange compares once more; a mismatch aborts, the temporary goes.
TxnCompare(p) ==
  /\ txn[p] = "written"
  /\ IF fresh[p] /\ tmp[p] # NoRecord
       THEN Within(p, "compared") /\ UNCHANGED tmp
       ELSE tmp' = [tmp EXCEPT ![p] = NoRecord] /\ Exit(p, "recovery")
  /\ UNCHANGED <<rec, cap, fresh, clean, faults, condemned>>

\* rename_exchange.  It fails if either name is gone, and may fail anyway.
TxnExchange(p) ==
  LET both == rec # NoRecord /\ tmp[p] # NoRecord
  IN  /\ txn[p] = "compared"
      /\ \/ /\ both
            /\ rec' = tmp[p]
            /\ tmp' = [tmp EXCEPT ![p] = rec]
            /\ cap' = [cap EXCEPT ![p] = tmp[p]]
            /\ clean' = [clean EXCEPT ![p] = fresh[p]]
            /\ fresh' = [q \in Procs |-> q = p]
            /\ condemned' = IF rec'.st = "Tombstoned" THEN condemned \cup {rec'.root}
                            ELSE condemned
            /\ Within(p, "exchanged")
            /\ UNCHANGED faults
         \/ /\ IF both THEN Fault ELSE UNCHANGED faults
            /\ tmp' = [tmp EXCEPT ![p] = NoRecord]
            /\ Exit(p, "recovery")
            /\ UNCHANGED <<rec, cap, clean, fresh, condemned>>

\* Mutant: the displaced record is left where the exchange put it.
TxnCheckKeepsOld(p, to) ==
  /\ txn[p] = "exchanged"
  /\ IF fresh[p] /\ clean[p] THEN Goto(p, to) ELSE Exit(p, "recovery")
  /\ UNCHANGED <<rec, tmp, cap, fresh, clean, faults, condemned>>

\* The displaced record is unlinked if it is the expected one and the new one is
\* still in place; otherwise nothing is undone and the temporary stays.
TxnCheck(p, to) ==
  /\ txn[p] = "exchanged"
  /\ IF fresh[p] /\ clean[p] /\ tmp[p] # NoRecord
       THEN tmp' = [tmp EXCEPT ![p] = NoRecord] /\ Goto(p, to)
       ELSE Exit(p, "recovery") /\ UNCHANGED tmp
  /\ UNCHANGED <<rec, cap, fresh, clean, faults, condemned>>

ReplaceRecord(p, at, new, to) ==
  /\ pc[p] = at
  /\ TxnWrite(p, new) \/ TxnCompare(p) \/ TxnExchange(p) \/ TxnCheck(p, to)
  /\ UNCHANGED <<diskVars, child, op, dir, seen, calls, delivered>>

\* Mutant: the record is unlinked by its name alone.
DropRecordByName(p, at, code) ==
  /\ pc[p] = at
  /\ rec' = NoRecord
  /\ fresh' = [q \in Procs |-> FALSE]
  /\ Exit(p, code)
  /\ UNCHANGED <<diskVars, child, op, cap, tmp, clean, dir, seen, calls, faults, histVars>>

\* remove_record_capability: compare, unlink, sync.
DropRecord(p, at, code) ==
  /\ pc[p] = at
  /\ IF fresh[p]
       THEN /\ rec' = NoRecord
            /\ fresh' = [q \in Procs |-> FALSE]
            /\ Exit(p, code)
       ELSE Exit(p, "recovery") /\ UNCHANGED <<rec, fresh>>
  /\ UNCHANGED <<diskVars, child, op, cap, tmp, clean, dir, seen, calls, faults, histVars>>

\* load_ready_session: the receipts of a Ready record match the tree.
Loadable == rec.st = "Ready" /\ root = rec.root /\ content[rec.root] = "complete"

(***************************************************************************)
(* create                                                                  *)
(***************************************************************************)
\* Mutant: a create that finds the session unfinished returns it, too.
LookupUnfinished(p) ==
  LET code == IF rec.busy \/ rec.st = "Prepared" THEN "refused"
              ELSE IF rec.st = "Tombstoned" THEN "recovery" ELSE "ok"
  IN  /\ pc[p] = "lookup"
      /\ IF rec = NoRecord THEN Goto(p, "prepare") ELSE Exit(p, code)
      /\ delivered' = IF rec # NoRecord /\ code = "ok" THEN delivered \cup {rec.root}
                       ELSE delivered
      /\ UNCHANGED <<rec, diskVars, child, op, txnVars, dir, seen, calls, faults, condemned>>

\* optional_record and the match on an existing record with the same inputs: a session that
\* is there already is returned.
Lookup(p) ==
  LET code == IF rec.busy \/ rec.st \in {"Prepared", "Materializing"} THEN "refused"
              ELSE IF rec.st = "Tombstoned" THEN "recovery"
              ELSE IF Loadable THEN "ok" ELSE "error"
  IN  /\ pc[p] = "lookup"
      /\ IF rec = NoRecord THEN Goto(p, "prepare") ELSE Exit(p, code)
      /\ delivered' = IF code = "ok" THEN delivered \cup {rec.root} ELSE delivered
      /\ UNCHANGED <<rec, diskVars, child, op, txnVars, dir, seen, calls, faults, condemned>>

\* create_record_capability: RecordTxn::begin with no expected record ...
Prepare(p) ==
  /\ pc[p] = "prepare"
  /\ IF rec = NoRecord
       THEN tmp' = [tmp EXCEPT ![p] = Record("Prepared", NoRoot)] /\ Goto(p, "link")
       ELSE Exit(p, "error") /\ UNCHANGED tmp
  /\ UNCHANGED <<rec, diskVars, child, op, cap, fresh, clean, dir, seen,
                 calls, faults, histVars>>

\* ... and commit_new: rename without replacement.
Link(p) ==
  /\ pc[p] = "link"
  /\ tmp' = [tmp EXCEPT ![p] = NoRecord]
  /\ IF rec = NoRecord
       THEN /\ rec' = tmp[p]
            /\ cap' = [cap EXCEPT ![p] = tmp[p]]
            /\ fresh' = [q \in Procs |-> q = p]
            /\ Goto(p, "mkdir")
       ELSE Exit(p, "error") /\ UNCHANGED <<rec, cap, fresh>>
  /\ UNCHANGED <<diskVars, child, op, clean, dir, seen, calls, faults, histVars>>

\* mkdirat of the root name; it fails if the name is taken or, the bound on
\* creates, no inode is left.
Mkdir(p) ==
  /\ pc[p] = "mkdir"
  /\ \/ \E i \in Roots :
          /\ root = NoRoot /\ content[i] = "unused"
          /\ root' = i
          /\ content' = [content EXCEPT ![i] = "building"]
          /\ dir' = [dir EXCEPT ![p] = i]
          /\ Goto(p, "mat")
     \/ /\ root # NoRoot \/ \A i \in Roots : content[i] # "unused"
        /\ Exit(p, "error")
        /\ UNCHANGED <<root, content, dir>>
  /\ UNCHANGED <<rec, tomb, child, op, txnVars, seen, calls, faults, histVars>>

Materializing(p) == ReplaceRecord(p, "mat", Record("Materializing", dir[p]), "build")

\* git init, alternates, worktree add, native clone, read-tree, status, syncs.
\* An error of a kind that retain_creating keeps ends the call; any other one
\* runs CreateTxn::abort.
Build(p) ==
  LET mine == root = dir[p] /\ content[dir[p]] = "building"
  IN  /\ pc[p] = "build"
      /\ \/ /\ mine
            /\ content' = [content EXCEPT ![dir[p]] = "complete"]
            /\ Goto(p, "recheck")
            /\ UNCHANGED faults
         \/ /\ mine /\ Fault
            /\ Goto(p, "abort")
            /\ UNCHANGED content
         \/ /\ IF mine THEN Fault ELSE UNCHANGED faults
            /\ Exit(p, "recovery")
            /\ UNCHANGED content
      /\ UNCHANGED <<rec, root, tomb, child, op, txnVars, dir, seen, calls, histVars>>

\* revalidate_record and bind_path, then the Ready record.
CommitReady(p) ==
  \/ Check(p, "recheck", fresh[p] /\ root = dir[p], "ready", "recovery")
  \/ ReplaceRecord(p, "ready", Record("Ready", dir[p]), "deliver")

Deliver(p) ==
  /\ pc[p] = "deliver"
  /\ delivered' = delivered \cup {dir[p]}
  /\ Exit(p, "ok")
  /\ UNCHANGED <<rec, diskVars, child, op, txnVars, dir, seen, calls, faults, condemned>>

\* remove_owned_tree of the tree at a name: its entries go one by one, and its
\* name is compared again before it goes itself.
ClearTree(p, at, named, to) ==
  /\ pc[p] = at
  /\ IF named
       THEN content' = [content EXCEPT ![dir[p]] = "partial"] /\ Goto(p, to)
       ELSE Exit(p, "recovery") /\ UNCHANGED content
  /\ UNCHANGED <<rec, root, tomb, child, op, txnVars, dir, seen, calls, faults, histVars>>

\* CreateTxn::abort: revalidate, remove the tree, remove the record.  It takes no
\* lease on the root.
AbortCreate(p) ==
  \/ Check(p, "abort", fresh[p], "abort_tree", "recovery")
  \/ ClearTree(p, "abort_tree", root = dir[p], "abort_rest")
  \/ /\ pc[p] = "abort_rest"
     /\ IF root = dir[p]
          THEN /\ content' = [content EXCEPT ![dir[p]] = "gone"]
               /\ root' = NoRoot
               /\ Goto(p, "abort_record")
          ELSE Exit(p, "recovery") /\ UNCHANGED <<content, root>>
     /\ UNCHANGED <<rec, tomb, child, op, txnVars, dir, seen, calls, faults, histVars>>
  \/ DropRecord(p, "abort_record", "error")

(***************************************************************************)
(* remove, exec and publish read the record first.                         *)
(***************************************************************************)
\* The command goes on with the record and the root it has read.
Loads(p, to) ==
  /\ cap' = [cap EXCEPT ![p] = rec]
  /\ fresh' = [fresh EXCEPT ![p] = TRUE]
  /\ dir' = [dir EXCEPT ![p] = rec.root]
  /\ Goto(p, to)

Rejects(p, code) == Exit(p, code) /\ UNCHANGED <<cap, fresh, dir>>

LoadStep(p, commands) ==
  /\ pc[p] = "load" /\ op[p] \in commands
  /\ UNCHANGED <<rec, diskVars, child, op, tmp, clean, seen, calls, faults, histVars>>

LoadForRemove(p) ==
  /\ LoadStep(p, {"remove", "force"})
  /\ \/ /\ rec = NoRecord
        /\ Rejects(p, IF root = NoRoot /\ tomb = NoRoot THEN "ok" ELSE "recovery")
     \/ rec.busy /\ Rejects(p, "refused")
     \/ rec.st = "Tombstoned" /\ Loads(p, "inspect")
     \/ /\ rec.st = "Ready" /\ ~rec.busy
        /\ IF Loadable THEN Loads(p, "lease") ELSE Rejects(p, "error")
     \/ /\ rec.st \in {"Prepared", "Materializing"} /\ op[p] = "remove"
        /\ Rejects(p, "refused")
     \/ /\ rec.st = "Materializing" /\ op[p] = "force"
        /\ IF root = rec.root THEN Loads(p, "lease") ELSE Rejects(p, "recovery")
     \/ /\ rec.st = "Prepared" /\ op[p] = "force"
        /\ IF root = NoRoot /\ tomb = NoRoot
             THEN Loads(p, "remove_prepared") ELSE Rejects(p, "recovery")

LoadForExec(p) ==
  /\ LoadStep(p, {"exec"})
  /\ IF Loadable /\ ~rec.busy THEN Loads(p, "share")
     ELSE Rejects(p, IF rec.busy THEN "refused" ELSE "error")

LoadForPublish(p) ==
  /\ LoadStep(p, {"publish"})
  /\ IF Loadable THEN Loads(p, "lease") ELSE Rejects(p, "error")

\* Mutant: an exclusive lease next to shared ones.
UnsharedOnly(i) == ex[i] = {}

Unleased(i) == ex[i] = {} /\ sh[i] = {}

\* LOCK_EX | LOCK_NB on the root p has opened.
TryLease(p, at, to) ==
  /\ pc[p] = at
  /\ IF Unleased(dir[p])
       THEN /\ ex' = [ex EXCEPT ![dir[p]] = {p}]
            /\ pc' = [pc EXCEPT ![p] = to]
            /\ UNCHANGED <<result, alarmed, txn, home, sh>>
       ELSE Exit(p, "busy")
  /\ UNCHANGED <<rec, diskVars, child, op, txnVars, dir, seen, calls, faults, histVars>>

AcquireLease(p) == TryLease(p, "lease", "revalidate")

AfterLease(p) ==
  CASE op[p] = "publish" -> IF cap[p].busy THEN "settle" ELSE "journal"
    [] op[p] = "remove"  -> "discard"
    [] op[p] = "force"   -> "tombstone"

\* revalidate_ready_lease, or revalidate_record for an incomplete session.  gc
\* then unlinks private objects that are exact duplicates: nothing this module has.
Revalidate(p) ==
  LET ok == fresh[p] /\ (cap[p].st = "Ready" => Loadable)
  IN  \/ op[p] # "gc" /\ Check(p, "revalidate", ok, AfterLease(p), "recovery")
      \/ op[p] = "gc" /\ Check(p, "revalidate", FALSE, "idle",
                               IF ok THEN "ok" ELSE "recovery")

(***************************************************************************)
(* remove                                                                  *)
(***************************************************************************)
\* ensure_discard_safe: without --force, content at risk refuses the removal.
DiscardCheck(p) ==
  \/ Check(p, "discard", TRUE, "tombstone", "refused")
  \/ Check(p, "discard", FALSE, "tombstone", "refused")

\* Mutant: the tree goes before the record says so.
TransitionWithoutTombstone(p) ==
  /\ pc[p] = "tombstone"
  /\ pc' = [pc EXCEPT ![p] = "inspect"]
  /\ ex' = [i \in Roots |-> ex[i] \ {p}]
  /\ UNCHANGED <<rec, diskVars, home, sh, child, op, txn, txnVars, dir, seen, result,
                 alarmed, calls, faults, histVars>>

\* transition_tombstone; the lease goes with the arm of the match that took it.
TransitionTombstone(p) ==
  \/ ReplaceRecord(p, "tombstone", Record("Tombstoned", cap[p].root), "release")
  \/ /\ pc[p] = "release"
     /\ pc' = [pc EXCEPT ![p] = "inspect"]
     /\ ex' = [i \in Roots |-> ex[i] \ {p}]
     /\ UNCHANGED <<rec, diskVars, home, sh, child, op, txn, txnVars, dir, seen, result,
                    alarmed, calls, faults, histVars>>

RemovePrepared(p) == DropRecord(p, "remove_prepared", "ok")

(***************************************************************************)
(* complete_tombstone, for remove and for gc.                              *)
(***************************************************************************)
AtRoot(i) == root = i /\ tomb = NoRoot
AtTomb(i) == root = NoRoot /\ tomb = i

Inspect(p) ==
  LET i == cap[p].root
  IN  /\ pc[p] = "inspect"
      /\ \/ (AtRoot(i) \/ AtTomb(i)) /\ dir' = [dir EXCEPT ![p] = i] /\ Goto(p, "tomb_lease")
         \/ root = NoRoot /\ tomb = NoRoot /\ Goto(p, "drop_record") /\ UNCHANGED dir
         \/ /\ ~AtRoot(i) /\ ~AtTomb(i) /\ ~(root = NoRoot /\ tomb = NoRoot)
            /\ Exit(p, "recovery") /\ UNCHANGED dir
      /\ UNCHANGED <<rec, diskVars, child, op, txnVars, seen, calls, faults, histVars>>

\* promote_tombstone: rename without replacement into the tombstone name.
Promote(p) ==
  /\ pc[p] = "promote"
  /\ \/ /\ AtRoot(dir[p])
        /\ root' = NoRoot /\ tomb' = dir[p]
        /\ Goto(p, "tomb_recheck")
     \/ AtTomb(dir[p]) /\ Goto(p, "tomb_recheck") /\ UNCHANGED <<root, tomb>>
     \/ ~AtRoot(dir[p]) /\ ~AtTomb(dir[p]) /\ Exit(p, "recovery") /\ UNCHANGED <<root, tomb>>
  /\ UNCHANGED <<rec, content, child, op, txnVars, dir, seen, calls, faults, histVars>>

\* Mutant: a tree that could not be removed whole counts as removed.
DeleteRestGivesUp(p) ==
  /\ pc[p] = "delete_rest"
  /\ Goto(p, "drop_record")
  /\ UNCHANGED <<rec, diskVars, child, op, txnVars, dir, seen, calls, faults, histVars>>

DeleteRest(p) ==
  /\ pc[p] = "delete_rest"
  /\ IF tomb = dir[p]
       THEN /\ content' = [content EXCEPT ![dir[p]] = "gone"]
            /\ tomb' = NoRoot
            /\ Goto(p, "drop_record")
       ELSE Exit(p, "recovery") /\ UNCHANGED <<content, tomb>>
  /\ UNCHANGED <<rec, root, child, op, txnVars, dir, seen, calls, faults, histVars>>

CompleteTombstone(p) ==
  \/ Inspect(p)
  \/ TryLease(p, "tomb_lease", "tomb_revalidate")
  \/ Check(p, "tomb_revalidate", fresh[p], "promote", "recovery")
  \/ Promote(p)
  \/ Check(p, "tomb_recheck", fresh[p], "delete", "recovery")
  \/ ClearTree(p, "delete", tomb = dir[p], "delete_rest")
  \/ DeleteRest(p)
  \/ DropRecord(p, "drop_record", "ok")

(***************************************************************************)
(* exec                                                                    *)
(***************************************************************************)
\* LOCK_SH, waited for.
Share(p) ==
  /\ pc[p] = "share" /\ ex[dir[p]] = {}
  /\ sh' = [sh EXCEPT ![dir[p]] = @ \cup {p}]
  /\ pc' = [pc EXCEPT ![p] = "share_revalidate"]
  /\ UNCHANGED <<rec, diskVars, home, ex, child, op, txn, txnVars, dir, seen, result,
                 alarmed, calls, faults, histVars>>

ShareRevalidate(p) == Check(p, "share_revalidate", fresh[p] /\ Loadable, "spawn", "recovery")

\* The child inherits a duplicate of the lease descriptor.
Spawn(p) ==
  /\ pc[p] = "spawn"
  /\ child' = [child EXCEPT ![p] = dir[p]]
  /\ Goto(p, "wait")
  /\ UNCHANGED <<rec, diskVars, op, txnVars, dir, seen, calls, faults, histVars>>

Wait(p) ==
  /\ child[p] = NoRoot
  /\ Check(p, "wait", FALSE, "idle", "ok")

ChildExits(p) ==
  /\ child[p] # NoRoot
  /\ child' = [child EXCEPT ![p] = NoRoot]
  /\ sh' = IF pc[p] = "wait" THEN sh ELSE [i \in Roots |-> sh[i] \ {p}]
  /\ UNCHANGED <<rec, diskVars, home, ex, pc, op, txn, txnVars, dir, seen, result,
                 alarmed, calls, faults, histVars>>

(***************************************************************************)
(* publish, seen from the record: the journal is busy until it settles.    *)
(***************************************************************************)
Busy(p, busy) == [cap[p] EXCEPT !.busy = busy]

PublishSession(p) ==
  \/ ReplaceRecord(p, "journal", Busy(p, TRUE), "settle")
  \/ ReplaceRecord(p, "settle", Busy(p, FALSE), "published")
  \/ Check(p, "published", FALSE, "idle", "ok")

\* A check of publish fails: the journal stays as it is.
PublishStops(p) ==
  /\ txn[p] = "none"
  /\ \/ Check(p, "journal", FALSE, "idle", "error")
     \/ Check(p, "settle", FALSE, "idle", "error")

(***************************************************************************)
(* gc                                                                      *)
(***************************************************************************)
\* session_precedes: which displaced records gc recognises next to the current one.
Precedes(previous, current) ==
  /\ ~previous.busy /\ ~current.busy
  /\ \/ previous.st = "Prepared" /\ current.st = "Materializing"
     \/ /\ previous.root = current.root
        /\ \/ previous.st = "Materializing" /\ current.st = "Ready"
           \/ previous.st = "Ready" /\ current.st = "Tombstoned"

\* Mutant: a tombstone is accounted for only while its tree is at the root name.
AccountedAtRootOnly ==
  /\ ~rec.busy
  /\ \/ rec.st \in {"Absent", "Prepared"} /\ root = NoRoot /\ tomb = NoRoot
     \/ rec.st \in {"Materializing", "Tombstoned"} /\ AtRoot(rec.root)
     \/ Loadable /\ tomb = NoRoot

\* session_census and diagnose_list_record: what is on disk is what the record
\* authorises, and the journal is idle.
Accounted ==
  /\ ~rec.busy
  /\ \/ rec.st \in {"Absent", "Prepared"} /\ root = NoRoot /\ tomb = NoRoot
     \/ rec.st = "Materializing" /\ AtRoot(rec.root)
     \/ Loadable /\ tomb = NoRoot
     \/ /\ rec.st = "Tombstoned"
        /\ AtRoot(rec.root) \/ AtTomb(rec.root) \/ (root = NoRoot /\ tomb = NoRoot)

Temporaries == {q \in Procs : tmp[q] # NoRecord}
Explained   == Accounted /\ \A q \in Temporaries : Precedes(tmp[q], rec)

Census(p) ==
  /\ pc[p] = "census"
  /\ cap' = [cap EXCEPT ![p] = rec]
  /\ fresh' = [fresh EXCEPT ![p] = rec # NoRecord]
  /\ seen' = [seen EXCEPT ![p] = Temporaries]
  /\ IF Explained THEN Goto(p, "recensus") ELSE Exit(p, "recovery")
  /\ UNCHANGED <<rec, diskVars, child, op, tmp, clean, dir, calls, faults, histVars>>

\* template::gc takes the census again before it retires a template; what the first
\* one saw is what gc_sessions goes by.
Recensus(p) == Check(p, "recensus", Explained, "sweep", "recovery")

\* gc_session_predecessor_temporary, for every temporary the census listed.
Sweep(p) ==
  /\ pc[p] = "sweep"
  /\ IF \A q \in seen[p] : tmp[q] # NoRecord /\ Precedes(tmp[q], rec)
       THEN /\ tmp' = [q \in Procs |-> IF q \in seen[p] THEN NoRecord ELSE tmp[q]]
            /\ Goto(p, "dispatch")
       ELSE Exit(p, "recovery") /\ UNCHANGED tmp
  /\ UNCHANGED <<rec, diskVars, child, op, cap, fresh, clean, dir, seen,
                 calls, faults, histVars>>

\* gc_sessions goes by the census: a tombstone is completed, a Ready session has
\* its duplicate objects removed under its lease, anything else is left alone.
GcDispatch(p) ==
  /\ pc[p] = "dispatch"
  /\ \/ cap[p].st = "Tombstoned" /\ Goto(p, "inspect") /\ UNCHANGED dir
     \/ /\ cap[p].st = "Ready"
        /\ IF fresh[p] /\ Loadable
             THEN dir' = [dir EXCEPT ![p] = cap[p].root] /\ Goto(p, "lease")
             ELSE Exit(p, "recovery") /\ UNCHANGED dir
     \/ cap[p].st \notin {"Tombstoned", "Ready"} /\ Exit(p, "ok") /\ UNCHANGED dir
  /\ UNCHANGED <<rec, diskVars, child, op, txnVars, seen, calls, faults, histVars>>

(***************************************************************************)
(* Specification.                                                          *)
(***************************************************************************)
\* The process is killed, or a system call of its fails where all that follows is
\* an error code.
Crash(p) ==
  /\ pc[p] # "idle"
  /\ Fault
  /\ Exit(p, "killed")
  /\ UNCHANGED <<rec, diskVars, child, op, txnVars, dir, seen, calls, histVars>>

Init ==
  /\ rec = NoRecord /\ root = NoRoot /\ tomb = NoRoot
  /\ content = [i \in Roots |-> "unused"]
  /\ home = {}
  /\ ex = [i \in Roots |-> {}] /\ sh = [i \in Roots |-> {}]
  /\ child = [p \in Procs |-> NoRoot]
  /\ pc = [p \in Procs |-> "idle"]
  /\ op = [p \in Procs |-> "gc"]
  /\ txn = [p \in Procs |-> "none"]
  /\ cap = [p \in Procs |-> NoRecord]
  /\ fresh = [p \in Procs |-> FALSE]
  /\ dir = [p \in Procs |-> NoRoot]
  /\ tmp = [p \in Procs |-> NoRecord]
  /\ seen = [p \in Procs |-> {}]
  /\ clean = [p \in Procs |-> FALSE]
  /\ result = [p \in Procs |-> "none"]
  /\ alarmed = FALSE
  /\ calls = 0 /\ faults = 0
  /\ delivered = {} /\ condemned = {}

CreateStep(p) ==
  \/ Lookup(p) \/ Prepare(p) \/ Link(p) \/ Mkdir(p) \/ Materializing(p) \/ Build(p)
  \/ CommitReady(p) \/ Deliver(p) \/ AbortCreate(p)
RemoveStep(p) ==
  \/ LoadForRemove(p) \/ AcquireLease(p) \/ Revalidate(p) \/ DiscardCheck(p)
  \/ TransitionTombstone(p) \/ RemovePrepared(p) \/ CompleteTombstone(p)
ExecStep(p)    == LoadForExec(p) \/ ShareRevalidate(p) \/ Spawn(p) \/ Wait(p)
PublishStep(p) == LoadForPublish(p) \/ PublishSession(p) \/ PublishStops(p)
GcStep(p)      == Census(p) \/ Recensus(p) \/ Sweep(p) \/ GcDispatch(p)

Step(p) == CreateStep(p) \/ RemoveStep(p) \/ ExecStep(p) \/ PublishStep(p) \/ GcStep(p)

Next ==
  \/ \E p \in Procs, o \in Ops : Start(p, o)
  \/ \E p \in Procs : LockHome(p) \/ Share(p) \/ Step(p) \/ ChildExits(p) \/ Crash(p)

Spec == Init /\ [][Next]_vars

\* A process that can go on does; flock does not pass a waiter over for ever.
Fairness ==
  \A p \in Procs :
    /\ WF_vars(Step(p)) /\ WF_vars(ChildExits(p))
    /\ SF_vars(LockHome(p)) /\ SF_vars(Share(p))

FairSpec == Spec /\ Fairness

\* gc is run again and again: the one assumption that is not about the code.
GcSpec == FairSpec /\ \A p \in Procs : WF_vars(Start(p, "gc"))

(***************************************************************************)
(* Properties.                                                             *)
(***************************************************************************)
TypeOK ==
  /\ rec \in Records
  /\ {root, tomb} \subseteq Roots \cup {NoRoot}
  /\ content \in [Roots -> Contents]
  /\ home \subseteq Procs
  /\ {ex, sh} \subseteq [Roots -> SUBSET Procs]
  /\ {child, dir} \subseteq [Procs -> Roots \cup {NoRoot}]
  /\ pc \in [Procs -> Locations] /\ op \in [Procs -> Commands]
  /\ {cap, tmp} \subseteq [Procs -> Records]
  /\ {fresh, clean} \subseteq [Procs -> BOOLEAN]
  /\ seen \in [Procs -> SUBSET Procs]
  /\ txn \in [Procs -> TxnPhases]
  /\ result \in [Procs -> Results] /\ alarmed \in BOOLEAN
  /\ calls \in 0..MaxCalls /\ faults \in 0..MaxFaults
  /\ delivered \subseteq Roots /\ condemned \subseteq Roots

\* A program started by exec works in a root that is whole and at its own name, as
\* long as it runs: no removal, forced or not, no aborting create and no gc takes
\* the tree away under it, even when the exec that started it is dead (the lease
\* its child inherits, revalidate_ready_lease).
ExecOnLiveRoot ==
  \A p \in Procs : child[p] # NoRoot =>
    root = child[p] /\ tomb = NoRoot /\ content[child[p]] = "complete"

\* The tree of a session whose create has returned stays whole until a tombstone
\* for that very root has been on disk: no create that is retried or aborted, no
\* gc and no removal with a stale capability deletes it.
DeliveredTreeSurvives ==
  \A i \in delivered \ condemned : root = i /\ content[i] = "complete"

\* Nor does any of them take away its Ready record.  A forced removal may, which
\* holds the lease of an older root of that name, see the README.
DeliveredStaysReady ==
  \A i \in delivered \ condemned : rec.st = "Ready" /\ rec.root = i

\* While anything is at the root name or the tombstone name, the record is there to
\* account for it: an interrupted create or remove is always recoverable by name.
\* A forced removal of a Prepared record, which takes no lease, does not keep this.
RecordOutlivesRoot == rec = NoRecord => root = NoRoot /\ tomb = NoRoot

\* Nothing goes wrong in silence: once all commands have ended and none of them
\* was killed or has reported an error, what they leave on disk is what gc accepts,
\* in whatever order their steps fell: no temporary, no half-made or half-removed
\* tree, no record replaced behind a command's back.
SilentIsClean ==
  ~alarmed /\ (\A p \in Procs : pc[p] = "idle") /\ ~rec.busy =>
    /\ Accounted
    /\ \A p \in Procs : tmp[p] = NoRecord

\* What holds with forced removals in the mix as well.
Safe == TypeOK /\ ExecOnLiveRoot /\ DeliveredTreeSurvives /\ SilentIsClean

\* What its users see of a session: a tree by what is under its inode, a call by its
\* command, the root it has made and how far it has gone.  That is where it is: a refusal
\* comes before anything is done, SESSION_BUSY before a tree is touched.
TreeOf(c) ==
  CASE c = "unused" -> "none" [] c = "complete" -> "whole" [] c = "partial" -> "broken"
    [] OTHER -> c
Began(p) ==
  IF \/ pc[p] \in {"delete_rest", "drop_record", "wait", "settle", "published"}
     \/ op[p] = "create" /\ dir[p] # NoRoot
    THEN "changed"
  ELSE IF \/ pc[p] \in CompleteSteps \cup {"release"}
          \/ pc[p] = "tombstone" /\ txn[p] = "exchanged"
    THEN "begun"
  ELSE "nothing"

Trees    == [i \in Roots |-> TreeOf(content[i])]
Job      == [p \in Procs |-> IF pc[p] = "idle" THEN "none" ELSE op[p]]
Own      == [p \in Procs |-> IF pc[p] # "idle" /\ op[p] = "create" THEN dir[p] ELSE NoRoot]
Progress == [p \in Procs |-> IF pc[p] = "idle" THEN "nothing" ELSE Began(p)]
Answer   == [p \in Procs |-> IF result[p] \in {"error", "recovery", "killed"} THEN "failed"
                              ELSE result[p]]

Promise == INSTANCE SessionPromise WITH
  tree <- Trees, program <- child, job <- Job, own <- Own, did <- Progress, answer <- Answer

\* What the commands promise their users, whatever their order, kills and forced removals:
\* a tree only goes on behalf of who may take it and with no program in it, and an answer
\* is worth what SessionPromise says.
Promised == Promise!Spec

\* Every command returns: waiting for the HOME lock or for a shared lease, with
\* other commands coming and going, never becomes waiting for each other.
CallsReturn == \A p \in Procs : pc[p] # "idle" ~> pc[p] = "idle"

\* gc completes a tombstone, wherever the removal was interrupted, unless it meets
\* a temporary that session_precedes does not recognise.
Reclaimable == \A p \in Procs : tmp[p] # NoRecord => Precedes(tmp[p], rec)
TombstoneSettles == (<>[]Reclaimable) => []<>(rec.st # "Tombstoned")

\* src/src/main.rs on remove: "Removal uses a tombstone transition so an
\* interrupted cleanup can be diagnosed and completed by gc".
InterruptedRemoveCompleted == rec.st = "Tombstoned" ~> rec.st # "Tombstoned"
=============================================================================
