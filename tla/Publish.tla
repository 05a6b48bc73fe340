------------------------------ MODULE Publish ------------------------------
(***************************************************************************)
(* `git vws publish`: the committed tip of a session's private target      *)
(* branch is moved onto the same branch of the authority repository by an  *)
(* expected-old compare-and-swap.  A journal in the session record carries *)
(* one publish transaction from process to process:                        *)
(*                                                                         *)
(*   Idle -> Prepared -> ObjectsImported -> CasAttempted -> CasCommitted   *)
(*                                                            -> Idle      *)
(*                                                                         *)
(* Publishers interleave at every git child they run and every record they *)
(* write; other writers move the authority's refs, prune its objects, edit *)
(* its config and check branches out; programs in the session move the     *)
(* private tip; publishers crash, leaving an update-ref child behind.      *)
(*                                                                         *)
(* A commit stands for itself and its closure.  The unique (bytes, inode)  *)
(* identity of a record is modelled by fresh[p]: p's capability still names*)
(* the record on disk.                                                     *)
(***************************************************************************)
EXTENDS Naturals, FiniteSets

CONSTANTS
  Procs,        \* publisher processes
  Sessions,     \* sessions, all of them with the same authority target branch
  Commits,      \* commits of the private and authority repositories
  NoCommit,     \* an absent ref
  Configs,      \* fingerprints of the authority's configuration
  SafeConfigs,  \* the ones authority_config_is_safe accepts
  Ancestry,     \* the pairs <<a, b>> with a a proper ancestor of b
  MaxFaults,    \* bound: crashes, failed git children, failed record writes
  MaxEnv        \* bound: steps of other writers and of programs in sessions

ASSUME CommitsAssumption == NoCommit \notin Commits
ASSUME ConfigAssumption  == SafeConfigs \subseteq Configs /\ Configs # {}
ASSUME AncestryAssumption ==
  /\ Ancestry \subseteq Commits \X Commits
  /\ \A a, b, c \in Commits :
       <<a, b>> \in Ancestry /\ <<b, c>> \in Ancestry => <<a, c>> \in Ancestry
ASSUME BoundAssumption == MaxFaults \in Nat /\ MaxEnv \in Nat

Tips == Commits \cup {NoCommit}

\* What a transaction freezes (PublishJournal::fields): the commit to publish,
\* the authority tip it expects to replace and the configuration it audited.
Txs  == [new : Tips, old : Tips, cfg : Configs]
NoTx == [new |-> NoCommit, old |-> NoCommit, cfg |-> CHOOSE k \in Configs : TRUE]

Journals == {"Idle", "Prepared", "ObjectsImported", "CasAttempted", "CasCommitted"}
\* The part of SessionRecord that publish reads and writes.
Records == [journal : Journals, tx : Txs, expectedOld : Tips]

VARIABLES
  target,       \* authority: refs/heads/<target>
  objects,      \* authority: commits whose closure its object store holds
  config,       \* authority: current configuration
  checkedOut,   \* authority: a worktree has the target checked out
  privateTip,   \* [Sessions -> Tips]: the target branch of the private repository
  record,       \* [Sessions -> Records]: the session record on disk
  lease,        \* [Sessions -> SUBSET Procs]: holders of LOCK_EX on the session root
  child,        \* [Sessions -> Children]: the update-ref child, which outlives its parent
  pc,           \* [Procs -> Locations]: where a publisher is
  sess,         \* [Procs -> Sessions]: the session it publishes
  cap,          \* [Procs -> Records]: its RecordCapability
  fresh,        \* [Procs -> BOOLEAN]: cap still has the identity of the record on disk
  obs,          \* [Procs -> Txs]: what the Idle path has read of the authority
  result,       \* [Procs -> Codes]: how its last call ended
  faults, env,  \* spent parts of the two bounds
  landed,       \* history: times the CAS applied since the journal last left Idle
  moved         \* history: the CAS applied during this process's last call

authorityVars == <<target, objects, config, checkedOut>>
localVars     == <<sess, cap, fresh, obs>>
historyVars   == <<landed, moved>>
vars == <<target, objects, config, checkedOut, privateTip, record, lease, child,
          pc, sess, cap, fresh, obs, result, faults, env, landed, moved>>

IdlePath     == {"audit", "read_target", "read_private",
                 "same_closure", "same_config", "same_private", "same_target",
                 "idle_unchecked", "idle_target", "write_prepared"}
PreparedPath == {"prep_config", "prep_unchecked", "prep_private", "prep_target",
                 "import", "post_config", "post_private", "post_closure",
                 "write_imported"}
ImportedPath == {"imp_config", "imp_private", "imp_closure", "imp_target",
                 "imp_unchecked", "write_attempted"}
AttemptedPath == {"spawn_cas", "wait_cas", "write_committed"}
SharedTail == {"write_conflict", "return_conflict", "finalize", "return_success"}
Critical   == IdlePath \cup PreparedPath \cup ImportedPath \cup AttemptedPath
                \cup SharedTail
Locations  == {"idle", "lease", "revalidate"} \cup Critical

Codes == {"none", "success", "SESSION_BUSY", "SESSION_RECOVERY_REQUIRED",
          "PUBLISH_VERIFY_FAILED", "PUBLISH_NON_FAST_FORWARD", "PUBLISH_CONFLICT",
          "PUBLISH_TARGET_CHECKED_OUT", "PUBLISH_IMPORT_FAILED",
          "PUBLISH_RECOVERY_REQUIRED", "PUBLISH_COMMITTED_RECOVERY_REQUIRED"}

ChildStates == {"none", "running", "applied", "refused"}
Children == [st : ChildStates, new : Tips, old : Tips]
NoChild  == [st |-> "none", new |-> NoCommit, old |-> NoCommit]

Closure(c) == ({c} \cap Commits) \cup {a \in Commits : <<a, c>> \in Ancestry}

\* Mutant: any tip may be replaced.
AnyRelation(old, new) == TRUE

\* ensure_publish_relation: the frozen tip is absent, the same or an ancestor.
Relation(old, new) == old = NoCommit \/ old = new \/ <<old, new>> \in Ancestry

(***************************************************************************)
(* Control flow of one call.                                               *)
(***************************************************************************)
Proceed(p, to) ==
  /\ pc' = [pc EXCEPT ![p] = to]
  /\ UNCHANGED <<result, lease>>

\* The process exits; the kernel drops its lease with its descriptors.
Stop(p, code) ==
  /\ pc' = [pc EXCEPT ![p] = "idle"]
  /\ result' = [result EXCEPT ![p] = code]
  /\ lease' = [s \in Sessions |-> lease[s] \ {p}]

Fault == faults < MaxFaults /\ faults' = faults + 1

\* One guard of the code: a git child is read, and the call goes on or fails.
Check(p, from, ok, to, code) ==
  /\ pc[p] = from
  /\ IF ok THEN Proceed(p, to) ELSE Stop(p, code)
  /\ UNCHANGED <<authorityVars, privateTip, record, child, localVars,
                 faults, env, historyVars>>

ReplaceRecord(p, rec) ==
  /\ record' = [record EXCEPT ![sess[p]] = rec]
  /\ cap' = [cap EXCEPT ![p] = rec]
  /\ fresh' = [q \in Procs |-> q = p \/ (fresh[q] /\ sess[q] # sess[p])]

\* replace_publish_journal: one RecordTxn.  It commits; or it commits and still
\* reports an error (parent not synced, rename result unknown); or it aborts
\* before its exchange, always so when the capability is stale.
ReplaceJournal(p, from, rec, to, code) ==
  /\ pc[p] = from
  /\ \/ fresh[p] /\ ReplaceRecord(p, rec) /\ Proceed(p, to) /\ UNCHANGED faults
     \/ fresh[p] /\ ReplaceRecord(p, rec) /\ Fault /\ Stop(p, code)
     \/ /\ IF fresh[p] THEN Fault ELSE UNCHANGED faults
        /\ Stop(p, code)
        /\ UNCHANGED <<record, cap, fresh>>
  /\ UNCHANGED <<authorityVars, privateTip, child, sess, obs, env, moved>>

WithJournal(p, journal) == [cap[p] EXCEPT !.journal = journal]
Aborted(p) == [cap[p] EXCEPT !.journal = "Idle", !.tx = NoTx]

(***************************************************************************)
(* publish: load, lease, revalidate, dispatch on the journal.              *)
(***************************************************************************)
Start(p, s) ==
  /\ pc[p] = "idle"
  /\ pc' = [pc EXCEPT ![p] = "lease"]
  /\ sess' = [sess EXCEPT ![p] = s]
  /\ cap' = [cap EXCEPT ![p] = record[s]]
  /\ fresh' = [fresh EXCEPT ![p] = TRUE]
  /\ obs' = [obs EXCEPT ![p] = NoTx]
  /\ result' = [result EXCEPT ![p] = "none"]
  /\ moved' = [moved EXCEPT ![p] = FALSE]
  /\ UNCHANGED <<authorityVars, privateTip, record, lease, child, faults, env, landed>>

\* LOCK_EX | LOCK_NB: a leased session is busy, nobody waits.
AcquireLease(p) ==
  /\ pc[p] = "lease"
  /\ IF lease[sess[p]] = {}
       THEN /\ lease' = [lease EXCEPT ![sess[p]] = {p}]
            /\ pc' = [pc EXCEPT ![p] = "revalidate"]
            /\ UNCHANGED result
       ELSE Stop(p, "SESSION_BUSY")
  /\ UNCHANGED <<authorityVars, privateTip, record, child, localVars,
                 faults, env, historyVars>>

Dispatch == [Idle |-> "audit", Prepared |-> "prep_config",
             ObjectsImported |-> "imp_config", CasCommitted |-> "finalize"]

\* Mutant: the record read before the lease is trusted.
AlwaysCurrent(p) == TRUE

\* revalidate_ready_lease: the record is still the one that was loaded.
Current(p) == fresh[p]

\* revalidate_ready_lease, then the match on the journal.
Revalidate(p) ==
  /\ pc[p] = "revalidate"
  /\ \/ ~Current(p) /\ Stop(p, "SESSION_RECOVERY_REQUIRED")
     \/ /\ Current(p) /\ cap[p].journal = "CasAttempted"
        /\ Stop(p, "PUBLISH_RECOVERY_REQUIRED")
     \/ /\ Current(p) /\ cap[p].journal # "CasAttempted"
        /\ Proceed(p, Dispatch[cap[p].journal])
  /\ UNCHANGED <<authorityVars, privateTip, record, child, localVars,
                 faults, env, historyVars>>

(***************************************************************************)
(* The Idle journal: observe, decide, write Prepared.                      *)
(***************************************************************************)
Observe(p, from, seen, ok, to, code) ==
  /\ pc[p] = from
  /\ obs' = [obs EXCEPT ![p] = seen]
  /\ IF ok THEN Proceed(p, to) ELSE Stop(p, code)
  /\ UNCHANGED <<authorityVars, privateTip, record, child, sess, cap, fresh,
                 faults, env, historyVars>>

AuditConfig(p) ==
  Observe(p, "audit", [obs[p] EXCEPT !.cfg = config], config \in SafeConfigs,
          "read_target", "PUBLISH_VERIFY_FAILED")

ReadTarget(p) ==
  Observe(p, "read_target", [obs[p] EXCEPT !.old = target], TRUE,
          "read_private", "none")

\* private_target_commit, then ensure_publish_relation, then the same-tip test.
ReadPrivate(p) ==
  LET new == privateTip[sess[p]]
      to  == IF obs[p].old = new THEN "same_closure" ELSE "idle_unchecked"
  IN  Observe(p, "read_private", [obs[p] EXCEPT !.new = new],
              new \in Commits /\ Relation(obs[p].old, new), to,
              IF new \in Commits THEN "PUBLISH_NON_FAST_FORWARD"
                                 ELSE "PUBLISH_VERIFY_FAILED")

SameTip(p) ==
  \/ Check(p, "same_closure", obs[p].new \in objects, "same_config", "PUBLISH_VERIFY_FAILED")
  \/ Check(p, "same_config", config = obs[p].cfg, "same_private", "PUBLISH_VERIFY_FAILED")
  \/ Check(p, "same_private", privateTip[sess[p]] = obs[p].new, "same_target",
           "PUBLISH_VERIFY_FAILED")
  \/ Check(p, "same_target", target = obs[p].new, "return_success", "PUBLISH_CONFLICT")

IdleChecks(p) ==
  \/ Check(p, "idle_unchecked", ~checkedOut, "idle_target", "PUBLISH_TARGET_CHECKED_OUT")
  \/ Check(p, "idle_target", target = obs[p].old, "write_prepared", "PUBLISH_CONFLICT")

WritePrepared(p) ==
  /\ ReplaceJournal(p, "write_prepared",
                    [cap[p] EXCEPT !.journal = "Prepared", !.tx = obs[p]],
                    "prep_config", "PUBLISH_RECOVERY_REQUIRED")
  /\ landed' = IF record' = record THEN landed ELSE [landed EXCEPT ![sess[p]] = 0]

(***************************************************************************)
(* publish_prepared: recheck everything frozen, import, write              *)
(* ObjectsImported.  A target that moved is a conflict: back to Idle.      *)
(***************************************************************************)
ConfigUnchanged(p)  == config = cap[p].tx.cfg /\ config \in SafeConfigs
PrivateUnchanged(p) == privateTip[sess[p]] = cap[p].tx.new

\* Mutant: a conflict is reported, its transaction kept.
ConflictKept(p, from, to) ==
  Check(p, from, target = cap[p].tx.old, to, "PUBLISH_CONFLICT")

\* authority_target_commit against the frozen expected-old.
ConflictCheck(p, from, to) ==
  /\ pc[p] = from
  /\ Proceed(p, IF target = cap[p].tx.old THEN to ELSE "write_conflict")
  /\ UNCHANGED <<authorityVars, privateTip, record, child, localVars,
                 faults, env, historyVars>>

PreparedChecks(p) ==
  \/ Check(p, "prep_config", ConfigUnchanged(p), "prep_unchecked", "PUBLISH_VERIFY_FAILED")
  \/ Check(p, "prep_unchecked", ~checkedOut, "prep_private", "PUBLISH_TARGET_CHECKED_OUT")
  \/ Check(p, "prep_private", PrivateUnchanged(p), "prep_target", "PUBLISH_VERIFY_FAILED")
  \/ ConflictCheck(p, "prep_target", "import")
  \/ Check(p, "post_config", ConfigUnchanged(p), "post_private", "PUBLISH_VERIFY_FAILED")
  \/ Check(p, "post_private", PrivateUnchanged(p), "post_closure", "PUBLISH_VERIFY_FAILED")
  \/ Check(p, "post_closure", cap[p].tx.new \in objects, "write_imported",
           "PUBLISH_VERIFY_FAILED")

ImportObjects(p) ==
  /\ pc[p] = "import"
  /\ LET imported == objects \cup Closure(cap[p].tx.new)
     IN  \/ objects' = imported /\ Proceed(p, "post_config") /\ UNCHANGED faults
         \/ objects' \in {objects, imported} /\ Fault /\ Stop(p, "PUBLISH_IMPORT_FAILED")
  /\ UNCHANGED <<target, config, checkedOut, privateTip, record, child, localVars,
                 env, historyVars>>

WriteImported(p) ==
  /\ ReplaceJournal(p, "write_imported", WithJournal(p, "ObjectsImported"),
                    "imp_config", "PUBLISH_RECOVERY_REQUIRED")
  /\ UNCHANGED landed

(***************************************************************************)
(* publish_objects_imported: recheck, fence with CasAttempted, run the     *)
(* update-ref child, write CasCommitted.                                   *)
(***************************************************************************)
\* Mutant: what the journal says was imported is taken to be there still.
ImportedTrusted(p) ==
  \/ Check(p, "imp_config", ConfigUnchanged(p), "imp_private", "PUBLISH_VERIFY_FAILED")
  \/ Check(p, "imp_private", PrivateUnchanged(p), "imp_target", "PUBLISH_VERIFY_FAILED")
  \/ ConflictCheck(p, "imp_target", "imp_unchecked")
  \/ Check(p, "imp_unchecked", ~checkedOut, "write_attempted", "PUBLISH_TARGET_CHECKED_OUT")

ImportedChecks(p) ==
  \/ Check(p, "imp_config", ConfigUnchanged(p), "imp_private", "PUBLISH_VERIFY_FAILED")
  \/ Check(p, "imp_private", PrivateUnchanged(p), "imp_closure", "PUBLISH_VERIFY_FAILED")
  \/ Check(p, "imp_closure", cap[p].tx.new \in objects, "imp_target", "PUBLISH_VERIFY_FAILED")
  \/ ConflictCheck(p, "imp_target", "imp_unchecked")
  \/ Check(p, "imp_unchecked", ~checkedOut, "write_attempted", "PUBLISH_TARGET_CHECKED_OUT")

\* Mutant: the swap is started without its durable fence.
NoFence(p) == Check(p, "write_attempted", TRUE, "spawn_cas", "none")

WriteAttempted(p) ==
  /\ ReplaceJournal(p, "write_attempted", WithJournal(p, "CasAttempted"),
                    "spawn_cas", "PUBLISH_RECOVERY_REQUIRED")
  /\ UNCHANGED landed

SpawnCas(p) ==
  /\ pc[p] = "spawn_cas"
  /\ child' = [child EXCEPT ![sess[p]] =
                 [st |-> "running", new |-> cap[p].tx.new, old |-> cap[p].tx.old]]
  /\ Proceed(p, "wait_cas")
  /\ UNCHANGED <<authorityVars, privateTip, record, localVars, faults, env, historyVars>>

\* git update-ref --no-deref: git compares and swaps under its own ref lock and
\* refuses a commit it does not have, or any swap while somebody else holds that
\* lock.  It runs whether its parent lives or not.
ChildApplies(s) ==
  /\ child[s].st = "running"
  /\ target = child[s].old /\ child[s].new \in objects
  /\ target' = child[s].new
  /\ child' = [child EXCEPT ![s].st = "applied"]
  /\ landed' = [landed EXCEPT ![s] = @ + 1]
  /\ moved' = [p \in Procs |-> moved[p] \/ (pc[p] = "wait_cas" /\ sess[p] = s)]
  /\ UNCHANGED <<objects, config, checkedOut, privateTip, record, lease, pc, result,
                 localVars, faults, env>>

ChildRefuses(s) ==
  /\ child[s].st = "running"
  /\ \/ ~(target = child[s].old /\ child[s].new \in objects) /\ UNCHANGED faults
     \/ Fault
  /\ child' = [child EXCEPT ![s].st = "refused"]
  /\ UNCHANGED <<authorityVars, privateTip, record, lease, pc, result, localVars,
                 env, historyVars>>

\* The child's exit status decides: success goes on to CasCommitted, anything
\* else leaves the fence for good.
CasReturns(p) ==
  /\ pc[p] = "wait_cas"
  /\ \/ child[sess[p]].st = "applied" /\ Proceed(p, "write_committed")
     \/ child[sess[p]].st = "refused" /\ Stop(p, "PUBLISH_RECOVERY_REQUIRED")
  /\ child' = [child EXCEPT ![sess[p]] = NoChild]
  /\ UNCHANGED <<authorityVars, privateTip, record, localVars, faults, env, historyVars>>

\* Mutant: a swap of unknown outcome is taken for a lost race ...
UnknownIsConflict(p) ==
  /\ pc[p] = "wait_cas"
  /\ Fault
  /\ Stop(p, "PUBLISH_CONFLICT")
  /\ UNCHANGED <<authorityVars, privateTip, record, child, localVars, env, historyVars>>

\* ... and (another mutant) its transaction is given up.
UnknownIsAborted(p) ==
  /\ pc[p] = "wait_cas"
  /\ Fault
  /\ Proceed(p, "write_conflict")
  /\ UNCHANGED <<authorityVars, privateTip, record, child, localVars, env, historyVars>>

\* Timeout or lost status: the child is killed before or after its swap, or
\* cannot be killed.
CasUnknown(p) ==
  /\ pc[p] = "wait_cas"
  /\ Fault
  /\ Stop(p, "PUBLISH_RECOVERY_REQUIRED")
  /\ child' \in {child, [child EXCEPT ![sess[p]] = NoChild]}
  /\ UNCHANGED <<authorityVars, privateTip, record, localVars, env, historyVars>>

WriteCommitted(p) ==
  /\ ReplaceJournal(p, "write_committed", WithJournal(p, "CasCommitted"),
                    "finalize", "PUBLISH_COMMITTED_RECOVERY_REQUIRED")
  /\ UNCHANGED landed

(***************************************************************************)
(* abort_publish_conflict and finalize_committed_publish.                  *)
(***************************************************************************)
WriteConflict(p) ==
  /\ ReplaceJournal(p, "write_conflict", Aborted(p), "return_conflict",
                    "PUBLISH_RECOVERY_REQUIRED")
  /\ UNCHANGED landed

Finalize(p) ==
  /\ ReplaceJournal(p, "finalize", [Aborted(p) EXCEPT !.expectedOld = cap[p].tx.new],
                    "return_success", "PUBLISH_COMMITTED_RECOVERY_REQUIRED")
  /\ UNCHANGED landed

Return(p) ==
  \/ Check(p, "return_conflict", FALSE, "idle", "PUBLISH_CONFLICT")
  \/ Check(p, "return_success", FALSE, "idle", "success")

(***************************************************************************)
(* Failures.                                                               *)
(***************************************************************************)
GitSteps == {"audit", "read_target", "read_private", "same_closure", "same_config",
             "same_private", "same_target", "idle_unchecked", "idle_target",
             "prep_config", "prep_unchecked", "prep_private", "prep_target",
             "post_config", "post_private", "post_closure", "imp_config",
             "imp_private", "imp_closure", "imp_target", "imp_unchecked"}

\* A git child of a check cannot be spawned, times out or answers garbage.
GitFails(p) ==
  /\ pc[p] \in GitSteps
  /\ Fault
  /\ Stop(p, "PUBLISH_VERIFY_FAILED")
  /\ UNCHANGED <<authorityVars, privateTip, record, child, localVars, env, historyVars>>

\* The publisher is killed; an update-ref child keeps running.
Crash(p) ==
  /\ pc[p] # "idle"
  /\ Fault
  /\ Stop(p, "none")
  /\ UNCHANGED <<authorityVars, privateTip, record, child, localVars, env, historyVars>>

(***************************************************************************)
(* Other writers of the authority and programs in the sessions.            *)
(***************************************************************************)
EnvStep == env < MaxEnv /\ env' = env + 1

\* A push, a reset or a branch deletion by somebody else.
OtherWriter(c) ==
  /\ EnvStep
  /\ target # c
  /\ target' = c
  /\ objects' = objects \cup Closure(c)
  /\ UNCHANGED <<config, checkedOut, privateTip, record, lease, child, pc, result,
                 localVars, faults, historyVars>>

\* git gc in the authority: what no ref reaches may go.
Prune ==
  /\ EnvStep
  /\ objects' = objects \cap Closure(target)
  /\ objects' # objects
  /\ UNCHANGED <<target, config, checkedOut, privateTip, record, lease, child, pc,
                 result, localVars, faults, historyVars>>

EditAuthority ==
  /\ EnvStep
  /\ \/ config' \in Configs \ {config} /\ UNCHANGED checkedOut
     \/ checkedOut' = ~checkedOut /\ UNCHANGED config
  /\ UNCHANGED <<target, objects, privateTip, record, lease, child, pc, result,
                 localVars, faults, historyVars>>

\* A commit, reset or branch deletion in the session's worktree.
MovePrivate(s, c) ==
  /\ EnvStep
  /\ privateTip[s] # c
  /\ privateTip' = [privateTip EXCEPT ![s] = c]
  /\ UNCHANGED <<authorityVars, record, lease, child, pc, result, localVars,
                 faults, historyVars>>

(***************************************************************************)
(* Specification.                                                          *)
(***************************************************************************)
Init ==
  /\ target \in Tips
  /\ objects = Closure(target)
  /\ config \in Configs
  /\ checkedOut = FALSE
  /\ privateTip \in [Sessions -> Commits]
  /\ record = [s \in Sessions |-> [journal |-> "Idle", tx |-> NoTx, expectedOld |-> target]]
  /\ lease = [s \in Sessions |-> {}]
  /\ child = [s \in Sessions |-> NoChild]
  /\ pc = [p \in Procs |-> "idle"]
  /\ sess \in [Procs -> Sessions]
  /\ cap = [p \in Procs |-> record[sess[p]]]
  /\ fresh = [p \in Procs |-> FALSE]
  /\ obs = [p \in Procs |-> NoTx]
  /\ result = [p \in Procs |-> "none"]
  /\ faults = 0 /\ env = 0
  /\ landed = [s \in Sessions |-> 0]
  /\ moved = [p \in Procs |-> FALSE]

\* A publisher's own steps.
Step(p) ==
  \/ AcquireLease(p) \/ Revalidate(p)
  \/ AuditConfig(p) \/ ReadTarget(p) \/ ReadPrivate(p) \/ SameTip(p) \/ IdleChecks(p)
  \/ WritePrepared(p) \/ PreparedChecks(p) \/ ImportObjects(p) \/ WriteImported(p)
  \/ ImportedChecks(p) \/ WriteAttempted(p) \/ SpawnCas(p) \/ CasReturns(p)
  \/ WriteCommitted(p) \/ WriteConflict(p) \/ Finalize(p) \/ Return(p)

Failure(p) == GitFails(p) \/ Crash(p) \/ CasUnknown(p)

Environment ==
  \/ \E c \in Tips : OtherWriter(c)
  \/ Prune
  \/ EditAuthority
  \/ \E s \in Sessions, c \in Tips : MovePrivate(s, c)

Next ==
  \/ \E p \in Procs, s \in Sessions : Start(p, s)
  \/ \E p \in Procs : Step(p) \/ Failure(p)
  \/ \E s \in Sessions : ChildApplies(s) \/ ChildRefuses(s)
  \/ Environment

Spec == Init /\ [][Next]_vars

\* The code's steps are taken when they can be; that a user publishes again is
\* the one assumption that is not about the code.
Fairness ==
  /\ \A p \in Procs : WF_vars(Step(p))
  /\ \A p \in Procs, s \in Sessions : WF_vars(Start(p, s))
  /\ \A s \in Sessions : WF_vars(ChildApplies(s) \/ ChildRefuses(s))

FairSpec == Spec /\ Fairness

(***************************************************************************)
(* Properties.                                                             *)
(***************************************************************************)
TypeOK ==
  /\ target \in Tips /\ objects \subseteq Commits
  /\ config \in Configs /\ checkedOut \in BOOLEAN
  /\ privateTip \in [Sessions -> Tips]
  /\ record \in [Sessions -> Records]
  /\ lease \in [Sessions -> SUBSET Procs]
  /\ child \in [Sessions -> Children]
  /\ pc \in [Procs -> Locations]
  /\ sess \in [Procs -> Sessions]
  /\ cap \in [Procs -> Records]
  /\ fresh \in [Procs -> BOOLEAN]
  /\ obs \in [Procs -> Txs]
  /\ result \in [Procs -> Codes]
  /\ faults \in Nat /\ env \in Nat
  /\ landed \in [Sessions -> Nat]
  /\ moved \in [Procs -> BOOLEAN]

\* From its revalidation to its exit a publisher is the only one at work on its
\* session, and the record it acts on is the one on disk: nobody publishes from a
\* journal another publisher has moved on (lease, revalidate_ready_lease).
SoleActor ==
  \A p \in Procs : pc[p] \in Critical =>
    /\ fresh[p] /\ cap[p] = record[sess[p]]
    /\ \A q \in Procs \ {p} : sess[q] = sess[p] => pc[q] \notin Critical

\* No update-ref child runs, or has run unseen, unless the durable fence
\* CasAttempted says so with that child's arguments: whatever crashes in
\* between, the next publish knows the outcome is not its to decide.
CasFenced ==
  \A s \in Sessions : child[s].st # "none" =>
    /\ record[s].journal = "CasAttempted"
    /\ record[s].tx.new = child[s].new /\ record[s].tx.old = child[s].old

\* One transaction moves the authority's ref at most once, over all the
\* processes and retries it takes, and the journal is never wrong about it: a
\* resumable journal has not moved the ref, a committed one has.
CasOnce ==
  \A s \in Sessions :
    /\ landed[s] <= 1
    /\ record[s].journal \in {"Prepared", "ObjectsImported"} => landed[s] = 0
    /\ record[s].journal = "CasCommitted" => landed[s] = 1

\* A call that ends with one of the definite errors has not moved the ref:
\* only the two recovery codes may hide a swap that went through.
DefiniteErrors == Codes \ {"none", "success", "PUBLISH_RECOVERY_REQUIRED",
                           "PUBLISH_COMMITTED_RECOVERY_REQUIRED"}
DefiniteErrorMovedNothing ==
  \A p \in Procs : result[p] \in DefiniteErrors => ~moved[p]

\* Why these hold, in a form every step preserves (PublishProofs).  A publisher
\* past its lease is alone on its session; what it holds is the record on disk; the
\* journal is one of those its place in the code is written for; a swap has landed
\* only where the journal, the child or the publisher's place can tell.
JournalsAt(l) ==
  CASE l \in IdlePath \cup {"return_conflict", "return_success"} -> {"Idle"}
    [] l \in PreparedPath     -> {"Prepared"}
    [] l \in ImportedPath     -> {"ObjectsImported"}
    [] l \in AttemptedPath    -> {"CasAttempted"}
    [] l = "write_conflict"   -> {"Prepared", "ObjectsImported"}
    [] l = "finalize"         -> {"CasCommitted"}

LeaseInv ==
  \A p \in Procs : pc[p] \in Critical \cup {"revalidate"} => lease[sess[p]] = {p}

RecordInv ==
  \A p \in Procs :
    /\ fresh[p] => cap[p] = record[sess[p]]
    /\ pc[p] \in Critical => fresh[p] /\ cap[p].journal \in JournalsAt(pc[p])

ChildInv ==
  /\ CasFenced
  /\ \A p \in Procs :
       pc[p] \in {"spawn_cas", "write_committed"} => child[sess[p]].st = "none"

LandedInv ==
  /\ CasOnce
  /\ \A s \in Sessions :
       /\ child[s].st = "running" => landed[s] = 0
       /\ child[s].st = "applied" => landed[s] = 1
  /\ \A p \in Procs :
       /\ pc[p] = "spawn_cas" => landed[sess[p]] = 0
       /\ pc[p] = "write_committed" => landed[sess[p]] = 1

\* Places a publisher reaches after the swap of its own call, or without one.
Late == {"wait_cas", "write_committed", "finalize", "return_success"}
MovedInv ==
  /\ DefiniteErrorMovedNothing
  /\ \A p \in Procs : pc[p] # "idle" =>
       /\ result[p] = "none"
       /\ pc[p] \notin Late => ~moved[p]

IInv == LeaseInv /\ RecordInv /\ ChildInv /\ LandedInv /\ MovedInv

\* What the Idle path is about to freeze is a fast-forward of what it has read.
ObsInv ==
  \A p \in Procs : pc[p] \in {"idle_unchecked", "idle_target", "write_prepared"} =>
    /\ obs[p].new \in Commits
    /\ obs[p].old = NoCommit \/ <<obs[p].old, obs[p].new>> \in Ancestry

\* A transaction that can be resumed is: once the user keeps the private tip, the
\* configuration, the checkout and the imported objects as the journal froze
\* them, repeated publishes bring it to Idle or to the CAS fence.
Restored(s) ==
  LET r == record[s]
  IN  r.journal \in {"Prepared", "ObjectsImported"} =>
        /\ privateTip[s] = r.tx.new
        /\ config = r.tx.cfg
        /\ ~checkedOut
        /\ r.journal = "ObjectsImported" => r.tx.new \in objects
Settled(s) == record[s].journal \in {"Idle", "CasAttempted"}
ResumableSettles ==
  \A s \in Sessions : (<>[]Restored(s)) => []<>Settled(s)

\* src/src/main.rs says that if another writer changes the target first, publish
\* exits non-zero, "rebase or merge in the session, then retry".  With no fault at
\* all, a writer that comes first inside the last window leaves the fence up, and
\* every later publish, exec and remove of the session is refused.
LostRaceCanRetry ==
  \A p \in Procs :
    pc[p] = "idle" /\ result[p] = "PUBLISH_RECOVERY_REQUIRED" /\ faults = 0 =>
      record[sess[p]].journal # "CasAttempted"

\* The promise of the whole transaction: PublishTarget.
Phase(s) ==
  IF record[s].journal = "Idle" THEN "closed"
  ELSE IF landed[s] = 0 THEN "open" ELSE "landed"
Promise == INSTANCE PublishTarget WITH
  phase <- [s \in Sessions |-> Phase(s)],
  frozen <- [s \in Sessions |-> [new |-> record[s].tx.new, old |-> record[s].tx.old]],
  expected <- [s \in Sessions |-> record[s].expectedOld]
Promised == Promise!Spec
=============================================================================
