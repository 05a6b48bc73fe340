------------------------- MODULE TemplateLifecycle -------------------------
(***************************************************************************)
(* The life of the sealed trees that sessions are cloned from:             *)
(*                                                                         *)
(*   absent -> Prepared -> Materializing -> Publishing -> Ready            *)
(*          -> Tombstoned -> absent                                        *)
(*                                                                         *)
(* create builds the template it needs, or goes on with one that another   *)
(* create left unfinished; gc retires the templates no session needs.  Both*)
(* hold the flock on HOME from start to end and may be killed anywhere;    *)
(* sessions are removed beside them, without that lock.  A template has    *)
(* three things on disk: its record, its tree (a directory at one of three *)
(* names, with a mode) and the temporaries of record transactions.         *)
(***************************************************************************)
EXTENDS Naturals, FiniteSets

CONSTANTS
  Procs,      \* processes
  Keys,       \* template keys
  Dirs,       \* directory inodes
  Sessions,   \* sessions
  NoProc, NoKey, NoDir,
  Unseals,    \* macOS: a sealed root has to be made writable to be renamed
  MaxFaults   \* bound: kills and failed system calls

ASSUME NoneAssumption   == NoProc \notin Procs /\ NoKey \notin Keys /\ NoDir \notin Dirs
ASSUME UnsealAssumption == Unseals \in BOOLEAN
ASSUME BoundAssumption  == MaxFaults \in Nat

\* TemplatePayload.  by is the process whose identifier is in building_name, dir the
\* root_identity or the root of the sealed receipt.
Payload(st, by, dir) == [st |-> st, by |-> by, dir |-> dir]
Absent == Payload("Absent", NoProc, NoDir)
Torn   == Payload("Torn", NoProc, NoDir)
Payloads ==
  {Absent}
    \cup [st : {"Prepared"}, by : Procs, dir : {NoDir}]
    \cup [st : {"Materializing", "Publishing"}, by : Procs, dir : Dirs]
    \cup [st : {"Ready", "Tombstoned"}, by : {NoProc}, dir : Dirs]

VARIABLES
  rec,        \* [Keys -> Payloads]: the template records
  at,         \* [Keys -> [Names -> Dirs \cup {NoDir}]]: the names of a template's tree
  content,    \* [Dirs -> Contents]
  mode,       \* [Dirs -> Modes]: permission bits of a root directory
  session,    \* [Sessions -> ...]: the template a session's record names, and its root
  home,       \* SUBSET Procs: holders of the HOME lock
  lease,      \* [Procs -> Dirs \cup {NoDir}]: the template root a process has flocked
  pc, op,     \* [Procs -> ...]: where a process is, and in which command
  key,        \* [Procs -> Keys \cup {NoKey}]: the template it is working on
  todo,       \* [Procs -> SUBSET Keys]: templates gc has yet to look at
  cap,        \* [Procs -> Payloads]: the record it goes by
  txn,        \* [Procs -> TxnPhases]: how far its record transaction is
  tmp,        \* [Procs -> [key, new]]: its record temporary on disk, dead or alive
  result,     \* [Procs -> Results]
  faults,
  needed      \* history, [Procs -> SUBSET Keys]: templates in use when gc began

diskVars == <<at, content, mode>>
procVars == <<key, todo, needed>>
vars == <<rec, at, content, mode, session, home, lease, pc, op, key, todo, cap, txn,
          tmp, result, faults, needed>>

Names     == {"building", "root", "tombstone"}
Contents  == {"unused", "empty", "partial", "complete", "clearing"}
Modes     == {"private", "sealed", "unsealed"}
TxnPhases == {"none", "torn", "written", "exchanged"}
Results   == {"none", "ok", "failed"}

NoTmp     == [key |-> NoKey, new |-> Absent]
NoSession == [key |-> NoKey, dir |-> NoDir]

CreateSteps == {"acquire", "prepare", "advance", "materializing", "fill", "finish", "seal",
                "publishing", "publish", "unseal", "rename", "reseal", "ready", "share",
                "session"}
GcSteps == {"census", "sweep", "next", "lease", "reach", "tombstone", "retire",
            "inspect_retired", "retired_lease", "inspect", "tomb_lease", "tomb_reach",
            "gone_reach", "untomb", "promote", "recheck", "clear", "cleared", "drop"}
Locations == {"idle", "home"} \cup CreateSteps \cup GcSteps

(***************************************************************************)
(* One process.                                                            *)
(***************************************************************************)
Goto(p, to) ==
  /\ pc' = [pc EXCEPT ![p] = to]
  /\ txn' = [txn EXCEPT ![p] = "none"]
  /\ UNCHANGED <<result, home, lease>>

\* Its locks go with the process; what it has on disk stays.
Exit(p, code) ==
  /\ pc' = [pc EXCEPT ![p] = "idle"]
  /\ txn' = [txn EXCEPT ![p] = "none"]
  /\ result' = [result EXCEPT ![p] = code]
  /\ home' = home \ {p}
  /\ lease' = [lease EXCEPT ![p] = NoDir]

Fault == faults < MaxFaults /\ faults' = faults + 1

Check(p, from, ok, to, code) ==
  /\ pc[p] = from
  /\ IF ok THEN Goto(p, to) ELSE Exit(p, code)
  /\ UNCHANGED <<rec, diskVars, session, op, procVars, cap, tmp, faults>>

\* A process identifier is used again once nothing on disk bears it.
Unborne(p) == tmp[p] = NoTmp /\ \A k \in Keys : rec[k].by # p

Start(p, o) ==
  /\ pc[p] = "idle" /\ Unborne(p)
  /\ pc' = [pc EXCEPT ![p] = "home"]
  /\ op' = [op EXCEPT ![p] = o]
  /\ \E k \in Keys : key' = [key EXCEPT ![p] = IF o = "create" THEN k ELSE NoKey]
  /\ cap' = [cap EXCEPT ![p] = Absent]
  /\ result' = [result EXCEPT ![p] = "none"]
  /\ todo' = [todo EXCEPT ![p] = {}] /\ needed' = [needed EXCEPT ![p] = {}]
  /\ UNCHANGED <<rec, diskVars, session, home, lease, txn, tmp, faults>>

\* Mutant: the lock on HOME is shared.
LockHomeShared(p) ==
  /\ pc[p] = "home"
  /\ home' = home \cup {p}
  /\ pc' = [pc EXCEPT ![p] = IF op[p] = "gc" THEN "census" ELSE "acquire"]
  /\ UNCHANGED <<rec, diskVars, session, lease, op, procVars, cap, txn, tmp, result, faults>>

LockHome(p) ==
  /\ pc[p] = "home" /\ home = {}
  /\ home' = {p}
  /\ pc' = [pc EXCEPT ![p] = IF op[p] = "gc" THEN "census" ELSE "acquire"]
  /\ UNCHANGED <<rec, diskVars, session, lease, op, procVars, cap, txn, tmp, result, faults>>

\* What a tree is when its root is under a name of template k.
Vacant(k, n)    == at[k][n] = NoDir
Only(k, n, d)   == d # NoDir /\ at[k] = [m \in Names |-> IF m = n THEN d ELSE NoDir]
Sealed(d)       == content[d] = "complete" /\ mode[d] = "sealed"
Publishable(d)  == content[d] = "complete"
                     /\ mode[d] \in {"sealed"} \cup (IF Unseals THEN {"unsealed"} ELSE {})
\* validate_template_tombstone_root: a tree is verified while its root is still sealed.
Condemned(d)    == mode[d] = "private" \/ Sealed(d)

MoveName(k, from, to) == [at EXCEPT ![k][from] = NoDir, ![k][to] = at[k][from]]

(***************************************************************************)
(* A record transaction.  Only the holder of HOME writes template records, *)
(* so a comparison that fails means damage from outside and ends the call. *)
(***************************************************************************)
Within(p, phase) ==
  /\ txn' = [txn EXCEPT ![p] = phase]
  /\ UNCHANGED <<pc, result, home, lease>>

\* RecordTxn::begin compares, makes the temporary (O_EXCL) and writes it ...
TxnBegin(p, new) ==
  \/ /\ txn[p] = "none"
     /\ IF rec[key[p]] = cap[p]
          THEN tmp' = [tmp EXCEPT ![p] = [key |-> key[p], new |-> Torn]] /\ Within(p, "torn")
          ELSE Exit(p, "failed") /\ UNCHANGED tmp
  \/ /\ txn[p] = "torn"
     /\ tmp' = [tmp EXCEPT ![p].new = new]
     /\ Within(p, "written")

\* ... commit_new, if no record is expected, renames it and replaces nothing,
\* commit_exchange compares again and leaves the displaced record at its name ...
TxnCommit(p, to) ==
  /\ txn[p] = "written"
  /\ IF rec[key[p]] = cap[p]
       THEN /\ rec' = [rec EXCEPT ![key[p]] = tmp[p].new]
            /\ cap' = [cap EXCEPT ![p] = tmp[p].new]
            /\ IF cap[p] = Absent
                 THEN tmp' = [tmp EXCEPT ![p] = NoTmp] /\ Goto(p, to)
                 ELSE tmp' = [tmp EXCEPT ![p].new = rec[key[p]]] /\ Within(p, "exchanged")
       ELSE /\ tmp' = [tmp EXCEPT ![p] = NoTmp]
            /\ Exit(p, "failed")
            /\ UNCHANGED <<rec, cap>>

\* ... which is unlinked at last.
TxnUnlink(p, to) ==
  /\ txn[p] = "exchanged"
  /\ tmp' = [tmp EXCEPT ![p] = NoTmp]
  /\ Goto(p, to)

\* A failure before the commit removes the temporary.
TxnAbort(p) ==
  /\ txn[p] \in {"torn", "written"} /\ Fault
  /\ tmp' = [tmp EXCEPT ![p] = NoTmp]
  /\ Exit(p, "failed")

WriteRecord(p, from, new, to) ==
  /\ pc[p] = from
  /\ \/ TxnBegin(p, new) /\ UNCHANGED <<rec, cap, faults>>
     \/ TxnCommit(p, to) /\ UNCHANGED faults
     \/ TxnUnlink(p, to) /\ UNCHANGED <<rec, cap, faults>>
     \/ TxnAbort(p) /\ UNCHANGED <<rec, cap>>
  /\ UNCHANGED <<diskVars, session, op, procVars>>

(***************************************************************************)
(* create: template::acquire.                                              *)
(***************************************************************************)
\* Mutant: only a Prepared template is gone on with.
AcquireRefuses(p) ==
  LET k == key[p]
  IN  /\ pc[p] = "acquire"
      /\ cap' = [cap EXCEPT ![p] = rec[k]]
      /\ \/ rec[k] = Absent        /\ Goto(p, "prepare")
         \/ rec[k].st = "Prepared" /\ Goto(p, "advance")
         \/ rec[k].st = "Ready"    /\ Goto(p, "share")
         \/ rec[k].st \in {"Materializing", "Publishing", "Tombstoned"} /\ Exit(p, "failed")
      /\ UNCHANGED <<rec, diskVars, session, op, procVars, tmp, faults>>

\* The match on the record of the key.
Acquire(p) ==
  LET k == key[p]
  IN  /\ pc[p] = "acquire"
      /\ cap' = [cap EXCEPT ![p] = rec[k]]
      /\ \/ /\ rec[k] = Absent
            /\ IF Vacant(k, "building") /\ Vacant(k, "root")
                 THEN Goto(p, "prepare") ELSE Exit(p, "failed")
         \/ rec[k].st = "Prepared"   /\ Goto(p, "advance")
         \/ rec[k].st = "Publishing" /\ Goto(p, "publish")
         \/ rec[k].st = "Ready"      /\ Goto(p, "share")
         \* incomplete_materializing only says which error it is.
         \/ rec[k].st \in {"Materializing", "Tombstoned"} /\ Exit(p, "failed")
      /\ UNCHANGED <<rec, diskVars, session, op, procVars, tmp, faults>>

Prepare(p) == WriteRecord(p, "prepare", Payload("Prepared", p, NoDir), "advance")

\* create_directory
MakeRoot(p) ==
  LET k == key[p]
  IN  /\ pc[p] = "advance" /\ Vacant(k, "building") /\ Vacant(k, "root")
      /\ \E d \in Dirs :
           /\ content[d] = "unused"
           /\ at' = [at EXCEPT ![k]["building"] = d]
           /\ content' = [content EXCEPT ![d] = "empty"]
           /\ mode' = [mode EXCEPT ![d] = "private"]
      /\ UNCHANGED <<rec, session, home, lease, pc, op, procVars, cap, txn, tmp, result, faults>>

\* advance_prepared: the building root is made, or is there and must be empty.
Advance(p) ==
  LET k == key[p]  d == at[k]["building"]
  IN  \/ MakeRoot(p)
      \/ /\ pc[p] = "advance" /\ ~(Vacant(k, "building") /\ Vacant(k, "root"))
         /\ Check(p, "advance",
                  Vacant(k, "root") /\ content[d] = "empty" /\ mode[d] = "private",
                  "materializing", "failed")

Materializing(p) ==
  WriteRecord(p, "materializing",
              Payload("Materializing", cap[p].by, at[key[p]]["building"]), "fill")

\* materialize writes the entries one by one; a second listing that differs, a path
\* collision or a worker's failure leaves what is there.
Fill(p) ==
  LET d == cap[p].dir
  IN  /\ \/ /\ pc[p] = "fill"
            /\ content' = [content EXCEPT ![d] = "partial"]
            /\ Goto(p, "finish")
            /\ UNCHANGED faults
         \/ /\ pc[p] = "finish"
            /\ content' = [content EXCEPT ![d] = "complete"]
            /\ Goto(p, "seal")
            /\ UNCHANGED faults
         \/ /\ pc[p] = "finish" /\ Fault
            /\ Exit(p, "failed")
            /\ UNCHANGED content
      /\ UNCHANGED <<rec, at, mode, session, op, procVars, cap, tmp>>

\* seal_tree hashes the tree and takes away write permission, the root's last.
Seal(p) ==
  /\ pc[p] = "seal"
  /\ mode' = [mode EXCEPT ![cap[p].dir] = "sealed"]
  /\ Goto(p, "publishing")
  /\ UNCHANGED <<rec, at, content, session, op, procVars, cap, tmp, faults>>

Publishing(p) ==
  WriteRecord(p, "publishing", Payload("Publishing", cap[p].by, cap[p].dir), "publish")

\* Mutant: a root that has its final name counts as sealed.
PublishTrustsName(p) ==
  LET k == key[p]  d == cap[p].dir
  IN  Check(p, "publish", Publishable(d) /\ (Only(k, "building", d) \/ Only(k, "root", d)),
            IF Vacant(k, "building") THEN "ready" ELSE "unseal", "failed")

\* publish_template, from before or from after the rename.
PublishTemplate(p) ==
  LET k == key[p]  d == cap[p].dir
  IN  Check(p, "publish", Publishable(d) /\ (Only(k, "building", d) \/ Only(k, "root", d)),
            IF Vacant(k, "building") THEN "reseal" ELSE "unseal", "failed")

\* prepare_publishing_root; rename_no_replace; seal_publishing_root.  A rename that
\* fails seals the root again and ends the call.
RenameReady(p) ==
  LET k == key[p]  d == cap[p].dir
  IN  /\ \/ /\ pc[p] = "unseal"
            /\ mode' = [mode EXCEPT ![d] = IF Unseals THEN "unsealed" ELSE "sealed"]
            /\ Goto(p, "rename")
            /\ UNCHANGED <<at, faults>>
         \/ /\ pc[p] = "rename"
            /\ at' = MoveName(k, "building", "root")
            /\ Goto(p, "reseal")
            /\ UNCHANGED <<mode, faults>>
         \/ /\ pc[p] = "rename" /\ Fault
            /\ mode' = [mode EXCEPT ![d] = "sealed"]
            /\ Exit(p, "failed")
            /\ UNCHANGED at
         \/ /\ pc[p] = "reseal"
            /\ mode' = [mode EXCEPT ![d] = "sealed"]
            /\ Goto(p, "ready")
            /\ UNCHANGED <<at, faults>>
      /\ UNCHANGED <<rec, content, session, op, procVars, cap, tmp>>

Ready(p) == WriteRecord(p, "ready", Payload("Ready", NoProc, cap[p].dir), "share")

(***************************************************************************)
(* Leases and the sessions.                                                *)
(***************************************************************************)
\* ready_template: verify the tree, LOCK_SH, revalidate_template_capability.  HOME
\* leaves room for one holder only, so it is not waited for.
Share(p) ==
  LET k == key[p]  d == cap[p].dir
  IN  /\ pc[p] = "share"
      /\ IF at[k]["root"] = d /\ Sealed(d) /\ rec[k] = cap[p]
           THEN /\ lease' = [lease EXCEPT ![p] = d]
                /\ pc' = [pc EXCEPT ![p] = "session"]
                /\ UNCHANGED <<txn, result, home>>
           ELSE Exit(p, "failed")
      /\ UNCHANGED <<rec, diskVars, session, op, procVars, cap, tmp, faults>>

\* The rest of create.  It is refused; or it finds the session made already; or it writes a
\* record that names the template, which stays when create fails or dies after it
\* (retain_creating) and is taken back otherwise (RemoveSession).
CreateSession(p) ==
  LET made == [key |-> key[p], dir |-> cap[p].dir]
  IN  /\ pc[p] = "session"
      /\ \/ /\ \E s \in Sessions : session[s] = NoSession /\ session' = [session EXCEPT ![s] = made]
            /\ \/ Exit(p, "ok") /\ UNCHANGED faults
               \/ Exit(p, "failed") /\ Fault
         \/ /\ \E s \in Sessions : session[s] = made
            /\ Exit(p, "ok") /\ UNCHANGED <<session, faults>>
         \/ Exit(p, "failed") /\ UNCHANGED <<session, faults>>
      /\ UNCHANGED <<rec, diskVars, op, procVars, cap, tmp>>

\* remove, or a create that takes its own session back.
RemoveSession(s) ==
  /\ session[s] # NoSession
  /\ session' = [session EXCEPT ![s] = NoSession]
  /\ UNCHANGED <<rec, diskVars, home, lease, pc, op, procVars, cap, txn, tmp, result, faults>>

(***************************************************************************)
(* gc                                                                      *)
(***************************************************************************)
\* template_transition and template_precedes, which asks in both directions.
Transition(a, b) ==
  \/ a.st = "Prepared" /\ b.st = "Materializing" /\ a.by = b.by
  \/ a.st = "Materializing" /\ b.st = "Publishing" /\ a.by = b.by
  \/ a.st = "Publishing" /\ b.st = "Ready" /\ a.dir = b.dir
  \/ a.st = "Ready" /\ b.st = "Tombstoned" /\ a.dir = b.dir
Precedes(a, b) == Transition(a, b) \/ Transition(b, a)

\* diagnose_template_capability, and nothing at a name no record authorises.
Accounted(k) ==
  LET d == rec[k].dir
  IN  \/ rec[k] = Absent /\ \A n \in Names : Vacant(k, n)
      \/ rec[k].st = "Ready" /\ Only(k, "root", d) /\ Sealed(d)
      \/ /\ rec[k].st = "Tombstoned"
         /\ \/ \A n \in Names : Vacant(k, n)
            \/ (Only(k, "root", d) \/ Only(k, "tombstone", d)) /\ Condemned(d)

\* validate_session_template
Valid(s) ==
  LET k == session[s].key  d == session[s].dir
  IN  session[s] # NoSession =>
        /\ rec[k].st \in {"Ready", "Tombstoned"} /\ rec[k].dir = d
        /\ Only(k, "root", d) \/ (rec[k].st = "Tombstoned" /\ Only(k, "tombstone", d))
        /\ Sealed(d)

Temporaries  == {q \in Procs : tmp[q] # NoTmp}
Reclaimable  == \A q \in Temporaries : Precedes(tmp[q].new, rec[tmp[q].key])
Explained    == Reclaimable /\ (\A k \in Keys : Accounted(k)) /\ (\A s \in Sessions : Valid(s))
Reachable(k) == \E s \in Sessions : session[s].key = k

\* Mutant: gc looks at Ready templates only.
CensusOfReady(p) ==
  /\ pc[p] = "census"
  /\ IF Explained
       THEN /\ todo' = [todo EXCEPT ![p] = {k \in Keys : rec[k].st = "Ready"}]
            /\ needed' = [needed EXCEPT ![p] = {k \in Keys : Reachable(k)}]
            /\ Goto(p, "sweep")
       ELSE Exit(p, "failed") /\ UNCHANGED <<todo, needed>>
  /\ UNCHANGED <<rec, diskVars, session, op, key, cap, tmp, faults>>

\* session_census and template_census.  The code takes the second one twice; what it
\* reads cannot change under HOME.
Census(p) ==
  /\ pc[p] = "census"
  /\ IF Explained
       THEN /\ todo' = [todo EXCEPT ![p] = {k \in Keys : rec[k] # Absent}]
            /\ needed' = [needed EXCEPT ![p] = {k \in Keys : Reachable(k)}]
            /\ Goto(p, "sweep")
       ELSE Exit(p, "failed") /\ UNCHANGED <<todo, needed>>
  /\ UNCHANGED <<rec, diskVars, session, op, key, cap, tmp, faults>>

\* Mutant: temporaries are counted and not removed.
SweepNothing(p) ==
  /\ pc[p] = "sweep"
  /\ Goto(p, "next")
  /\ UNCHANGED <<rec, diskVars, session, op, procVars, cap, tmp, faults>>

\* clean_predecessor_temporary, one after the other.
Sweep(p) ==
  /\ pc[p] = "sweep"
  /\ \/ \E q \in Temporaries :
          /\ tmp' = [tmp EXCEPT ![q] = NoTmp]
          /\ Goto(p, "sweep")
     \/ Temporaries = {} /\ Goto(p, "next") /\ UNCHANGED tmp
  /\ UNCHANGED <<rec, diskVars, session, op, procVars, cap, faults>>

\* The loop of gc over what the census found.
NextTemplate(p) ==
  /\ pc[p] = "next"
  /\ \/ \E k \in todo[p] :
          /\ key' = [key EXCEPT ![p] = k]
          /\ todo' = [todo EXCEPT ![p] = @ \ {k}]
          /\ cap' = [cap EXCEPT ![p] = rec[k]]
          /\ Goto(p, IF rec[k].st = "Ready" THEN "lease" ELSE "inspect")
     \/ todo[p] = {} /\ Exit(p, "ok") /\ UNCHANGED <<key, todo, cap>>
  /\ UNCHANGED <<rec, diskVars, session, op, tmp, faults, needed>>

\* LOCK_EX | LOCK_NB, then the capability again.  A Ready template that is leased is
\* skipped, a tombstone that is leased ends gc.
Lease(p, from, d, ok, to) ==
  /\ pc[p] = from
  /\ IF ok /\ rec[key[p]] = cap[p] /\ \A q \in Procs \ {p} : lease[q] # d
       THEN /\ lease' = [lease EXCEPT ![p] = d]
            /\ pc' = [pc EXCEPT ![p] = to]
            /\ UNCHANGED <<txn, result, home>>
       ELSE IF from = "lease" /\ ok /\ \E q \in Procs \ {p} : lease[q] = d
              THEN Goto(p, "next") ELSE Exit(p, "failed")
  /\ UNCHANGED <<rec, diskVars, session, op, procVars, cap, tmp, faults>>

Unlease(p, to) ==
  /\ lease' = [lease EXCEPT ![p] = NoDir]
  /\ pc' = [pc EXCEPT ![p] = to]
  /\ UNCHANGED <<txn, result, home>>

Release(p, to) ==
  /\ Unlease(p, to)
  /\ UNCHANGED <<rec, diskVars, session, op, procVars, cap, tmp, faults>>

\* Mutant: the sessions are not asked.
ReachNobody(p, from, to) ==
  /\ pc[p] = from
  /\ Goto(p, to)
  /\ UNCHANGED <<rec, diskVars, session, op, procVars, cap, tmp, faults>>

\* The session census is taken anew under the lease; a template in use is retained.
Reach(p, from, to) ==
  /\ pc[p] = from
  /\ IF Reachable(key[p])
       THEN Release(p, "next")
       ELSE /\ Goto(p, to)
            /\ UNCHANGED <<rec, diskVars, session, op, procVars, cap, tmp, faults>>

\* gc_ready_template and transition_template_tombstone; the lease is dropped between
\* the tombstone and its completion.
RetireReady(p) ==
  LET d == cap[p].dir
  IN  \/ Lease(p, "lease", d, at[key[p]]["root"] = d /\ Sealed(d), "reach")
      \/ Reach(p, "reach", "tombstone")
      \/ WriteRecord(p, "tombstone", Payload("Tombstoned", NoProc, d), "retire")
      \/ pc[p] = "retire" /\ Release(p, "inspect_retired")

\* complete_template_tombstone; a tombstone from the census is checked against the
\* sessions once more, one this gc has just written is not.
Inspect(p, from, leased, gone) ==
  LET k == key[p]  d == cap[p].dir
  IN  Check(p, from,
            \/ \A n \in Names : Vacant(k, n)
            \/ (Only(k, "root", d) \/ Only(k, "tombstone", d)) /\ Condemned(d),
            IF \A n \in Names : Vacant(k, n) THEN gone ELSE leased, "failed")

InspectTombstone(p) ==
  LET d == cap[p].dir
  IN  \/ Inspect(p, "inspect", "tomb_lease", "gone_reach")
      \/ Lease(p, "tomb_lease", d, Condemned(d), "tomb_reach")
      \/ Reach(p, "tomb_reach", "untomb")
      \/ Reach(p, "gone_reach", "drop")
      \/ Inspect(p, "inspect_retired", "retired_lease", "drop")
      \/ Lease(p, "retired_lease", d, Condemned(d), "untomb")

\* promote_template_tombstone; macOS makes the root private first.
Promote(p) ==
  LET k == key[p]  d == cap[p].dir
  IN  /\ \/ /\ pc[p] = "untomb"
            /\ mode' = [mode EXCEPT ![d] = IF Unseals THEN "private" ELSE @]
            /\ Goto(p, "promote")
            /\ UNCHANGED at
         \/ /\ pc[p] = "promote"
            /\ at' = IF Vacant(k, "tombstone") THEN MoveName(k, "root", "tombstone") ELSE at
            /\ Goto(p, "recheck")
            /\ UNCHANGED mode
      /\ UNCHANGED <<rec, content, session, op, procVars, cap, tmp, faults>>

\* remove_owned_tree_gc: the root is made writable, then the entries go, then the root.
RemoveTree(p) ==
  LET d == cap[p].dir
  IN  /\ \/ /\ pc[p] = "clear"
            /\ mode' = [mode EXCEPT ![d] = "private"]
            /\ content' = [content EXCEPT ![d] = "clearing"]
            /\ Goto(p, "cleared")
            /\ UNCHANGED at
         \/ /\ pc[p] = "cleared"
            /\ at' = [at EXCEPT ![key[p]]["tombstone"] = NoDir]
            /\ content' = [content EXCEPT ![d] = "unused"]
            /\ Goto(p, "drop")
            /\ UNCHANGED mode
      /\ UNCHANGED <<rec, session, op, procVars, cap, tmp, faults>>

\* remove_template_record; the lease goes with the call.
DropRecord(p) ==
  /\ pc[p] = "drop"
  /\ IF rec[key[p]] = cap[p]
       THEN rec' = [rec EXCEPT ![key[p]] = Absent] /\ Unlease(p, "next")
       ELSE Exit(p, "failed") /\ UNCHANGED rec
  /\ UNCHANGED <<diskVars, session, op, procVars, cap, tmp, faults>>

CompleteTombstone(p) ==
  \/ InspectTombstone(p)
  \/ Promote(p)
  \/ Check(p, "recheck", rec[key[p]] = cap[p] /\ Condemned(cap[p].dir), "clear", "failed")
  \/ RemoveTree(p)
  \/ DropRecord(p)

(***************************************************************************)
(* Specification.                                                          *)
(***************************************************************************)
\* The process is killed, or a call fails where nothing is left to undo.
Crash(p) ==
  /\ pc[p] # "idle" /\ Fault
  /\ Exit(p, "failed")
  /\ UNCHANGED <<rec, diskVars, session, op, procVars, cap, tmp>>

Init ==
  /\ rec = [k \in Keys |-> Absent]
  /\ at = [k \in Keys |-> [n \in Names |-> NoDir]]
  /\ content = [d \in Dirs |-> "unused"] /\ mode = [d \in Dirs |-> "private"]
  /\ session = [s \in Sessions |-> NoSession]
  /\ home = {} /\ lease = [p \in Procs |-> NoDir]
  /\ pc = [p \in Procs |-> "idle"] /\ op = [p \in Procs |-> "gc"]
  /\ key = [p \in Procs |-> NoKey] /\ todo = [p \in Procs |-> {}]
  /\ cap = [p \in Procs |-> Absent] /\ txn = [p \in Procs |-> "none"]
  /\ tmp = [p \in Procs |-> NoTmp]
  /\ result = [p \in Procs |-> "none"] /\ faults = 0
  /\ needed = [p \in Procs |-> {}]

CreateStep(p) ==
  \/ Acquire(p) \/ Prepare(p) \/ Advance(p) \/ Materializing(p) \/ Fill(p) \/ Seal(p)
  \/ Publishing(p) \/ PublishTemplate(p) \/ RenameReady(p) \/ Ready(p)
  \/ Share(p) \/ CreateSession(p)
GcStep(p) ==
  Census(p) \/ Sweep(p) \/ NextTemplate(p) \/ RetireReady(p) \/ CompleteTombstone(p)
Step(p) == CreateStep(p) \/ GcStep(p)

Next ==
  \/ \E p \in Procs : Start(p, "create") \/ Start(p, "gc")
  \/ \E p \in Procs : LockHome(p) \/ Step(p) \/ Crash(p)
  \/ \E s \in Sessions : RemoveSession(s)

Spec == Init /\ [][Next]_vars

\* A process that can go on does, and flock lets every waiter in at last.  That every
\* command is run again and again is the one assumption that is not about the code.
Fairness ==
  \A p \in Procs : WF_vars(Step(p)) /\ SF_vars(LockHome(p))
                     /\ SF_vars(Start(p, "create")) /\ SF_vars(Start(p, "gc"))

FairSpec == Spec /\ Fairness

(***************************************************************************)
(* Properties.                                                             *)
(***************************************************************************)
TypeOK ==
  /\ rec \in [Keys -> Payloads]
  /\ at \in [Keys -> [Names -> Dirs \cup {NoDir}]]
  /\ content \in [Dirs -> Contents] /\ mode \in [Dirs -> Modes]
  /\ session \in [Sessions -> {NoSession} \cup [key : Keys, dir : Dirs]]
  /\ home \subseteq Procs /\ lease \in [Procs -> Dirs \cup {NoDir}]
  /\ pc \in [Procs -> Locations] /\ op \in [Procs -> {"create", "gc"}]
  /\ key \in [Procs -> Keys \cup {NoKey}] /\ {todo, needed} \subseteq [Procs -> SUBSET Keys]
  /\ cap \in [Procs -> Payloads] /\ txn \in [Procs -> TxnPhases]
  /\ tmp \in [Procs -> {NoTmp} \cup [key : Keys, new : Payloads \cup {Torn}]]
  /\ result \in [Procs -> Results] /\ faults \in 0..MaxFaults

\* The template a session record names is Ready, and its sealed tree is whole and at its
\* name, whichever creates, removals and gcs ran or died beside it (gc_ready_template,
\* the HOME lock): the census that validates the session never meets anything else.
SessionTemplateWhole ==
  \A s \in Sessions : session[s] # NoSession =>
    LET k == session[s].key  d == session[s].dir
    IN  rec[k] = Payload("Ready", NoProc, d) /\ Only(k, "root", d) /\ Sealed(d)

\* At every point a process may die, the record is a true account of the tree: nothing
\* on disk without a record, an empty root while Prepared, a complete one from Publishing
\* on, a sealed one at its final name once Ready, and no entry missing before the
\* tombstone record is there and the root has its tombstone name.
RecordDescribesTree ==
  \A k \in Keys :
    LET d == rec[k].dir  b == at[k]["building"]
    IN  \/ rec[k] = Absent /\ \A n \in Names : Vacant(k, n)
        \/ /\ rec[k].st = "Prepared" /\ Vacant(k, "root") /\ Vacant(k, "tombstone")
           /\ ~Vacant(k, "building") => content[b] = "empty" /\ mode[b] = "private"
        \/ rec[k].st = "Materializing" /\ Only(k, "building", d)
        \/ /\ rec[k].st = "Publishing" /\ Publishable(d)
           /\ Only(k, "building", d) \/ Only(k, "root", d)
        \/ rec[k].st = "Ready" /\ Only(k, "root", d) /\ Sealed(d)
        \/ /\ rec[k].st = "Tombstoned"
           /\ \/ \A n \in Names : Vacant(k, n)
              \/ Only(k, "root", d) /\ content[d] = "complete"
              \/ Only(k, "tombstone", d) /\ Condemned(d)

\* A gc that reports success has done all of it: no temporary and no tombstone is left,
\* no template is half made, and every template it kept was in use when it began.
GcOkMeansClean ==
  [][\A p \in Procs :
       pc[p] \in GcSteps /\ pc'[p] = "idle" /\ result'[p] = "ok" =>
         /\ \A q \in Procs : tmp'[q] = NoTmp
         /\ \A k \in Keys : rec'[k] = Absent \/ (rec'[k].st = "Ready" /\ k \in needed[p])]_vars

\* A template that a killed create left Prepared or Publishing is taken up by another one, if
\* there is an identifier left for it, and does not stay at that stage: Publishing ends in
\* Ready.  (A create that goes on from Prepared may be killed in its turn and leave
\* Materializing, which acquire refuses.)
ResumableSettles ==
  \A k \in Keys : rec[k].st \in {"Prepared", "Publishing"}
                    ~> \/ rec[k].st \notin {"Prepared", "Publishing"}
                       \/ \A p \in Procs : ~Unborne(p)

\* If no session names a template from some point on, gc gets rid of it again and again,
\* wherever earlier gcs and creates were killed, unless the census meets, between two
\* commands, something it does not trust (gc, complete_template_tombstone).
GcReclaims ==
  \A k \in Keys :
    <>[](~Reachable(k)) => []<>(rec[k] = Absent \/ (home = {} /\ ~Explained))

(***************************************************************************)
(* What this promises.                                                     *)
(***************************************************************************)
StageOf(st) ==
  CASE st = "Absent" -> "none" [] st = "Ready" -> "offered" [] st = "Tombstoned" -> "going"
    [] OTHER -> "making"
TreeAt(k) ==
  IF ~Vacant(k, "building") THEN at[k]["building"]
  ELSE IF ~Vacant(k, "root") THEN at[k]["root"] ELSE at[k]["tombstone"]
Shape(d) == IF content[d] = "unused" THEN "none" ELSE IF Sealed(d) THEN "sealed" ELSE "open"

Stages == [k \in Keys |-> StageOf(rec[k].st)]
Trees  == [k \in Keys |-> TreeAt(k)]
Shapes == [d \in Dirs |-> Shape(d)]
Job    == [p \in Procs |-> IF pc[p] = "idle" THEN "none" ELSE op[p]]
Want   == [p \in Procs |-> IF Job[p] = "create" THEN key[p] ELSE NoKey]

Promise == INSTANCE TemplatePromise WITH
  stage <- Stages, tree <- Trees, shape <- Shapes, turn <- home, job <- Job, want <- Want,
  answer <- result

\* Wherever commands are killed, templates are made, offered, given up and reclaimed in turns
\* and in this order, the tree of one that is offered is not touched, and a success of
\* create or gc is worth what TemplatePromise says (acquire, gc, the lock on HOME).
Promised == Promise!Spec
=============================================================================
