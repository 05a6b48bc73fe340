------------------------------ MODULE StateRoot ------------------------------
(***************************************************************************)
(* The registry of authorities, $HOME/.git-vws: init, and the beginning of *)
(* create, which opens the registry as init does and looks for its         *)
(* authority.  Both hold an flock on HOME from before they look until they *)
(* end.  The lock on the root, which init takes next, meets nobody.        *)
(*                                                                         *)
(* A process makes the root at most once and stands for the directory it   *)
(* made.  A repository is a node, the identity of its directory, at one of *)
(* the canonical paths; a record is named for a path and says a node.      *)
(***************************************************************************)
EXTENDS Naturals, FiniteSets

CONSTANTS
  Procs,      \* processes; each makes one call
  Paths,      \* canonical paths
  Nodes,      \* identities of directories
  None,       \* nothing at a path, under a name, or holding the lock
  MaxMoves,   \* bound: repositories moved, replaced or deleted by others
  MaxFaults   \* bound: failed calls, kills and power cuts

ASSUME NameAssumption  == None \notin Procs \cup Nodes /\ Paths # {}
ASSUME BoundAssumption == MaxMoves \in Nat /\ MaxFaults \in Nat

VARIABLES
  live,     \* [Paths -> Nodes \cup {None}]: the repository at a path
  fs,       \* the root, its records and its temporaries, and whether it has containers
  disk,     \* what a power cut may leave of fs: a set that contains it
  home,     \* the process that holds the lock on HOME
  call, path, node,  \* what a process was asked, and the identity it found
  opened,   \* [Procs -> Procs \cup {None}]: the root a process has opened
  pc, result,
  found,    \* history: fs when a process got the lock
  moves, faults

vars == <<live, fs, disk, home, call, path, node, opened, pc, result, found, moves, faults>>
callVars == <<call, path, node>>

Calls == {"init", "create"}
Roots == [root : Procs \cup {None}, records : [Paths -> Nodes \cup {None}],
          tmp : SUBSET Procs, dirs : BOOLEAN]
NoRoot == [root |-> None, records |-> [a \in Paths |-> None], tmp |-> {}, dirs |-> FALSE]
Empty(r) == r.tmp = {} /\ ~r.dirs /\ \A a \in Paths : r.records[a] = None

\* duplicate: AUTHORITY_DUPLICATE.  drift: AUTHORITY_IDENTITY_DRIFT.  error: STATE_UNAVAILABLE.
\* doubt: STATE_COMMITTED_UNSYNCED and STATE_COMMITTED_RECOVERY_REQUIRED.
Refusals == {"duplicate", "drift", "corrupt", "error"}
Results  == Refusals \cup {"none", "ok", "unregistered", "cleanup_failed", "doubt", "killed"}
Running  == {"preflight", "home", "open", "arm", "probe", "scan", "stage", "final", "link",
             "sync", "reread", "commit", "abort", "withdraw", "undo", "present", "containers"}
Locations == Running \cup {"new", "done"}

(***************************************************************************)
(* One call.                                                               *)
(***************************************************************************)
Created(p) == opened[p] = p
Seen(p)    == live[path[p]] = node[p]
Recorded(p) == fs.records[path[p]]

Fault == faults < MaxFaults /\ faults' = faults + 1

Goto(p, to) == pc' = [pc EXCEPT ![p] = to] /\ UNCHANGED <<result, home>>

\* The descriptors are closed, however the call ends.
Release(p, code) == home' = IF home = p THEN None ELSE home

Finish(p, code) ==
  /\ pc' = [pc EXCEPT ![p] = "done"]
  /\ result' = [result EXCEPT ![p] = code]
  /\ Release(p, code)

\* The error is kept for when a temporary and a new root are gone.
Back(p, to, code) ==
  /\ pc' = [pc EXCEPT ![p] = to]
  /\ result' = [result EXCEPT ![p] = code]
  /\ UNCHANGED home

\* A changed directory reaches the disk some time before the next sync.
Change(r) == fs' = r /\ disk' = disk \cup {r}
SyncRoot  == disk' = {IF d.root = fs.root THEN fs ELSE d : d \in disk} /\ UNCHANGED fs
SyncHome  == disk' = {d \in disk : d.root = fs.root} /\ UNCHANGED fs
SameFs    == UNCHANGED <<fs, disk>>

Same   == UNCHANGED <<live, callVars, found, moves>>
Quiet  == Same /\ UNCHANGED opened

\* A step that only looks: on with it, or back with an error.
Look(p, at, ok, to, back, code) ==
  /\ pc[p] = at
  /\ \/ UNCHANGED faults /\ IF ok THEN Goto(p, to) ELSE Back(p, back, code)
     \/ Fault /\ Back(p, back, "error")
  /\ SameFs /\ Quiet

Start(p, c, a) ==
  /\ pc[p] = "new" /\ live[a] # None
  /\ call' = [call EXCEPT ![p] = c] /\ path' = [path EXCEPT ![p] = a]
  /\ node' = [node EXCEPT ![p] = live[a]]
  /\ Goto(p, "preflight")
  /\ SameFs /\ UNCHANGED <<live, opened, found, moves, faults>>

\* inspect_authority for the second time, and the lock.
Preflight(p) ==
  /\ pc[p] = "preflight"
  /\ IF Seen(p) THEN Goto(p, "home") ELSE Finish(p, "drift")
  /\ SameFs /\ Quiet /\ UNCHANGED faults

LockHome(p) ==
  /\ pc[p] = "home" /\ home = None
  /\ home' = p
  /\ found' = [found EXCEPT ![p] = fs]
  /\ pc' = [pc EXCEPT ![p] = "open"] /\ UNCHANGED result
  /\ SameFs /\ UNCHANGED <<live, callVars, opened, moves, faults>>

Registry(p) == IF call[p] = "init" THEN "probe" ELSE "present"

\* StateRoot::open: mkdirat, and the descriptor.
OpenRoot(p) ==
  /\ pc[p] = "open"
  /\ \/ /\ fs.root # None /\ opened' = [opened EXCEPT ![p] = fs.root]
        /\ Goto(p, Registry(p))
        /\ SameFs /\ UNCHANGED faults
     \/ /\ fs.root = None /\ opened' = [opened EXCEPT ![p] = p]
        /\ Change([NoRoot EXCEPT !.root = p])
        /\ \/ Goto(p, "arm") /\ UNCHANGED faults
           \/ Fault /\ Finish(p, "cleanup_failed")
     \/ Fault /\ Finish(p, "error") /\ SameFs /\ UNCHANGED opened
  /\ Same

\* ArmedNewRoot: once its identity is known a failure takes it away.
Arm(p) ==
  \/ Look(p, "arm", TRUE, Registry(p), "undo", "error")
  \/ /\ pc[p] = "arm" /\ Fault /\ Finish(p, "cleanup_failed")
     /\ SameFs /\ Quiet

Probe(p) == Look(p, "probe", Seen(p), "scan", "undo", "drift")

\* Mutant: another path's record of the same directory is not looked for.
ForeignNone(p) == FALSE

\* The repository is recorded, under the path it had before.
Foreign(p) == \E b \in Paths \ {path[p]} : fs.records[b] = node[p]

\* What another transaction left, or a root that nobody put a record in.
Damaged(p) == fs.tmp # {} \/ (Empty(fs) /\ ~Created(p))

\* scan_records; the records come in the order of their hashes.
Scan(p) ==
  /\ pc[p] = "scan"
  /\ \/ /\ \/ Damaged(p) /\ Back(p, "undo", "corrupt")
           \/ ~Damaged(p) /\ Foreign(p) /\ Back(p, "undo", "corrupt")
           \/ /\ ~Damaged(p) /\ Recorded(p) # None
              /\ Back(p, "undo", IF Recorded(p) = node[p] THEN "duplicate" ELSE "drift")
           \/ /\ ~Damaged(p) /\ ~Foreign(p) /\ Recorded(p) = None
              /\ Goto(p, "stage")
        /\ UNCHANGED faults
     \/ Fault /\ Back(p, "undo", "error")
  /\ SameFs /\ Quiet

\* RecordTxn::begin_with_expected.
Stage(p) ==
  /\ pc[p] = "stage"
  /\ \/ Change([fs EXCEPT !.tmp = @ \cup {p}])
        /\ \/ Goto(p, "final") /\ UNCHANGED faults
           \/ Fault /\ Back(p, "abort", "error")
     \/ Fault /\ Back(p, "undo", "error") /\ SameFs
  /\ Quiet

FinalProbe(p) == Look(p, "final", Seen(p), "link", "abort", "drift")

\* commit_new, as RecordTxn shows it: linked or not, known or not.
Link(p) ==
  LET linked == [fs EXCEPT !.records[path[p]] = node[p], !.tmp = @ \ {p}]
  IN  /\ pc[p] = "link"
      /\ IF Recorded(p) # None
         THEN /\ Back(p, "withdraw", IF Recorded(p) = node[p] THEN "duplicate" ELSE "corrupt")
              /\ SameFs /\ UNCHANGED faults
         ELSE \/ Change(linked) /\ Goto(p, "sync") /\ UNCHANGED faults
              \/ Change(linked) /\ Fault /\ Finish(p, "doubt")
              \/ SameFs /\ Fault /\ (Finish(p, "doubt") \/ Back(p, "withdraw", "error"))
      /\ Quiet

\* sync_record_parent; a binding that cannot be read again is an error like any other.
Sync(p) ==
  /\ pc[p] = "sync"
  /\ \/ SyncRoot /\ Goto(p, "reread") /\ UNCHANGED faults
     \/ SameFs /\ Fault /\ (Finish(p, "doubt") \/ Back(p, "undo", "error"))
  /\ Quiet

Reread(p) == Look(p, "reread", Recorded(p) = node[p], "commit", "undo", "error")

\* Mutant: HOME is not synced when the root is new.
CommitUnsynced(p) ==
  /\ pc[p] = "commit"
  /\ \/ SameFs /\ Finish(p, "ok") /\ UNCHANGED faults
     \/ SameFs /\ Fault /\ Finish(p, "doubt")
  /\ Quiet

\* commit_record: a new root needs its entry in HOME on disk too.  Then the record is read
\* once more.
CommitRecord(p) ==
  /\ pc[p] = "commit"
  /\ \/ /\ IF Created(p) THEN SyncHome ELSE SameFs
        /\ \/ Finish(p, "ok") /\ UNCHANGED faults
           \/ Fault /\ Finish(p, "error")
     \/ SameFs /\ Fault /\ Finish(p, "doubt")
  /\ Quiet

\* RecordTxn::abort, of a transaction that has not come to its rename or of one in it
\* (commit_new).  A collision leaves even a new root alone, and so does an unlink that may
\* not last, in the second case (preserve_root).
Abort(p) ==
  LET clean == [fs EXCEPT !.tmp = @ \ {p}]
  IN  /\ pc[p] \in {"abort", "withdraw"}
      /\ \/ /\ fs' = clean
            /\ disk' = {IF d.root = fs.root THEN clean ELSE d : d \in disk}
            /\ IF result[p] \in {"duplicate", "corrupt"} THEN Finish(p, result[p])
               ELSE Back(p, "undo", result[p])
            /\ UNCHANGED faults
         \/ /\ Change(clean) /\ Fault
            /\ IF pc[p] = "withdraw" THEN Finish(p, "doubt") ELSE Back(p, "undo", "doubt")
         \/ SameFs /\ Fault /\ Back(p, "undo", "cleanup_failed")
      /\ Quiet

\* Mutant: the new root stays where it is.
UndoNothing(p) ==
  /\ pc[p] = "undo" /\ Finish(p, result[p])
  /\ SameFs /\ UNCHANGED faults /\ Quiet

\* abort_new_root and cleanup_new_root: nothing goes that is not empty.
Undo(p) ==
  /\ pc[p] = "undo"
  /\ \/ /\ IF ~Created(p) THEN SameFs /\ Finish(p, result[p])
           ELSE IF Empty(fs) THEN Change(NoRoot) /\ Finish(p, result[p])
           ELSE SameFs /\ Finish(p, "cleanup_failed")
        /\ UNCHANGED faults
     \/ Created(p) /\ Fault /\ SameFs /\ Finish(p, "cleanup_failed")
  /\ Quiet

\* registered: a root that was made on the way stays.
Present(p) ==
  /\ pc[p] = "present"
  /\ IF Recorded(p) = node[p] THEN Goto(p, "containers") ELSE Finish(p, "unregistered")
  /\ SameFs /\ UNCHANGED faults /\ Quiet

\* ensure_containers.
Containers(p) ==
  LET made == [fs EXCEPT !.dirs = TRUE]
  IN  /\ pc[p] = "containers"
      /\ \/ /\ fs' = made /\ disk' = {IF d.root = fs.root THEN made ELSE d : d \in disk}
            /\ Finish(p, "ok") /\ UNCHANGED faults
         \/ Change(made) /\ Fault /\ Finish(p, "error")
      /\ Quiet

Step(p) ==
  \/ Preflight(p) \/ LockHome(p) \/ OpenRoot(p) \/ Arm(p) \/ Probe(p) \/ Scan(p) \/ Stage(p)
  \/ FinalProbe(p) \/ Link(p) \/ Sync(p) \/ Reread(p) \/ CommitRecord(p) \/ Abort(p)
  \/ Undo(p) \/ Present(p) \/ Containers(p)

(***************************************************************************)
(* Everybody else.                                                         *)
(***************************************************************************)
\* A repository is deleted, or comes to a path; a directory is at one path.
Move(a, n) ==
  /\ moves < MaxMoves /\ moves' = moves + 1
  /\ n # live[a] /\ (n # None => \A b \in Paths : live[b] # n)
  /\ live' = [live EXCEPT ![a] = n]
  /\ SameFs /\ UNCHANGED <<home, callVars, opened, pc, result, found, faults>>

Kill(p) ==
  /\ pc[p] \in Running /\ Fault
  /\ Finish(p, "killed")
  /\ SameFs /\ Quiet

PowerCut ==
  /\ Fault
  /\ fs' \in disk /\ disk' = {fs'}
  /\ home' = None
  /\ pc' = [p \in Procs |-> IF pc[p] \in Running THEN "done" ELSE pc[p]]
  /\ result' = [p \in Procs |-> IF pc[p] \in Running THEN "killed" ELSE result[p]]
  /\ UNCHANGED <<live, callVars, opened, found, moves>>

\* A process need not be started.
Over == (\A p \in Procs : pc[p] \in {"new", "done"}) /\ UNCHANGED vars

Init ==
  /\ live \in [Paths -> Nodes \cup {None}]
  /\ \A a, b \in Paths : a # b /\ live[a] # None => live[a] # live[b]
  /\ fs = NoRoot /\ disk = {NoRoot} /\ home = None
  /\ call = [p \in Procs |-> "init"] /\ path = [p \in Procs |-> CHOOSE a \in Paths : TRUE]
  /\ node = [p \in Procs |-> None] /\ opened = [p \in Procs |-> None]
  /\ pc = [p \in Procs |-> "new"] /\ result = [p \in Procs |-> "none"]
  /\ found = [p \in Procs |-> NoRoot]
  /\ moves = 0 /\ faults = 0

Next ==
  \/ \E p \in Procs : (\E c \in Calls, a \in Paths : Start(p, c, a)) \/ Step(p) \/ Kill(p)
  \/ \E a \in Paths, n \in Nodes \cup {None} : Move(a, n)
  \/ PowerCut \/ Over

Spec == Init /\ [][Next]_vars

(***************************************************************************)
(* Properties.                                                             *)
(***************************************************************************)
TypeOK ==
  /\ live \in [Paths -> Nodes \cup {None}] /\ fs \in Roots
  /\ disk \subseteq Roots /\ fs \in disk
  /\ home \in Procs \cup {None} /\ call \in [Procs -> Calls] /\ path \in [Procs -> Paths]
  /\ node \in [Procs -> Nodes \cup {None}] /\ opened \in [Procs -> Procs \cup {None}]
  /\ pc \in [Procs -> Locations] /\ result \in [Procs -> Results]
  /\ found \in [Procs -> Roots]
  /\ moves \in 0..MaxMoves /\ faults \in 0..MaxFaults

\* No repository is recorded under two paths, though it is moved between two inits, while
\* one runs, and whatever a power cut leaves (scan_records, authority.rs).
OneRecordPerRepository ==
  \A d \in disk : \A a, b \in Paths :
    a # b /\ d.records[a] # None => d.records[a] # d.records[b]

\* An init that reported success survives a power cut: its record is in the root it was put
\* in, and when init made that root, the root is in HOME.  (A root that another init
\* made and did not live to sync can be lost, with the records of both: commit_record syncs
\* HOME only for its own.)
AckedDurable ==
  \A p \in Procs : call[p] = "init" /\ result[p] = "ok" =>
    \A d \in disk : /\ d.root = opened[p] => d.records[path[p]] = node[p]
                    /\ Created(p) => d.root = p

\* An init that is refused, or that fails and says so, leaves the registry as it was when it got
\* the lock, the root it made included, wherever it failed (init, transaction).  A sync
\* that fails after the record is in place is reported otherwise.
RefusedAsFound ==
  [][\A p \in Procs :
       /\ pc[p] \notin {"new", "preflight", "done"} /\ pc'[p] = "done"
       /\ call[p] = "init" /\ result'[p] \in Refusals
       => \/ fs' = found[p]
          \/ result'[p] = "error" /\ fs'.records[path[p]] = node[p]]_vars
=============================================================================
