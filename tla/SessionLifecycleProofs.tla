----------------------- MODULE SessionLifecycleProofs -----------------------
(***************************************************************************)
(* Theorems about SessionLifecycle, for any processes, roots, calls and    *)
(* faults.                                                                 *)
(***************************************************************************)
EXTENDS SessionLifecycle, TLAPS

(***************************************************************************)
(* The inductive invariant: what holds of the disk and the locks ...       *)
(***************************************************************************)
\* There is one session directory, at one of its names.
TombInv == tomb # NoRoot => root = NoRoot

\* An inode that was never made is known to nobody.
UnusedInv ==
  \A i \in Roots : content[i] = "unused" =>
    /\ root # i /\ tomb # i /\ rec.root # i /\ i \notin delivered \cup condemned
    /\ \A p \in Procs : dir[p] # i /\ cap[p].root # i /\ tmp[p].root # i

LockInv ==
  /\ \A p \in home : home = {p}
  /\ \A i \in Roots : \A p \in ex[i] : ex[i] = {p} /\ sh[i] = {}

\* Nothing is at the two names, or a directory that no record has ever named.
Quiet ==
  /\ tomb = NoRoot
  /\ root # NoRoot => rec.root # root /\ \A p \in Procs : cap[p].root # root

DiskInv ==
  /\ rec = NoRecord => Quiet
  /\ rec.st = "Tombstoned" => rec.root \in condemned
  /\ DeliveredTreeSurvives

(***************************************************************************)
(* ... and of a process, by the place it has reached.                      *)
(***************************************************************************)
Creating == {"mat", "build", "recheck", "ready", "deliver", "abort", "abort_tree", "abort_rest",
             "abort_record"}
Unbuilt  == {"mat", "build", "abort", "abort_tree", "abort_rest"}
Built    == {"recheck", "ready", "deliver"}
Leasing  == {"lease", "tomb_lease"}
Leased   == {"revalidate", "discard", "tombstone", "release", "journal", "settle", "published",
             "tomb_revalidate", "promote", "tomb_recheck", "delete", "delete_rest"}
Sharing  == {"share_revalidate", "spawn", "wait"}
Replacing == {"mat", "ready", "tombstone", "journal", "settle"}

Exchanged(p) == txn[p] = "exchanged"

\* Which record its capability is for.
CapInv(p) ==
  /\ pc[p] \in {"mkdir", "remove_prepared"} => cap[p].st = "Prepared"
  /\ pc[p] = "mat" => cap[p].st = (IF Exchanged(p) THEN "Materializing" ELSE "Prepared")
  /\ pc[p] \in {"build", "recheck", "abort", "abort_tree", "abort_rest", "abort_record"} =>
       cap[p].st = "Materializing"
  /\ pc[p] = "ready" => cap[p].st = (IF Exchanged(p) THEN "Ready" ELSE "Materializing")
  /\ pc[p] \in {"deliver"} \cup PublishSteps \cup ExecSteps => cap[p].st = "Ready"
  /\ pc[p] \in {"lease", "revalidate", "discard"} => cap[p].st \in {"Ready", "Materializing"}
  /\ pc[p] \in {"lease", "revalidate"} =>
       op[p] = "force" \/ (op[p] \in {"remove", "publish", "gc"} /\ cap[p].st = "Ready")
  /\ pc[p] = "discard" => op[p] = "remove"
  /\ pc[p] = "tombstone" =>
       IF Exchanged(p) THEN cap[p].st = "Tombstoned" ELSE cap[p].st \in {"Ready", "Materializing"}
  /\ pc[p] \in {"release"} \cup CompleteSteps => cap[p].st = "Tombstoned"
  /\ pc[p] \in GcSteps => op[p] = "gc"
  /\ cap[p].st = "Tombstoned" => cap[p].root \in condemned
  /\ fresh[p] => cap[p] = rec /\ rec # NoRecord

\* Which directory it has opened.
DirInv(p) ==
  /\ pc[p] \in Creating => dir[p] \in Roots
  /\ pc[p] \in Creating /\ (pc[p] = "mat" => Exchanged(p)) => cap[p].root = dir[p]
  /\ pc[p] \in Leasing \cup Leased \cup ExecSteps => dir[p] \in Roots /\ cap[p].root = dir[p]

\* What it has written in a record transaction.
New(p) ==
  CASE pc[p] = "mat" -> Record("Materializing", dir[p])
    [] pc[p] = "ready" -> Record("Ready", dir[p])
    [] pc[p] = "tombstone" -> Record("Tombstoned", cap[p].root)
    [] pc[p] = "journal" -> Busy(p, TRUE)
    [] pc[p] = "settle" -> Busy(p, FALSE)
TmpInv(p) ==
  /\ txn[p] # "none" => pc[p] \in Replacing
  /\ txn[p] \in {"written", "compared"} => tmp[p] \in {NoRecord, New(p)}
  /\ pc[p] = "link" => tmp[p] = Record("Prepared", NoRoot)

\* Which locks it holds.
HoldInv(p) ==
  /\ pc[p] \in CreateSteps \cup GcSteps => home = {p}
  /\ pc[p] \in Leased => ex[dir[p]] = {p}
  /\ pc[p] \in Sharing => p \in sh[dir[p]]
  /\ child[p] # NoRoot => p \in sh[child[p]] /\ pc[p] \in {"wait", "idle"}

\* What it relies on to be at the two names.
Bare(p) ==
  \/ pc[p] \in {"mkdir", "abort_record"}
  \/ pc[p] = "mat" /\ ~Exchanged(p)
  \/ pc[p] \in {"remove_prepared", "drop_record"} /\ fresh[p]
Making(p) ==
  \/ pc[p] = "mat" /\ ~Exchanged(p)
  \/ pc[p] \in {"mat", "build", "recheck"} /\ fresh[p]
  \/ pc[p] = "ready" /\ ~Exchanged(p) /\ fresh[p]
TreeInv(p) ==
  /\ Bare(p) => Quiet
  /\ pc[p] = "mat" /\ ~Exchanged(p) => root = dir[p]
  /\ pc[p] \in Unbuilt => content[dir[p]] # "complete"
  /\ pc[p] \in Built /\ dir[p] \notin condemned => root = dir[p] /\ content[dir[p]] = "complete"
  /\ Making(p) => dir[p] \notin condemned
  /\ pc[p] = "spawn" => root = dir[p] /\ content[dir[p]] = "complete"
  /\ child[p] # NoRoot => root = child[p] /\ content[child[p]] = "complete"

ProcInv(p) == CapInv(p) /\ DirInv(p) /\ TmpInv(p) /\ HoldInv(p) /\ TreeInv(p)

IInv ==
  /\ TypeOK /\ TombInv /\ UnusedInv /\ LockInv /\ DiskInv
  /\ \A p \in Procs : ProcInv(p)

(***************************************************************************)
(* Lemmas about records and single steps of one process.                   *)
(***************************************************************************)
LEMMA RecordFacts ==
  /\ \A st, i : /\ Record(st, i).st = st /\ Record(st, i).root = i
                /\ Record(st, i).busy = FALSE /\ (st # "Absent" => Record(st, i) # NoRecord)
  /\ NoRecord.st = "Absent" /\ NoRecord.root = NoRoot /\ NoRecord.busy = FALSE
  /\ NoRecord \in Records /\ Record("Prepared", NoRoot) \in Records
  /\ \A i \in Roots : \A st \in {"Materializing", "Ready", "Tombstoned"} :
       Record(st, i) \in Records
BY DEF Records, Record, NoRecord

LEMMA RecordKinds ==
  ASSUME NEW r \in Records
  PROVE  /\ r.st \in {"Absent", "Prepared", "Materializing", "Ready", "Tombstoned"}
         /\ r.root \in Roots \cup {NoRoot} /\ r.busy \in BOOLEAN
         /\ r.st \in {"Materializing", "Ready", "Tombstoned"} => r.root \in Roots
         /\ r.st \in {"Absent", "Prepared"} => r.root = NoRoot
         /\ r.st = "Absent" => r = NoRecord
         /\ r.st = "Ready" => \A b \in BOOLEAN : /\ [r EXCEPT !.busy = b] \in Records
                                                 /\ [r EXCEPT !.busy = b].st = "Ready"
                                                 /\ [r EXCEPT !.busy = b].root = r.root
<1>1. CASE r \in {NoRecord, Record("Prepared", NoRoot)}
  <2>1. r.st \in {"Absent", "Prepared"} /\ r.root = NoRoot /\ r.busy = FALSE
    BY <1>1, RecordFacts
  <2>2. r.st = "Absent" => r = NoRecord
    BY <1>1, RecordFacts
  <2> QED
    BY <2>1, <2>2
<1>2. CASE r \in [st : {"Materializing", "Ready", "Tombstoned"}, root : Roots, busy : {FALSE}]
  <2>1. r.st \in {"Materializing", "Ready", "Tombstoned"} /\ r.root \in Roots /\ r.busy = FALSE
    BY <1>2
  <2>2. ASSUME r.st = "Ready", NEW b \in BOOLEAN
        PROVE  /\ [r EXCEPT !.busy = b] \in Records
               /\ [r EXCEPT !.busy = b].st = "Ready" /\ [r EXCEPT !.busy = b].root = r.root
    <3>1. [r EXCEPT !.busy = b] = [st |-> "Ready", root |-> r.root, busy |-> b]
      BY <1>2, <2>2
    <3> QED
      BY <2>1, <3>1 DEF Records
  <2> QED
    BY <2>1, <2>2
<1>3. CASE r \in [st : {"Ready"}, root : Roots, busy : {TRUE}]
  BY <1>3 DEF Records
<1> QED
  BY <1>1, <1>2, <1>3 DEF Records

\* A step of p leaves the other processes where they are.
Others(p) ==
  \A q \in Procs \ {p} :
    /\ pc'[q] = pc[q] /\ op'[q] = op[q] /\ txn'[q] = txn[q] /\ cap'[q] = cap[q]
    /\ dir'[q] = dir[q] /\ child'[q] = child[q] /\ clean'[q] = clean[q]

\* It takes and gives back locks of its own only, and takes none that is held.
LockMove(p) ==
  /\ home' \in {home, home \ {p}} \/ (home = {} /\ home' = {p})
  /\ \A i \in Roots :
       \/ ex'[i] \in {ex[i], ex[i] \ {p}} /\ sh'[i] \in {sh[i], sh[i] \ {p}}
       \/ Unleased(i) /\ ex'[i] = {p} /\ sh'[i] = sh[i]
       \/ ex[i] = {} /\ ex'[i] = ex[i] /\ sh'[i] = sh[i] \cup {p}

Moved(p, to) ==
  /\ pc'[p] = to /\ txn'[p] = "none" /\ LockMove(p)
  /\ \A q \in Procs \ {p} : pc'[q] = pc[q] /\ txn'[q] = txn[q]

Stayed(p, phase) ==
  /\ pc'[p] = pc[p] /\ txn'[p] = phase /\ LockMove(p)
  /\ \A q \in Procs \ {p} : pc'[q] = pc[q] /\ txn'[q] = txn[q]

\* What TypeOK says of the control state.
ControlOK ==
  /\ home \subseteq Procs
  /\ {ex, sh} \subseteq [Roots -> SUBSET Procs]
  /\ pc \in [Procs -> Locations]
  /\ txn \in [Procs -> TxnPhases]
  /\ result \in [Procs -> Results] /\ alarmed \in BOOLEAN

LEMMA GotoMoves ==
  ASSUME TypeOK, NEW p \in Procs, NEW to \in Locations, Goto(p, to)
  PROVE  ControlOK' /\ Moved(p, to) /\ UNCHANGED lockVars /\ alarmed' = alarmed
BY DEF TypeOK, ControlOK, Moved, LockMove, Goto, lockVars, TxnPhases

LEMMA ExitMoves ==
  ASSUME TypeOK, NEW p \in Procs, NEW code \in Results, Exit(p, code)
  PROVE  ControlOK' /\ Moved(p, "idle")
<1>1. ControlOK'
  BY DEF TypeOK, ControlOK, Exit, Locations, TxnPhases
<1>2. /\ pc'[p] = "idle" /\ txn'[p] = "none"
      /\ \A q \in Procs \ {p} : pc'[q] = pc[q] /\ txn'[q] = txn[q]
  BY DEF TypeOK, Exit
<1>3. LockMove(p)
  BY DEF TypeOK, Exit, LockMove
<1> QED
  BY <1>1, <1>2, <1>3 DEF Moved

LEMMA WithinStays ==
  ASSUME TypeOK, NEW p \in Procs, NEW phase \in TxnPhases, Within(p, phase)
  PROVE  /\ ControlOK' /\ Stayed(p, phase) /\ UNCHANGED lockVars /\ pc' = pc
         /\ alarmed' = alarmed
BY DEF TypeOK, ControlOK, Stayed, LockMove, Within, lockVars

LEMMA LocationFacts ==
  /\ CreateSteps \cup RemoveSteps \cup CompleteSteps \cup ExecSteps \cup PublishSteps
       \cup GcSteps \cup {"idle", "home", "load"} \subseteq Locations
  /\ {"ok", "busy", "refused", "error", "recovery", "killed", "none"} \subseteq Results
BY DEF Locations, Results

(***************************************************************************)
(* Type correctness.                                                       *)
(***************************************************************************)
DataOK ==
  /\ rec \in Records
  /\ {root, tomb} \subseteq Roots \cup {NoRoot}
  /\ content \in [Roots -> Contents]
  /\ {child, dir} \subseteq [Procs -> Roots \cup {NoRoot}]
  /\ op \in [Procs -> Commands]
  /\ {cap, tmp} \subseteq [Procs -> Records]
  /\ {fresh, clean} \subseteq [Procs -> BOOLEAN]
  /\ seen \in [Procs -> SUBSET Procs]
  /\ calls \in 0..MaxCalls /\ faults \in 0..MaxFaults
  /\ delivered \subseteq Roots /\ condemned \subseteq Roots

LEMMA TypeParts == TypeOK <=> ControlOK /\ DataOK
BY DEF TypeOK, ControlOK, DataOK

LEMMA TypePartsPrime == TypeOK' <=> ControlOK' /\ DataOK'
BY DEF TypeOK, ControlOK, DataOK

LEMMA FaultType ==
  ASSUME DataOK, Fault
  PROVE  faults' \in 0..MaxFaults
BY BoundAssumption DEF DataOK, Fault

LEMMA CheckType ==
  ASSUME TypeOK, NEW p \in Procs, NEW at, NEW ok, NEW to, NEW code, Check(p, at, ok, to, code),
         ok => to \in Locations, ~ok => code \in Results
  PROVE  TypeOK'
<1>1. ControlOK'
  <2>1. CASE ok
    BY <2>1, GotoMoves DEF Check
  <2>2. CASE ~ok
    BY <2>2, ExitMoves DEF Check
  <2> QED
    BY <2>1, <2>2
<1>2. DataOK'
  BY TypeParts DEF DataOK, Check, diskVars, txnVars, histVars
<1> QED
  BY <1>1, <1>2, TypePartsPrime

LEMMA ReplaceType ==
  ASSUME TypeOK, NEW p \in Procs, NEW at, NEW new \in Records, NEW to \in Locations,
         ReplaceRecord(p, at, new, to)
  PROVE  TypeOK'
<1> USE DEF diskVars
<1>0. /\ DataOK /\ NoRecord \in Records /\ "recovery" \in Results
      /\ {"written", "compared", "exchanged"} \subseteq TxnPhases
  BY TypeParts, RecordFacts, LocationFacts DEF TxnPhases
<1>1. CASE TxnWrite(p, new)
  <2>1. ControlOK'
    BY <1>0, <1>1, ExitMoves, WithinStays DEF TxnWrite
  <2>2. DataOK'
    BY <1>0, <1>1 DEF DataOK, ReplaceRecord, TxnWrite
  <2> QED
    BY <2>1, <2>2, TypePartsPrime
<1>2. CASE TxnCompare(p)
  <2>1. ControlOK'
    BY <1>0, <1>2, ExitMoves, WithinStays DEF TxnCompare
  <2>2. DataOK'
    BY <1>0, <1>2 DEF DataOK, ReplaceRecord, TxnCompare
  <2> QED
    BY <2>1, <2>2, TypePartsPrime
<1>3. CASE TxnExchange(p)
  <2>1. ControlOK'
    BY <1>0, <1>3, ExitMoves, WithinStays DEF TxnExchange
  <2>2. faults' \in 0..MaxFaults
    BY <1>0, <1>3, FaultType DEF TxnExchange, DataOK
  <2>3. rec' \in Records /\ {cap', tmp'} \subseteq [Procs -> Records]
    BY <1>0, <1>3 DEF DataOK, TxnExchange
  <2>4. {fresh', clean'} \subseteq [Procs -> BOOLEAN]
    <3>1. fresh' = fresh \/ fresh' = [q \in Procs |-> q = p]
      BY <1>3 DEF TxnExchange
    <3>2. clean' = clean \/ clean' = [clean EXCEPT ![p] = fresh[p]]
      BY <1>3 DEF TxnExchange
    <3>3. [q \in Procs |-> q = p] \in [Procs -> BOOLEAN]
      OBVIOUS
    <3>4. fresh[p] \in BOOLEAN /\ {fresh, clean} \subseteq [Procs -> BOOLEAN]
      BY <1>0 DEF DataOK
    <3> QED
      BY <3>1, <3>2, <3>3, <3>4
  <2>5. condemned' \subseteq Roots
    <3>1. condemned' = condemned \/ (rec'.st = "Tombstoned" /\ condemned' = condemned \cup {rec'.root})
      BY <1>3 DEF TxnExchange
    <3>2. rec'.st = "Tombstoned" => rec'.root \in Roots
      BY <2>3, RecordKinds
    <3> QED
      BY <1>0, <3>1, <3>2 DEF DataOK
  <2>6. DataOK'
    BY <1>0, <2>2, <2>3, <2>4, <2>5 DEF DataOK, ReplaceRecord
  <2> QED
    BY <2>1, <2>6, TypePartsPrime
<1>4. CASE TxnCheck(p, to)
  <2>1. ControlOK'
    BY <1>0, <1>4, ExitMoves, GotoMoves DEF TxnCheck
  <2>2. DataOK'
    BY <1>0, <1>4 DEF DataOK, ReplaceRecord, TxnCheck
  <2> QED
    BY <2>1, <2>2, TypePartsPrime
<1> QED
  BY <1>1, <1>2, <1>3, <1>4 DEF ReplaceRecord

LEMMA DropType ==
  ASSUME TypeOK, NEW p \in Procs, NEW at, NEW code \in Results, DropRecord(p, at, code)
  PROVE  TypeOK'
<1>1. ControlOK'
  BY ExitMoves, LocationFacts DEF DropRecord
<1>2. DataOK'
  <2>1. rec' \in Records /\ fresh' \in [Procs -> BOOLEAN]
    <3>1. \/ rec' = rec /\ fresh' = fresh
          \/ rec' = NoRecord /\ fresh' = [q \in Procs |-> FALSE]
      BY DEF DropRecord
    <3> QED
      BY <3>1, TypeParts, RecordFacts DEF DataOK
  <2>2. UNCHANGED <<root, tomb, content, child, op, cap, tmp, clean, dir, seen, calls, faults,
                    delivered, condemned>>
    BY DEF DropRecord, diskVars, histVars
  <2> QED
    BY <2>1, <2>2, TypeParts DEF DataOK
<1> QED
  BY <1>1, <1>2, TypePartsPrime

LEMMA ClearType ==
  ASSUME TypeOK, NEW p \in Procs, NEW at, NEW named, NEW to \in Locations, ClearTree(p, at, named, to)
  PROVE  TypeOK'
<1>1. ControlOK'
  BY ExitMoves, GotoMoves, LocationFacts DEF ClearTree
<1>2. DataOK'
  BY TypeParts DEF DataOK, ClearTree, txnVars, histVars, Contents
<1> QED
  BY <1>1, <1>2, TypePartsPrime

LEMMA TryLeaseType ==
  ASSUME TypeOK, NEW p \in Procs, NEW at, NEW to \in Locations, TryLease(p, at, to)
  PROVE  TypeOK'
<1>1. ControlOK'
  <2>1. CASE Unleased(dir[p])
    BY <2>1 DEF TypeOK, ControlOK, TryLease
  <2>2. CASE ~Unleased(dir[p])
    BY <2>2, ExitMoves, LocationFacts DEF TryLease
  <2> QED
    BY <2>1, <2>2
<1>2. DataOK'
  BY TypeParts DEF DataOK, TryLease, diskVars, txnVars, histVars
<1> QED
  BY <1>1, <1>2, TypePartsPrime

\* What a command goes on with is typed.
LEMMA LoadsType ==
  ASSUME TypeOK, NEW p \in Procs, NEW commands, LoadStep(p, commands),
         \/ \E to \in Locations : Loads(p, to)
         \/ \E code \in Results : Rejects(p, code)
  PROVE  TypeOK'
<1>1. ControlOK'
  BY ExitMoves, GotoMoves DEF Loads, Rejects
<1>2. rec \in Records /\ rec.root \in Roots \cup {NoRoot}
  BY TypeParts, RecordKinds DEF DataOK
<1>3. DataOK'
  <2>1. UNCHANGED <<rec, root, tomb, content, child, op, tmp, clean, seen, calls, faults,
                    delivered, condemned>>
    BY DEF LoadStep, diskVars, histVars
  <2>2. \/ UNCHANGED <<cap, fresh, dir>>
        \/ /\ cap' = [cap EXCEPT ![p] = rec] /\ fresh' = [fresh EXCEPT ![p] = TRUE]
           /\ dir' = [dir EXCEPT ![p] = rec.root]
    BY DEF Loads, Rejects
  <2>3. {cap', tmp} \subseteq [Procs -> Records] /\ dir' \in [Procs -> Roots \cup {NoRoot}]
    BY <1>2, <2>2, TypeParts DEF DataOK
  <2>4. fresh' \in [Procs -> BOOLEAN]
    BY <2>2, TypeParts DEF DataOK
  <2> QED
    BY <2>1, <2>3, <2>4, TypeParts DEF DataOK
<1> QED
  BY <1>1, <1>3, TypePartsPrime

LEMMA LoadsWhere ==
  ASSUME NEW p \in Procs, LoadForRemove(p) \/ LoadForExec(p) \/ LoadForPublish(p)
  PROVE  /\ \E commands : LoadStep(p, commands)
         /\ \/ \E to \in Locations : Loads(p, to)
            \/ \E code \in Results : Rejects(p, code)
<1>1. /\ {"inspect", "lease", "remove_prepared", "share"} \subseteq Locations
      /\ {"ok", "refused", "error", "recovery"} \subseteq Results
  BY DEF Locations, Results, CompleteSteps, RemoveSteps, ExecSteps
<1>2. CASE LoadForRemove(p)
  BY <1>1, <1>2 DEF LoadForRemove
<1>3. CASE LoadForExec(p)
  BY <1>1, <1>3 DEF LoadForExec
<1>4. CASE LoadForPublish(p)
  BY <1>1, <1>4 DEF LoadForPublish
<1> QED
  BY <1>2, <1>3, <1>4

\* What p writes in a record transaction is a record.
LEMMA NewType ==
  ASSUME TypeOK, NEW p \in Procs, CapInv(p), DirInv(p), pc[p] \in Replacing, ~Exchanged(p)
  PROVE  New(p) \in Records
<1>1. cap[p] \in Records
  BY DEF TypeOK
<1>2. CASE pc[p] \in {"mat", "ready"}
  BY <1>2, RecordFacts DEF DirInv, Creating, New
<1>3. CASE pc[p] = "tombstone"
  BY <1>1, <1>3, RecordFacts, RecordKinds DEF CapInv, New
<1>4. CASE pc[p] \in {"journal", "settle"}
  BY <1>1, <1>4, RecordKinds DEF CapInv, PublishSteps, New, Busy
<1> QED
  BY <1>2, <1>3, <1>4 DEF Replacing

\* A create goes on, is refused, or returns the session it has found.
LEMMA LookupMoves ==
  ASSUME NEW p \in Procs, Lookup(p)
  PROVE  /\ pc[p] = "lookup"
         /\ UNCHANGED <<rec, root, tomb, content, child, op, cap, fresh, tmp, clean, dir, seen,
                        calls, faults, condemned>>
         /\ \/ Goto(p, "prepare") /\ rec = NoRecord /\ delivered' = delivered
            \/ /\ \E code \in {"refused", "recovery", "error"} : Exit(p, code)
               /\ rec # NoRecord /\ delivered' = delivered
            \/ Exit(p, "ok") /\ Loadable /\ delivered' = delivered \cup {rec.root}
<1>1. NoRecord.st = "Absent" /\ ~NoRecord.busy
  BY RecordFacts
<1> QED
  BY <1>1 DEF Lookup, Loadable, diskVars, txnVars

LEMMA CreateType ==
  ASSUME IInv, NEW p \in Procs, CreateStep(p)
  PROVE  TypeOK'
<1>0. TypeOK /\ ControlOK /\ DataOK /\ CapInv(p) /\ DirInv(p)
  BY TypeParts DEF IInv, ProcInv
<1>a. /\ CreateSteps \subseteq Locations /\ "idle" \in Locations /\ NoRecord \in Records
      /\ Record("Prepared", NoRoot) \in Records
      /\ {"ok", "busy", "refused", "error", "recovery", "killed", "none"} \subseteq Results
  BY LocationFacts, RecordFacts
<1>1. CASE Lookup(p)
  <2>1. ControlOK'
    BY <1>0, <1>1, <1>a, LookupMoves, ExitMoves, GotoMoves DEF CreateSteps
  <2>2. delivered' \subseteq Roots
    <3>1. rec.st = "Ready" => rec.root \in Roots
      BY <1>0, RecordKinds DEF DataOK
    <3> QED
      BY <1>0, <1>1, <3>1, LookupMoves DEF DataOK, Loadable
  <2>3. DataOK'
    BY <1>0, <1>1, <2>2, LookupMoves DEF DataOK
  <2> QED
    BY <2>1, <2>3, TypePartsPrime
<1>2. CASE Prepare(p)
  <2>1. ControlOK'
    BY <1>0, <1>2, <1>a, ExitMoves, GotoMoves DEF Prepare, CreateSteps
  <2>2. DataOK'
    BY <1>0, <1>2, <1>a DEF DataOK, Prepare, diskVars, histVars
  <2> QED
    BY <2>1, <2>2, TypePartsPrime
<1>3. CASE Link(p)
  <2>1. ControlOK'
    BY <1>0, <1>3, <1>a, ExitMoves, GotoMoves DEF Link, CreateSteps
  <2>2. tmp[p] \in Records /\ rec' \in Records /\ {cap', tmp'} \subseteq [Procs -> Records]
    BY <1>0, <1>3, <1>a DEF DataOK, Link
  <2>3. fresh' \in [Procs -> BOOLEAN]
    <3>1. fresh' = fresh \/ fresh' = [q \in Procs |-> q = p]
      BY <1>3 DEF Link
    <3>2. [q \in Procs |-> q = p] \in [Procs -> BOOLEAN]
      OBVIOUS
    <3> QED
      BY <1>0, <3>1, <3>2 DEF DataOK
  <2>4. UNCHANGED <<root, tomb, content, child, op, clean, dir, seen, calls, faults, delivered,
                    condemned>>
    BY <1>3 DEF Link, diskVars, histVars
  <2>5. DataOK'
    BY <1>0, <2>2, <2>3, <2>4 DEF DataOK
  <2> QED
    BY <2>1, <2>5, TypePartsPrime
<1>4. CASE Mkdir(p)
  <2>1. ControlOK'
    BY <1>0, <1>4, <1>a, ExitMoves, GotoMoves DEF Mkdir, CreateSteps
  <2>2. DataOK'
    BY <1>0, <1>4 DEF DataOK, Mkdir, txnVars, histVars, Contents
  <2> QED
    BY <2>1, <2>2, TypePartsPrime
<1>5. CASE Materializing(p)
  <2>1. dir[p] \in Roots
    BY <1>0, <1>5 DEF Materializing, ReplaceRecord, DirInv, Creating
  <2> QED
    BY <1>0, <1>5, <1>a, <2>1, RecordFacts, ReplaceType DEF Materializing, CreateSteps
<1>6. CASE Build(p)
  <2>1. ControlOK'
    BY <1>0, <1>6, <1>a, ExitMoves, GotoMoves DEF Build, CreateSteps
  <2>2. DataOK'
    BY <1>0, <1>6, FaultType DEF DataOK, Build, txnVars, histVars, Contents
  <2> QED
    BY <2>1, <2>2, TypePartsPrime
<1>7. CASE CommitReady(p)
  <2>1. CASE Check(p, "recheck", fresh[p] /\ root = dir[p], "ready", "recovery")
    BY <1>0, <1>a, <2>1, CheckType DEF CreateSteps
  <2>2. CASE ReplaceRecord(p, "ready", Record("Ready", dir[p]), "deliver")
    <3>1. dir[p] \in Roots
      BY <1>0, <2>2 DEF ReplaceRecord, DirInv, Creating
    <3> QED
      BY <1>0, <1>a, <2>2, <3>1, RecordFacts, ReplaceType DEF CreateSteps
  <2> QED
    BY <1>7, <2>1, <2>2 DEF CommitReady
<1>8. CASE Deliver(p)
  <2>1. ControlOK'
    BY <1>0, <1>8, <1>a, ExitMoves DEF Deliver
  <2>2. dir[p] \in Roots
    BY <1>0, <1>8 DEF Deliver, DirInv, Creating
  <2>3. DataOK'
    BY <1>0, <1>8, <2>2 DEF DataOK, Deliver, diskVars, txnVars
  <2> QED
    BY <2>1, <2>3, TypePartsPrime
<1>9. CASE AbortCreate(p)
  <2>1. CASE pc[p] = "abort_rest" /\ ~ClearTree(p, "abort_tree", root = dir[p], "abort_rest")
             /\ ~DropRecord(p, "abort_record", "error")
             /\ ~Check(p, "abort", fresh[p], "abort_tree", "recovery")
    <3>1. ControlOK'
      BY <1>0, <1>9, <1>a, <2>1, ExitMoves, GotoMoves DEF AbortCreate, CreateSteps
    <3>2. DataOK'
      BY <1>0, <1>9, <2>1 DEF DataOK, AbortCreate, txnVars, histVars, Contents
    <3> QED
      BY <3>1, <3>2, TypePartsPrime
  <2>2. CASE Check(p, "abort", fresh[p], "abort_tree", "recovery")
    BY <1>0, <1>a, <2>2, CheckType DEF CreateSteps
  <2>3. CASE ClearTree(p, "abort_tree", root = dir[p], "abort_rest")
    BY <1>0, <1>a, <2>3, ClearType DEF CreateSteps
  <2>4. CASE DropRecord(p, "abort_record", "error")
    BY <1>0, <1>a, <2>4, DropType
  <2> QED
    BY <1>9, <2>1, <2>2, <2>3, <2>4 DEF AbortCreate
<1> QED
  BY <1>1, <1>2, <1>3, <1>4, <1>5, <1>6, <1>7, <1>8, <1>9 DEF CreateStep

LEMMA RemoveType ==
  ASSUME IInv, NEW p \in Procs, RemoveStep(p)
  PROVE  TypeOK'
<1>0. TypeOK /\ ControlOK /\ DataOK /\ CapInv(p) /\ DirInv(p)
  BY TypeParts DEF IInv, ProcInv
<1>a. /\ RemoveSteps \cup CompleteSteps \cup PublishSteps \subseteq Locations /\ "idle" \in Locations
      /\ {"ok", "busy", "refused", "error", "recovery", "killed", "none"} \subseteq Results
  BY LocationFacts
<1>1. CASE LoadForRemove(p)
  BY <1>0, <1>1, LoadsWhere, LoadsType
<1>2. CASE AcquireLease(p)
  BY <1>0, <1>2, <1>a, TryLeaseType DEF AcquireLease, RemoveSteps
<1>3. CASE Revalidate(p)
  <2>1. pc[p] = "revalidate" /\ op[p] # "gc" => AfterLease(p) \in Locations
    BY <1>0, <1>a DEF CapInv, AfterLease, RemoveSteps, PublishSteps
  <2>2. CASE op[p] # "gc" /\ \E ok : Check(p, "revalidate", ok, AfterLease(p), "recovery")
    <3>1. PICK ok : Check(p, "revalidate", ok, AfterLease(p), "recovery")
      BY <2>2
    <3>2. pc[p] = "revalidate"
      BY <3>1 DEF Check
    <3> QED
      BY <1>0, <1>a, <2>1, <2>2, <3>1, <3>2, CheckType
  <2>3. CASE \E code \in Results : Check(p, "revalidate", FALSE, "idle", code)
    BY <1>0, <1>a, <2>3, CheckType
  <2> QED
    BY <1>3, <1>a, <2>2, <2>3 DEF Revalidate
<1>4. CASE DiscardCheck(p)
  BY <1>0, <1>4, <1>a, CheckType DEF DiscardCheck, RemoveSteps
<1>5. CASE TransitionTombstone(p)
  <2>1. CASE ReplaceRecord(p, "tombstone", Record("Tombstoned", cap[p].root), "release")
    <3>1. cap[p] \in Records /\ cap[p].st \in {"Ready", "Materializing", "Tombstoned"}
      BY <1>0, <2>1 DEF ReplaceRecord, CapInv, DataOK
    <3>2. Record("Tombstoned", cap[p].root) \in Records
      BY <3>1, RecordFacts, RecordKinds
    <3> QED
      BY <1>0, <1>a, <2>1, <3>2, ReplaceType DEF RemoveSteps
  <2>2. CASE ~ReplaceRecord(p, "tombstone", Record("Tombstoned", cap[p].root), "release")
    <3>1. ControlOK'
      BY <1>0, <1>5, <1>a, <2>2 DEF ControlOK, TransitionTombstone, CompleteSteps
    <3>2. DataOK'
      BY <1>0, <1>5, <2>2 DEF DataOK, TransitionTombstone, diskVars, txnVars, histVars
    <3> QED
      BY <3>1, <3>2, TypePartsPrime
  <2> QED
    BY <2>1, <2>2
<1>6. CASE RemovePrepared(p)
  BY <1>0, <1>6, <1>a, DropType DEF RemovePrepared
<1>7. CASE CompleteTombstone(p)
  <2>1. CASE Inspect(p)
    <3>1. ControlOK'
      BY <1>0, <1>a, <2>1, ExitMoves, GotoMoves DEF Inspect, CompleteSteps
    <3>2. cap[p].root \in Roots \cup {NoRoot}
      BY <1>0, RecordKinds DEF DataOK
    <3>3. DataOK'
      BY <1>0, <2>1, <3>2 DEF DataOK, Inspect, diskVars, txnVars, histVars
    <3> QED
      BY <3>1, <3>3, TypePartsPrime
  <2>2. CASE TryLease(p, "tomb_lease", "tomb_revalidate")
    BY <1>0, <1>a, <2>2, TryLeaseType DEF CompleteSteps
  <2>3. CASE Check(p, "tomb_revalidate", fresh[p], "promote", "recovery")
    BY <1>0, <1>a, <2>3, CheckType DEF CompleteSteps
  <2>4. CASE Promote(p)
    <3>1. ControlOK'
      BY <1>0, <1>a, <2>4, ExitMoves, GotoMoves DEF Promote, CompleteSteps
    <3>2. DataOK'
      BY <1>0, <2>4 DEF DataOK, Promote, txnVars, histVars
    <3> QED
      BY <3>1, <3>2, TypePartsPrime
  <2>5. CASE Check(p, "tomb_recheck", fresh[p], "delete", "recovery")
    BY <1>0, <1>a, <2>5, CheckType DEF CompleteSteps
  <2>6. CASE ClearTree(p, "delete", tomb = dir[p], "delete_rest")
    BY <1>0, <1>a, <2>6, ClearType DEF CompleteSteps
  <2>7. CASE DeleteRest(p)
    <3>1. ControlOK'
      BY <1>0, <1>a, <2>7, ExitMoves, GotoMoves DEF DeleteRest, CompleteSteps
    <3>2. DataOK'
      BY <1>0, <2>7 DEF DataOK, DeleteRest, txnVars, histVars, Contents
    <3> QED
      BY <3>1, <3>2, TypePartsPrime
  <2>8. CASE DropRecord(p, "drop_record", "ok")
    BY <1>0, <1>a, <2>8, DropType
  <2> QED
    BY <1>7, <2>1, <2>2, <2>3, <2>4, <2>5, <2>6, <2>7, <2>8 DEF CompleteTombstone
<1> QED
  BY <1>1, <1>2, <1>3, <1>4, <1>5, <1>6, <1>7 DEF RemoveStep

LEMMA ExecType ==
  ASSUME IInv, NEW p \in Procs, ExecStep(p)
  PROVE  TypeOK'
<1>0. TypeOK /\ ControlOK /\ DataOK
  BY TypeParts DEF IInv
<1>a. /\ ExecSteps \subseteq Locations /\ "idle" \in Locations
      /\ {"ok", "recovery"} \subseteq Results
  BY LocationFacts
<1>1. CASE LoadForExec(p)
  BY <1>0, <1>1, LoadsWhere, LoadsType
<1>2. CASE ShareRevalidate(p)
  BY <1>0, <1>2, <1>a, CheckType DEF ShareRevalidate, ExecSteps
<1>3. CASE Spawn(p)
  <2>1. ControlOK'
    BY <1>0, <1>3, <1>a, GotoMoves DEF Spawn, ExecSteps
  <2>2. DataOK'
    BY <1>0, <1>3 DEF DataOK, Spawn, diskVars, txnVars, histVars
  <2> QED
    BY <2>1, <2>2, TypePartsPrime
<1>4. CASE Wait(p)
  BY <1>0, <1>4, <1>a, CheckType DEF Wait
<1> QED
  BY <1>1, <1>2, <1>3, <1>4 DEF ExecStep

LEMMA PublishType ==
  ASSUME IInv, NEW p \in Procs, PublishStep(p)
  PROVE  TypeOK'
<1>0. TypeOK /\ CapInv(p) /\ cap[p] \in Records
  BY DEF IInv, ProcInv, TypeOK
<1>a. /\ PublishSteps \subseteq Locations /\ "idle" \in Locations
      /\ {"ok", "error"} \subseteq Results
  BY LocationFacts
<1>1. CASE LoadForPublish(p)
  BY <1>0, <1>1, LoadsWhere, LoadsType
<1>2. CASE PublishSession(p)
  <2>1. pc[p] \in PublishSteps => Busy(p, TRUE) \in Records /\ Busy(p, FALSE) \in Records
    BY <1>0, RecordKinds DEF CapInv, Busy
  <2>2. CASE ReplaceRecord(p, "journal", Busy(p, TRUE), "settle")
    BY <1>0, <1>a, <2>1, <2>2, ReplaceType DEF ReplaceRecord, PublishSteps
  <2>3. CASE ReplaceRecord(p, "settle", Busy(p, FALSE), "published")
    BY <1>0, <1>a, <2>1, <2>3, ReplaceType DEF ReplaceRecord, PublishSteps
  <2>4. CASE Check(p, "published", FALSE, "idle", "ok")
    BY <1>0, <1>a, <2>4, CheckType
  <2> QED
    BY <1>2, <2>2, <2>3, <2>4 DEF PublishSession
<1>3. CASE PublishStops(p)
  BY <1>0, <1>3, <1>a, CheckType DEF PublishStops
<1> QED
  BY <1>1, <1>2, <1>3 DEF PublishStep

LEMMA GcType ==
  ASSUME IInv, NEW p \in Procs, GcStep(p)
  PROVE  TypeOK'
<1>0. TypeOK /\ ControlOK /\ DataOK /\ rec \in Records /\ cap[p].root \in Roots \cup {NoRoot}
  BY TypeParts, RecordKinds DEF IInv, DataOK
<1>a. /\ GcSteps \cup {"inspect", "lease"} \subseteq Locations /\ "idle" \in Locations
      /\ {"ok", "recovery"} \subseteq Results /\ NoRecord \in Records
  BY LocationFacts, RecordFacts DEF CompleteSteps, RemoveSteps
<1>1. CASE Census(p)
  <2>1. ControlOK'
    BY <1>0, <1>1, <1>a, ExitMoves, GotoMoves DEF Census, GcSteps
  <2>2. /\ cap' \in [Procs -> Records] /\ fresh' \in [Procs -> BOOLEAN]
        /\ seen' \in [Procs -> SUBSET Procs]
    <3>1. (rec # NoRecord) \in BOOLEAN /\ Temporaries \subseteq Procs
      BY DEF Temporaries
    <3>2. cap' = [cap EXCEPT ![p] = rec] /\ seen' = [seen EXCEPT ![p] = Temporaries]
      BY <1>1 DEF Census
    <3>3. fresh' = [fresh EXCEPT ![p] = rec # NoRecord]
      BY <1>1 DEF Census
    <3>4. fresh' \in [Procs -> BOOLEAN]
      BY <1>0, <3>1, <3>3 DEF DataOK
    <3> QED
      BY <1>0, <3>1, <3>2, <3>4 DEF DataOK
  <2>3. DataOK'
    BY <1>0, <1>1, <2>2 DEF DataOK, Census, diskVars, histVars
  <2> QED
    BY <2>1, <2>3, TypePartsPrime
<1>2. CASE Recensus(p)
  BY <1>0, <1>2, <1>a, CheckType DEF Recensus, GcSteps
<1>3. CASE Sweep(p)
  <2>1. ControlOK'
    BY <1>0, <1>3, <1>a, ExitMoves, GotoMoves DEF Sweep, GcSteps
  <2>2. tmp' \in [Procs -> Records]
    BY <1>0, <1>3, <1>a DEF DataOK, Sweep
  <2>3. DataOK'
    BY <1>0, <1>3, <2>2 DEF DataOK, Sweep, diskVars, histVars
  <2> QED
    BY <2>1, <2>3, TypePartsPrime
<1>4. CASE GcDispatch(p)
  <2>1. ControlOK'
    BY <1>0, <1>4, <1>a, ExitMoves, GotoMoves DEF GcDispatch
  <2>2. DataOK'
    BY <1>0, <1>4 DEF DataOK, GcDispatch, diskVars, txnVars, histVars
  <2> QED
    BY <2>1, <2>2, TypePartsPrime
<1> QED
  BY <1>1, <1>2, <1>3, <1>4 DEF GcStep

LEMMA TypeKept ==
  ASSUME IInv, [Next]_vars
  PROVE  TypeOK'
<1>0. TypeOK /\ ControlOK /\ DataOK
  BY TypeParts DEF IInv
<1>a. /\ {"home", "load", "idle"} \subseteq Locations
      /\ {"census", "lookup", "share_revalidate"} \subseteq Locations
      /\ {"none", "killed"} \subseteq Results /\ NoRecord \in Records
  BY LocationFacts, RecordFacts DEF GcSteps, CreateSteps, ExecSteps
<1>1. ASSUME NEW p \in Procs, NEW o \in Ops, Start(p, o) PROVE TypeOK'
  <2>1. o \in Commands /\ Entry[o] \in {"home", "load"}
    BY OpsAssumption DEF Commands, Entry
  <2>2. ControlOK'
    BY <1>0, <1>1, <1>a, <2>1 DEF ControlOK, Start, lockVars
  <2>3. calls' \in 0..MaxCalls
    BY <1>0, <1>1, BoundAssumption DEF DataOK, Start
  <2>4. DataOK'
    BY <1>0, <1>1, <1>a, <2>1, <2>3 DEF DataOK, Start, diskVars, histVars
  <2> QED
    BY <2>2, <2>4, TypePartsPrime
<1>2. ASSUME NEW p \in Procs, LockHome(p) PROVE TypeOK'
  <2>1. ControlOK'
    BY <1>0, <1>2, <1>a DEF ControlOK, LockHome
  <2>2. DataOK'
    BY <1>0, <1>2 DEF DataOK, LockHome, diskVars, txnVars, histVars
  <2> QED
    BY <2>1, <2>2, TypePartsPrime
<1>3. ASSUME NEW p \in Procs, Share(p) PROVE TypeOK'
  <2>1. ControlOK'
    <3>1. sh' = [sh EXCEPT ![dir[p]] = sh[dir[p]] \cup {p}]
      BY <1>3 DEF Share
    <3>2. sh' \in [Roots -> SUBSET Procs]
      BY <1>0, <3>1 DEF ControlOK
    <3>3. pc' = [pc EXCEPT ![p] = "share_revalidate"] /\ UNCHANGED <<home, ex, txn, result, alarmed>>
      BY <1>3 DEF Share
    <3> QED
      BY <1>0, <1>a, <3>2, <3>3 DEF ControlOK
  <2>2. DataOK'
    BY <1>0, <1>3 DEF DataOK, Share, diskVars, txnVars, histVars
  <2> QED
    BY <2>1, <2>2, TypePartsPrime
<1>4. ASSUME NEW p \in Procs, Step(p) PROVE TypeOK'
  BY <1>4, CreateType, RemoveType, ExecType, PublishType, GcType DEF Step
<1>5. ASSUME NEW p \in Procs, ChildExits(p) PROVE TypeOK'
  <2>1. ControlOK'
    BY <1>0, <1>5 DEF ControlOK, ChildExits
  <2>2. DataOK'
    BY <1>0, <1>5 DEF DataOK, ChildExits, diskVars, txnVars, histVars
  <2> QED
    BY <2>1, <2>2, TypePartsPrime
<1>6. ASSUME NEW p \in Procs, Crash(p) PROVE TypeOK'
  <2>1. ControlOK'
    BY <1>0, <1>6, <1>a, ExitMoves DEF Crash
  <2>2. DataOK'
    BY <1>0, <1>6, FaultType DEF DataOK, Crash, diskVars, txnVars, histVars
  <2> QED
    BY <2>1, <2>2, TypePartsPrime
<1>7. CASE UNCHANGED vars
  BY <1>0, <1>7 DEF vars, lockVars, TypeOK
<1> QED
  BY <1>1, <1>2, <1>3, <1>4, <1>5, <1>6, <1>7 DEF Next

(***************************************************************************)
(* What a step of p leaves to the other processes.                         *)
(***************************************************************************)
LEMMA LockKept ==
  ASSUME TypeOK, LockInv, NEW p \in Procs, LockMove(p)
  PROVE  LockInv'
<1>1. ASSUME NEW q \in home' PROVE home' = {q}
  BY <1>1 DEF LockInv, LockMove
<1>2. ASSUME NEW i \in Roots, NEW q \in ex'[i] PROVE ex'[i] = {q} /\ sh'[i] = {}
  <2>1. CASE ex'[i] \in {ex[i], ex[i] \ {p}} /\ sh'[i] \in {sh[i], sh[i] \ {p}}
    BY <1>2, <2>1 DEF LockInv
  <2>2. CASE Unleased(i) /\ ex'[i] = {p} /\ sh'[i] = sh[i]
    BY <1>2, <2>2 DEF Unleased
  <2>3. CASE ex[i] = {} /\ ex'[i] = ex[i] /\ sh'[i] = sh[i] \cup {p}
    BY <1>2, <2>3
  <2> QED
    BY <2>1, <2>2, <2>3 DEF LockMove
<1> QED
  BY <1>1, <1>2 DEF LockInv

\* A lock that another process holds stays with it.
LEMMA LocksStay ==
  ASSUME TypeOK, LockInv, NEW p \in Procs, LockMove(p), NEW q \in Procs \ {p}
  PROVE  /\ home = {q} => home' = {q}
         /\ \A i \in Roots : /\ ex[i] = {q} => ex'[i] = {q}
                             /\ q \in sh[i] => q \in sh'[i]
<1>1. home = {q} => home' = {q}
  BY DEF LockMove
<1>2. ASSUME NEW i \in Roots PROVE (ex[i] = {q} => ex'[i] = {q}) /\ (q \in sh[i] => q \in sh'[i])
  <2>1. CASE ex'[i] \in {ex[i], ex[i] \ {p}} /\ sh'[i] \in {sh[i], sh[i] \ {p}}
    BY <2>1
  <2>2. CASE Unleased(i) /\ ex'[i] = {p} /\ sh'[i] = sh[i]
    BY <2>2 DEF Unleased
  <2>3. CASE ex[i] = {} /\ ex'[i] = ex[i] /\ sh'[i] = sh[i] \cup {p}
    BY <2>3
  <2> QED
    BY <2>1, <2>2, <2>3 DEF LockMove
<1> QED
  BY <1>1, <1>2

LEMMA OthersKept ==
  ASSUME IInv, NEW p \in Procs, Others(p), LockMove(p), condemned \subseteq condemned',
         NEW q \in Procs \ {p}, fresh'[q] => fresh[q] /\ rec' = rec,
         tmp'[q] = tmp[q] \/ (tmp'[q] = NoRecord /\ pc[q] # "link")
  PROVE  CapInv(q)' /\ DirInv(q)' /\ TmpInv(q)' /\ HoldInv(q)'
<1>0. /\ TypeOK /\ LockInv /\ CapInv(q) /\ DirInv(q) /\ TmpInv(q) /\ HoldInv(q)
      /\ pc'[q] = pc[q] /\ op'[q] = op[q] /\ txn'[q] = txn[q] /\ cap'[q] = cap[q]
      /\ dir'[q] = dir[q] /\ child'[q] = child[q]
  BY DEF IInv, ProcInv, Others
<1>1. CapInv(q)'
  BY <1>0 DEF CapInv, Exchanged
<1>2. DirInv(q)'
  BY <1>0 DEF DirInv, Exchanged
<1>3. TmpInv(q)'
  <2>1. New(q)' = New(q)
    BY <1>0 DEF New, Busy
  <2> QED
    BY <1>0, <2>1 DEF TmpInv
<1>4. HoldInv(q)'
  <2>1. /\ home = {q} => home' = {q}
        /\ \A i \in Roots : /\ ex[i] = {q} => ex'[i] = {q}
                            /\ q \in sh[i] => q \in sh'[i]
    BY <1>0, LocksStay
  <2>2. pc[q] \in Leased \cup Sharing => dir[q] \in Roots
    BY <1>0 DEF DirInv, Sharing, ExecSteps
  <2>3. child[q] # NoRoot => child[q] \in Roots
    BY <1>0 DEF TypeOK
  <2> QED
    BY <1>0, <2>1, <2>2, <2>3 DEF HoldInv
<1> QED
  BY <1>1, <1>2, <1>3, <1>4

\* Only one process is in create or past gc's lock.
LEMMA HomeExcludes ==
  ASSUME IInv, NEW p \in Procs, pc[p] \in CreateSteps \cup GcSteps, NEW q \in Procs \ {p}
  PROVE  pc[q] \notin CreateSteps \cup GcSteps
BY DEF IInv, ProcInv, HoldInv

(***************************************************************************)
(* A step that changes neither the record nor the tree nor the history.    *)
(***************************************************************************)
Calm(p) ==
  /\ Others(p) /\ LockMove(p)
  /\ UNCHANGED <<rec, root, tomb, content, delivered, condemned>>
  /\ \A q \in Procs \ {p} :
       /\ fresh'[q] = fresh[q]
       /\ tmp'[q] = tmp[q] \/ (tmp'[q] = NoRecord /\ pc[q] # "link")
  /\ cap'[p] \in {cap[p], rec, NoRecord}
  /\ dir'[p] \in {dir[p], cap[p].root, rec.root, NoRoot}
  /\ tmp'[p].root \in {tmp[p].root, dir[p], cap[p].root, NoRoot}

LEMMA QuietCalm ==
  ASSUME TypeOK, NEW p \in Procs, Calm(p), Quiet
  PROVE  Quiet'
<1>1. root # NoRoot => rec.root # root /\ \A q \in Procs : cap[q].root # root
  BY DEF Quiet
<1>2. \A q \in Procs : cap'[q] \in {cap[q], rec, NoRecord}
  BY DEF Calm, Others
<1> QED
  BY <1>1, <1>2, RecordFacts DEF Quiet, Calm

LEMMA CalmStep ==
  ASSUME IInv, NEW p \in Procs, Calm(p), TypeOK', ProcInv(p)'
  PROVE  IInv'
<1>0. /\ TypeOK /\ TombInv /\ UnusedInv /\ LockInv /\ DiskInv /\ Others(p) /\ LockMove(p)
      /\ UNCHANGED <<rec, root, tomb, content, delivered, condemned>>
  BY DEF IInv, Calm
<1>1. TombInv'
  BY <1>0 DEF TombInv
<1>2. UnusedInv'
  <2> SUFFICES ASSUME NEW i \in Roots, content[i] = "unused"
               PROVE  \A q \in Procs : dir'[q] # i /\ cap'[q].root # i /\ tmp'[q].root # i
    BY <1>0 DEF UnusedInv
  <2>1. rec.root # i /\ \A q \in Procs : dir[q] # i /\ cap[q].root # i /\ tmp[q].root # i
    BY <1>0 DEF UnusedInv
  <2>2. NoRoot # i /\ NoRecord.root = NoRoot
    BY RootAssumption, RecordFacts
  <2>3. dir'[p] # i /\ cap'[p].root # i /\ tmp'[p].root # i
    BY <2>1, <2>2 DEF Calm
  <2>4. \A q \in Procs \ {p} : dir'[q] # i /\ cap'[q].root # i /\ tmp'[q].root # i
    BY <2>1, <2>2 DEF Calm, Others
  <2> QED
    BY <2>3, <2>4
<1>3. LockInv'
  BY <1>0, LockKept
<1>4. DiskInv'
  BY <1>0, QuietCalm DEF DiskInv, DeliveredTreeSurvives
<1>5. ASSUME NEW q \in Procs \ {p} PROVE ProcInv(q)'
  <2>1. CapInv(q)' /\ DirInv(q)' /\ TmpInv(q)' /\ HoldInv(q)'
    BY <1>0, OthersKept DEF Calm
  <2>2. /\ pc'[q] = pc[q] /\ txn'[q] = txn[q] /\ dir'[q] = dir[q] /\ child'[q] = child[q]
        /\ fresh'[q] = fresh[q] /\ TreeInv(q)
    BY DEF Calm, Others, IInv, ProcInv
  <2>3. (Bare(q)' <=> Bare(q)) /\ (Making(q)' <=> Making(q))
    BY <2>2 DEF Bare, Making, Exchanged
  <2>4. TreeInv(q)'
    BY <1>0, <2>2, <2>3, QuietCalm DEF TreeInv, Exchanged
  <2> QED
    BY <2>1, <2>4 DEF ProcInv
<1> QED
  BY <1>1, <1>2, <1>3, <1>4, <1>5 DEF IInv

\* A process that has exited relies on nothing but the lease its child holds.
LEMMA ExitProc ==
  ASSUME IInv, NEW p \in Procs, NEW code \in Results, Exit(p, code), child' = child,
         cap'[p] \in {cap[p], rec, NoRecord}, condemned \subseteq condemned',
         fresh'[p] => cap'[p] = rec' /\ rec' # NoRecord,
         child[p] # NoRoot => root' = child[p] /\ content'[child[p]] = "complete"
  PROVE  ProcInv(p)'
<1>0. /\ TypeOK /\ pc'[p] = "idle" /\ txn'[p] = "none" /\ LockMove(p) /\ CapInv(p) /\ HoldInv(p)
      /\ rec.st = "Tombstoned" => rec.root \in condemned
  BY ExitMoves DEF IInv, ProcInv, Moved, DiskInv
<1>1. CapInv(p)'
  BY <1>0, RecordFacts DEF CapInv, Exchanged, PublishSteps, ExecSteps, CompleteSteps, GcSteps
<1>2. DirInv(p)'
  BY <1>0 DEF DirInv, Creating, Leasing, Leased, ExecSteps
<1>3. TmpInv(p)'
  BY <1>0 DEF TmpInv
<1>4. HoldInv(p)'
  <2>1. child[p] # NoRoot => child[p] \in Roots
    BY <1>0 DEF TypeOK
  <2>2. child[p] # NoRoot => p \in sh'[child[p]]
    BY <1>0, <2>1 DEF HoldInv, Exit, Inherits
  <2> QED
    BY <1>0, <2>2 DEF HoldInv, CreateSteps, GcSteps, Leased, Sharing
<1>5. TreeInv(p)'
  BY <1>0 DEF TreeInv, Bare, Making, Unbuilt, Built
<1> QED
  BY <1>1, <1>2, <1>3, <1>4, <1>5 DEF ProcInv

\* What is the same after a step that moves p and nothing else.
Same(p) ==
  /\ UNCHANGED <<rec, root, tomb, content, child, op, cap, fresh, clean, dir, delivered, condemned>>
  /\ tmp' = tmp \/ tmp' = [tmp EXCEPT ![p] = NoRecord]

LEMMA SameCalm ==
  ASSUME TypeOK, NEW p \in Procs, Same(p), LockMove(p),
         \A q \in Procs \ {p} : pc'[q] = pc[q] /\ txn'[q] = txn[q]
  PROVE  Calm(p)
<1>1. Others(p)
  BY DEF Others, Same
<1>2. tmp'[p] = tmp[p] \/ tmp'[p] = NoRecord
  BY DEF Same, TypeOK
<1>3. \A q \in Procs \ {p} : tmp'[q] = tmp[q] /\ fresh'[q] = fresh[q]
  BY DEF Same, TypeOK
<1>4. tmp'[p].root \in {tmp[p].root, dir[p], cap[p].root, NoRoot}
  BY <1>2, RecordFacts
<1> QED
  BY <1>1, <1>3, <1>4 DEF Calm, Same

LEMMA ExitCalm ==
  ASSUME IInv, TypeOK', NEW p \in Procs, NEW code \in Results, Exit(p, code), Same(p)
  PROVE  IInv'
<1>1. ProcInv(p)'
  <2>1. fresh[p] => cap[p] = rec /\ rec # NoRecord
    BY DEF IInv, ProcInv, CapInv
  <2>2. child[p] # NoRoot => root = child[p] /\ content[child[p]] = "complete"
    BY DEF IInv, ProcInv, TreeInv
  <2> QED
    BY <2>1, <2>2, ExitProc DEF Same
<1>2. Calm(p)
  BY ExitMoves, SameCalm DEF IInv, Moved
<1> QED
  BY <1>1, <1>2, CalmStep

\* p goes on: all there is left to show is what it relies on at its new place.
LEMMA GotoCalm ==
  ASSUME IInv, TypeOK', NEW p \in Procs, NEW to \in Locations, Goto(p, to), Same(p),
         pc'[p] = to /\ txn'[p] = "none" /\ UNCHANGED lockVars => ProcInv(p)'
  PROVE  IInv'
<1>1. Calm(p) /\ ProcInv(p)'
  BY GotoMoves, SameCalm DEF IInv, Moved
<1> QED
  BY <1>1, CalmStep

LEMMA CheckCalm ==
  ASSUME IInv, TypeOK', NEW p \in Procs, NEW at, NEW ok, NEW to, NEW code,
         Check(p, at, ok, to, code), ~ok => code \in Results,
         ok /\ pc[p] = at =>
           /\ to \in Locations
           /\ Same(p) /\ pc'[p] = to /\ txn'[p] = "none" /\ UNCHANGED lockVars => ProcInv(p)'
  PROVE  IInv'
<1>1. Same(p) /\ pc[p] = at
  BY DEF Check, Same, diskVars, txnVars, histVars
<1>2. CASE ok
  BY <1>1, <1>2, GotoCalm DEF Check
<1>3. CASE ~ok
  BY <1>1, <1>3, ExitCalm DEF Check
<1> QED
  BY <1>2, <1>3

(***************************************************************************)
(* create.                                                                 *)
(***************************************************************************)
LEMMA PrepareKeeps ==
  ASSUME IInv, TypeOK', NEW p \in Procs, Prepare(p)
  PROVE  IInv'
<1>0. TypeOK /\ "link" \in Locations /\ "error" \in Results /\ pc[p] = "prepare"
  BY LocationFacts DEF IInv, CreateSteps, Prepare
<1>1. CASE rec = NoRecord
  <2>1. /\ Goto(p, "link") /\ tmp' = [tmp EXCEPT ![p] = Record("Prepared", NoRoot)]
        /\ UNCHANGED <<rec, root, tomb, content, child, op, cap, fresh, clean, dir, delivered,
                       condemned>>
    BY <1>1 DEF Prepare, diskVars, histVars
  <2>2. /\ pc'[p] = "link" /\ txn'[p] = "none" /\ LockMove(p) /\ UNCHANGED lockVars
        /\ \A q \in Procs \ {p} : pc'[q] = pc[q] /\ txn'[q] = txn[q]
    BY <1>0, <2>1, GotoMoves DEF Moved
  <2>3. tmp'[p] = Record("Prepared", NoRoot) /\ \A q \in Procs \ {p} : tmp'[q] = tmp[q]
    BY <1>0, <2>1 DEF TypeOK
  <2>4. Calm(p)
    BY <2>1, <2>2, <2>3, RecordFacts DEF Calm, Others
  <2>5. ProcInv(p)'
    BY <1>0, <2>1, <2>2, <2>3
       DEF IInv, ProcInv, lockVars, CapInv, DirInv, TmpInv, HoldInv, TreeInv,
           Bare, Making, Exchanged, CreateSteps, PublishSteps, ExecSteps, CompleteSteps,
           GcSteps, Creating, Leasing, Leased, Sharing, Unbuilt, Built
  <2> QED
    BY <2>4, <2>5, CalmStep
<1>2. CASE rec # NoRecord
  BY <1>0, <1>2, ExitCalm DEF Prepare, Same, diskVars, histVars
<1> QED
  BY <1>1, <1>2

\* After a step that changes the record, and the tree not: what is to be shown.
LEMMA RecordStep ==
  ASSUME IInv, TypeOK', NEW p \in Procs, Others(p), LockMove(p),
         UNCHANGED <<root, tomb, content, delivered>>, dir'[p] = dir[p],
         condemned \subseteq condemned',
         \A q \in Procs \ {p} : ~fresh'[q] /\ tmp'[q] = tmp[q],
         rec'.root \in {NoRoot, dir[p], cap[p].root}, cap'[p].root \in {cap[p].root, rec'.root},
         tmp'[p].root \in {NoRoot, rec.root, tmp[p].root},
         condemned' \subseteq condemned \cup {rec'.root},
         rec' = NoRecord => Quiet',
         rec'.st = "Tombstoned" => rec'.root \in condemned',
         Quiet /\ (\E q \in Procs \ {p} : Bare(q) /\ pc[q] \in CreateSteps) => Quiet',
         condemned' # condemned /\ Quiet => root # rec'.root,
         ProcInv(p)'
  PROVE  IInv'
<1>0. /\ TypeOK /\ TombInv /\ UnusedInv /\ LockInv /\ DiskInv
  BY DEF IInv
<1>1. TombInv'
  BY <1>0 DEF TombInv
<1>2. UnusedInv'
  <2> SUFFICES ASSUME NEW i \in Roots, content[i] = "unused"
               PROVE  /\ rec'.root # i /\ i \notin condemned'
                      /\ \A q \in Procs : dir'[q] # i /\ cap'[q].root # i /\ tmp'[q].root # i
    BY <1>0 DEF UnusedInv
  <2>1. /\ rec.root # i /\ i \notin condemned /\ NoRoot # i
        /\ \A q \in Procs : dir[q] # i /\ cap[q].root # i /\ tmp[q].root # i
    BY <1>0, RootAssumption DEF UnusedInv
  <2>2. rec'.root # i /\ i \notin condemned' /\ cap'[p].root # i /\ tmp'[p].root # i
    BY <2>1
  <2>3. \A q \in Procs \ {p} : dir'[q] # i /\ cap'[q].root # i /\ tmp'[q].root # i
    BY <2>1 DEF Others
  <2> QED
    BY <2>1, <2>2, <2>3
<1>3. LockInv'
  BY <1>0, LockKept
<1>4. DiskInv'
  BY <1>0 DEF DiskInv, DeliveredTreeSurvives
<1>5. ASSUME NEW q \in Procs \ {p} PROVE ProcInv(q)'
  <2>1. CapInv(q)' /\ DirInv(q)' /\ TmpInv(q)' /\ HoldInv(q)'
    BY OthersKept
  <2>2. /\ pc'[q] = pc[q] /\ txn'[q] = txn[q] /\ dir'[q] = dir[q] /\ child'[q] = child[q]
        /\ ~fresh'[q] /\ TreeInv(q)
    BY DEF Others, IInv, ProcInv
  <2>3. (Bare(q)' => Bare(q)) /\ (Making(q)' => pc[q] = "mat" /\ ~Exchanged(q))
    BY <2>2 DEF Bare, Making, Exchanged
  <2>4. Bare(q)' => Quiet'
    BY <2>2, <2>3 DEF TreeInv, Bare, CreateSteps
  <2>5. Making(q)' => dir'[q] \notin condemned'
    <3>1. pc[q] = "mat" /\ ~Exchanged(q) => Quiet /\ root = dir[q] /\ dir[q] \notin condemned
      BY <2>2 DEF TreeInv, Bare, Making
    <3> QED
      BY <2>2, <2>3, <3>1
  <2>6. TreeInv(q)'
    BY <2>2, <2>4, <2>5 DEF TreeInv, Exchanged
  <2> QED
    BY <2>1, <2>6 DEF ProcInv
<1> QED
  BY <1>1, <1>2, <1>3, <1>4, <1>5 DEF IInv

LEMMA LinkKeeps ==
  ASSUME IInv, TypeOK', NEW p \in Procs, Link(p)
  PROVE  IInv'
<1>0. /\ TypeOK /\ "mkdir" \in Locations /\ "error" \in Results /\ pc[p] = "link"
      /\ tmp' = [tmp EXCEPT ![p] = NoRecord] /\ tmp[p] = Record("Prepared", NoRoot)
      /\ UNCHANGED <<root, tomb, content, child, op, clean, dir, delivered, condemned>>
      /\ rec = NoRecord => Quiet
  BY LocationFacts DEF IInv, ProcInv, TmpInv, DiskInv, CreateSteps, Link, diskVars, histVars
<1>1. CASE rec = NoRecord
  <2>1. /\ Goto(p, "mkdir") /\ rec' = tmp[p] /\ cap' = [cap EXCEPT ![p] = tmp[p]]
        /\ fresh' = [q \in Procs |-> q = p]
    BY <1>1 DEF Link
  <2>2. /\ pc'[p] = "mkdir" /\ txn'[p] = "none" /\ LockMove(p) /\ UNCHANGED lockVars
        /\ \A q \in Procs \ {p} : pc'[q] = pc[q] /\ txn'[q] = txn[q]
    BY <1>0, <2>1, GotoMoves DEF Moved
  <2>3. /\ cap'[p] = rec' /\ tmp'[p] = NoRecord /\ fresh'[p]
        /\ \A q \in Procs \ {p} : cap'[q] = cap[q] /\ tmp'[q] = tmp[q] /\ ~fresh'[q]
    BY <1>0, <2>1 DEF TypeOK
  <2>4. rec'.st = "Prepared" /\ rec'.root = NoRoot /\ rec' # NoRecord
    BY <1>0, <2>1, RecordFacts
  <2>5. Quiet'
    BY <1>0, <1>1, <2>3, <2>4 DEF Quiet
  <2>6. Others(p)
    BY <1>0, <2>2, <2>3 DEF Others
  <2>7. ProcInv(p)'
    BY <1>0, <2>2, <2>3, <2>4, <2>5
       DEF IInv, ProcInv, lockVars, CapInv, DirInv, TmpInv, HoldInv, TreeInv,
           Bare, Making, Exchanged, CreateSteps, PublishSteps, ExecSteps, CompleteSteps,
           GcSteps, Creating, Leasing, Leased, Sharing, Unbuilt, Built
  <2> QED
    BY <1>0, <2>2, <2>3, <2>4, <2>5, <2>6, <2>7, RecordFacts, RecordStep
<1>2. CASE rec # NoRecord
  BY <1>0, <1>2, ExitCalm DEF Link, Same
<1> QED
  BY <1>1, <1>2

\* remove_record_capability, where nothing but an unnamed directory is left.
LEMMA DropKeeps ==
  ASSUME IInv, TypeOK', NEW p \in Procs, NEW at, NEW code \in Results, DropRecord(p, at, code),
         at \in {"abort_record", "remove_prepared", "drop_record"}
  PROVE  IInv'
<1>0. /\ TypeOK /\ "recovery" \in Results /\ pc[p] = at
      /\ UNCHANGED <<root, tomb, content, child, op, cap, tmp, clean, dir, delivered, condemned>>
  BY LocationFacts DEF IInv, DropRecord, diskVars, histVars
<1>1. CASE fresh[p]
  <2>1. Exit(p, code) /\ rec' = NoRecord /\ fresh' = [q \in Procs |-> FALSE]
    BY <1>1 DEF DropRecord
  <2>2. \A q \in Procs : ~fresh'[q]
    BY <2>1
  <2>3. LockMove(p) /\ Others(p)
    BY <1>0, <2>1, ExitMoves DEF Others, Moved
  <2>4. Quiet
    BY <1>0, <1>1 DEF IInv, ProcInv, TreeInv, Bare
  <2>5. Quiet' /\ rec'.root = NoRoot
    BY <1>0, <2>1, <2>4, RecordFacts DEF Quiet
  <2>6. child[p] # NoRoot => root' = child[p] /\ content'[child[p]] = "complete"
    BY <1>0 DEF IInv, ProcInv, TreeInv
  <2>7. ProcInv(p)'
    BY <1>0, <2>1, <2>2, <2>6, ExitProc
  <2> QED
    BY <1>0, <2>1, <2>2, <2>3, <2>5, <2>7, RecordFacts, RecordStep
<1>2. CASE ~fresh[p]
  BY <1>0, <1>2, ExitCalm DEF DropRecord, Same
<1> QED
  BY <1>1, <1>2

(***************************************************************************)
(* Record transactions.                                                    *)
(***************************************************************************)
After == [mat |-> "build", ready |-> "deliver", tombstone |-> "release", journal |-> "settle",
          settle |-> "published"]

LEMMA NewRoot ==
  ASSUME IInv, NEW p \in Procs, pc[p] \in Replacing
  PROVE  /\ New(p).root \in {dir[p], cap[p].root} /\ New(p) # NoRecord
         /\ pc[p] # "mat" => New(p).root = cap[p].root
         /\ New(p).st = "Tombstoned" <=> pc[p] = "tombstone"
         /\ pc[p] = "mat" => New(p) = Record("Materializing", dir[p])
         /\ pc[p] = "ready" => New(p) = Record("Ready", dir[p])
         /\ pc[p] \in {"journal", "settle"} => New(p).st = "Ready"
<1>0. CapInv(p) /\ DirInv(p) /\ cap[p] \in Records
  BY DEF IInv, ProcInv, TypeOK
<1>1. CASE pc[p] = "mat"
  <2>1. New(p) = Record("Materializing", dir[p])
    BY <1>1 DEF New
  <2> QED
    BY <1>1, <2>1, RecordFacts
<1>2. CASE pc[p] = "ready"
  <2>1. New(p) = Record("Ready", dir[p]) /\ cap[p].root = dir[p]
    BY <1>0, <1>2 DEF New, DirInv, Creating
  <2> QED
    BY <1>2, <2>1, RecordFacts
<1>3. CASE pc[p] = "tombstone"
  <2>1. New(p) = Record("Tombstoned", cap[p].root)
    BY <1>3 DEF New
  <2> QED
    BY <1>3, <2>1, RecordFacts
<1>4. CASE pc[p] \in {"journal", "settle"}
  BY <1>0, <1>4, RecordKinds, RecordFacts DEF New, Busy, CapInv, PublishSteps
<1> QED
  BY <1>1, <1>2, <1>3, <1>4 DEF Replacing

LEMMA WriteKeeps ==
  ASSUME IInv, TypeOK', NEW p \in Procs, NEW new, TxnWrite(p, new), pc[p] \in Replacing,
         new = New(p), UNCHANGED <<diskVars, child, op, dir, delivered>>
  PROVE  IInv'
<1>0. /\ TypeOK /\ "recovery" \in Results /\ "written" \in TxnPhases /\ txn[p] = "none"
      /\ UNCHANGED <<rec, root, tomb, content, child, op, cap, fresh, clean, dir, delivered, condemned>>
  BY LocationFacts DEF IInv, TxnWrite, diskVars, TxnPhases
<1>1. CASE fresh[p]
  <2>1. tmp' = [tmp EXCEPT ![p] = new] /\ Within(p, "written")
    BY <1>1 DEF TxnWrite
  <2>2. /\ pc' = pc /\ txn'[p] = "written" /\ LockMove(p) /\ UNCHANGED lockVars
        /\ \A q \in Procs \ {p} : pc'[q] = pc[q] /\ txn'[q] = txn[q]
    BY <1>0, <2>1, WithinStays DEF Stayed
  <2>3. tmp'[p] = New(p) /\ \A q \in Procs \ {p} : tmp'[q] = tmp[q]
    BY <1>0, <2>1 DEF TypeOK
  <2>4. Calm(p)
    BY <1>0, <2>2, <2>3, NewRoot DEF Calm, Others
  <2>5. TmpInv(p)'
    <3>1. New(p)' = New(p)
      BY <1>0, <2>2 DEF New, Busy
    <3> QED
      BY <2>2, <2>3, <3>1 DEF TmpInv, Replacing
  <2>6. CapInv(p) /\ DirInv(p) /\ HoldInv(p) /\ TreeInv(p) /\ ~Exchanged(p)
    BY <1>0 DEF IInv, ProcInv, Exchanged
  <2>7. CapInv(p)' /\ DirInv(p)'
    BY <1>0, <2>2, <2>6 DEF CapInv, DirInv, Exchanged
  <2>8. HoldInv(p)'
    BY <1>0, <2>2, <2>6 DEF HoldInv, lockVars
  <2>9. TreeInv(p)'
    BY <1>0, <2>2, <2>6 DEF TreeInv, Bare, Quiet, Making, Exchanged
  <2> QED
    BY <2>4, <2>5, <2>7, <2>8, <2>9, CalmStep DEF ProcInv
<1>2. CASE ~fresh[p]
  BY <1>0, <1>2, ExitCalm DEF TxnWrite, Same
<1> QED
  BY <1>1, <1>2

LEMMA CompareKeeps ==
  ASSUME IInv, TypeOK', NEW p \in Procs, TxnCompare(p), pc[p] \in Replacing,
         UNCHANGED <<diskVars, child, op, dir, delivered>>
  PROVE  IInv'
<1>0. /\ TypeOK /\ "recovery" \in Results /\ "compared" \in TxnPhases /\ txn[p] = "written"
      /\ UNCHANGED <<rec, root, tomb, content, child, op, cap, fresh, clean, dir, delivered, condemned>>
  BY LocationFacts DEF IInv, TxnCompare, diskVars, TxnPhases
<1>1. CASE fresh[p] /\ tmp[p] # NoRecord
  <2>1. tmp' = tmp /\ Within(p, "compared")
    BY <1>1 DEF TxnCompare
  <2>2. /\ pc' = pc /\ txn'[p] = "compared" /\ LockMove(p) /\ UNCHANGED lockVars
        /\ \A q \in Procs \ {p} : pc'[q] = pc[q] /\ txn'[q] = txn[q]
    BY <1>0, <2>1, WithinStays DEF Stayed
  <2>4. Calm(p)
    BY <1>0, <2>1, <2>2, SameCalm DEF Same
  <2>6. CapInv(p) /\ DirInv(p) /\ TmpInv(p) /\ HoldInv(p) /\ TreeInv(p) /\ ~Exchanged(p)
    BY <1>0 DEF IInv, ProcInv, Exchanged
  <2>5. TmpInv(p)'
    <3>1. New(p)' = New(p)
      BY <1>0, <2>2 DEF New, Busy
    <3> QED
      BY <1>0, <2>1, <2>2, <2>6, <3>1 DEF TmpInv, Replacing
  <2>7. CapInv(p)' /\ DirInv(p)'
    BY <1>0, <2>2, <2>6 DEF CapInv, DirInv, Exchanged
  <2>8. HoldInv(p)'
    BY <1>0, <2>2, <2>6 DEF HoldInv, lockVars
  <2>9. TreeInv(p)'
    BY <1>0, <2>2, <2>6 DEF TreeInv, Bare, Quiet, Making, Exchanged
  <2> QED
    BY <2>4, <2>5, <2>7, <2>8, <2>9, CalmStep DEF ProcInv
<1>2. CASE ~(fresh[p] /\ tmp[p] # NoRecord)
  BY <1>0, <1>2, ExitCalm DEF TxnCompare, Same
<1> QED
  BY <1>1, <1>2

LEMMA ExchangeKeeps ==
  ASSUME IInv, TypeOK', NEW p \in Procs, TxnExchange(p), pc[p] \in Replacing,
         UNCHANGED <<diskVars, child, op, dir, delivered>>
  PROVE  IInv'
<1>0. /\ TypeOK /\ "recovery" \in Results /\ "exchanged" \in TxnPhases /\ txn[p] = "compared"
      /\ UNCHANGED <<root, tomb, content, child, op, dir, delivered>>
      /\ CapInv(p) /\ DirInv(p) /\ TmpInv(p) /\ HoldInv(p) /\ TreeInv(p) /\ ~Exchanged(p)
  BY LocationFacts DEF IInv, ProcInv, TxnExchange, diskVars, TxnPhases, Exchanged
<1>1. CASE rec # NoRecord /\ tmp[p] # NoRecord /\ Within(p, "exchanged") /\ rec' = tmp[p]
           /\ tmp' = [tmp EXCEPT ![p] = rec] /\ cap' = [cap EXCEPT ![p] = tmp[p]]
           /\ clean' = [clean EXCEPT ![p] = fresh[p]] /\ fresh' = [q \in Procs |-> q = p]
           /\ condemned' = IF rec'.st = "Tombstoned" THEN condemned \cup {rec'.root}
                           ELSE condemned
  <2>1. /\ pc' = pc /\ txn'[p] = "exchanged" /\ LockMove(p) /\ UNCHANGED lockVars
        /\ \A q \in Procs \ {p} : pc'[q] = pc[q] /\ txn'[q] = txn[q]
    BY <1>0, <1>1, WithinStays DEF Stayed
  <2>2. rec' = New(p) /\ cap'[p] = New(p) /\ fresh'[p] /\ tmp'[p] = rec
    BY <1>0, <1>1 DEF TmpInv, TypeOK
  <2>3. \A q \in Procs \ {p} : /\ cap'[q] = cap[q] /\ tmp'[q] = tmp[q] /\ clean'[q] = clean[q]
                               /\ ~fresh'[q]
    BY <1>0, <1>1 DEF TypeOK
  <2>4. Others(p)
    BY <1>0, <2>1, <2>3 DEF Others
  <2>5. CapInv(p)'
    BY <1>0, <1>1, <2>1, <2>2, NewRoot, RecordFacts
       DEF CapInv, Exchanged, Replacing, PublishSteps, ExecSteps, CompleteSteps, GcSteps
  <2>6. DirInv(p)'
    BY <1>0, <2>1, <2>2, NewRoot, RecordFacts
       DEF DirInv, Exchanged, Replacing, Creating, Leasing, Leased, ExecSteps
  <2>7. TmpInv(p)' /\ HoldInv(p)'
    BY <1>0, <2>1 DEF TmpInv, HoldInv, Replacing, lockVars
  <2>8. TreeInv(p)'
    <3>1. pc[p] # "tombstone" => condemned' = condemned
      BY <1>1, <2>2, NewRoot
    <3>2. pc[p] \in Built => pc[p] = "ready"
      BY DEF Built, Replacing
    <3>3. Making(p)' => pc[p] = "mat" /\ Making(p)
      BY <1>0, <2>1 DEF Making, Exchanged, Replacing
    <3>4. ~Bare(p)' /\ ~(pc'[p] = "mat" /\ ~Exchanged(p)')
      BY <2>1 DEF Bare, Exchanged, Replacing
    <3> QED
      BY <1>0, <2>1, <3>1, <3>2, <3>3, <3>4 DEF TreeInv, Replacing
  <2>9. ASSUME Quiet, NEW q \in Procs \ {p}, Bare(q), pc[q] \in CreateSteps PROVE Quiet'
    <3>1. pc[p] \notin CreateSteps
      BY <2>9, HomeExcludes
    <3>2. pc[p] # "mat"
      BY <3>1 DEF CreateSteps
    <3> QED
      BY <1>0, <2>2, <2>3, <2>9, <3>2, NewRoot DEF Quiet
  <2>10. /\ condemned \subseteq condemned' /\ condemned' \subseteq condemned \cup {rec'.root}
         /\ rec'.st = "Tombstoned" => rec'.root \in condemned'
    BY <1>1
  <2>11. condemned' # condemned /\ Quiet => root # rec'.root
    <3>1. condemned' # condemned => rec'.root \in Roots /\ rec'.root = cap[p].root
      <4>1. condemned' # condemned => rec'.st = "Tombstoned"
        BY <1>1
      <4>2. rec' \in Records
        BY DEF TypeOK
      <4>3. rec'.st = "Tombstoned" => rec'.root \in Roots
        BY <4>2, RecordKinds
      <4>4. rec'.st = "Tombstoned" => rec'.root = cap[p].root
        BY <2>2, NewRoot
      <4> QED
        BY <4>1, <4>3, <4>4
    <3> QED
      BY <3>1, RootAssumption DEF Quiet
  <2>12. ProcInv(p)'
    BY <2>5, <2>6, <2>7, <2>8 DEF ProcInv
  <2>13. rec' # NoRecord /\ rec'.root \in {NoRoot, dir[p], cap[p].root}
    BY <2>2, NewRoot
  <2> QED
    BY <1>0, <2>1, <2>2, <2>3, <2>4, <2>9, <2>10, <2>11, <2>12, <2>13, RecordStep
<1>2. CASE /\ tmp' = [tmp EXCEPT ![p] = NoRecord] /\ Exit(p, "recovery")
           /\ UNCHANGED <<rec, cap, clean, fresh, condemned>>
  BY <1>0, <1>2, ExitCalm DEF Same
<1> QED
  BY <1>1, <1>2 DEF TxnExchange

LEMMA SettleKeeps ==
  ASSUME IInv, TypeOK', NEW p \in Procs, pc[p] \in Replacing, TxnCheck(p, After[pc[p]]),
         UNCHANGED <<diskVars, child, op, dir, delivered>>
  PROVE  IInv'
<1>0. /\ TypeOK /\ "recovery" \in Results /\ Exchanged(p) /\ After[pc[p]] \in Locations
      /\ UNCHANGED <<rec, root, tomb, content, child, op, cap, fresh, clean, dir, delivered, condemned>>
      /\ CapInv(p) /\ DirInv(p) /\ TmpInv(p) /\ HoldInv(p) /\ TreeInv(p)
  BY LocationFacts
     DEF IInv, ProcInv, TxnCheck, diskVars, Exchanged, After, Replacing, CreateSteps, RemoveSteps,
         PublishSteps
<1>1. CASE fresh[p] /\ clean[p] /\ tmp[p] # NoRecord
  <2>1. tmp' = [tmp EXCEPT ![p] = NoRecord] /\ Goto(p, After[pc[p]])
    BY <1>1 DEF TxnCheck
  <2>2. ASSUME pc'[p] = After[pc[p]], txn'[p] = "none", UNCHANGED lockVars PROVE ProcInv(p)'
    <3>1. CapInv(p)' /\ DirInv(p)'
      BY <1>0, <2>2 DEF CapInv, DirInv, Exchanged, Replacing, After, Creating, Leasing, Leased,
                        ExecSteps, PublishSteps, CompleteSteps, GcSteps
    <3>2. TmpInv(p)' /\ HoldInv(p)'
      BY <1>0, <2>2 DEF TmpInv, HoldInv, Replacing, After, CreateSteps, GcSteps, Leased, Sharing,
                        lockVars
    <3>3. TreeInv(p)'
      BY <1>0, <2>2 DEF TreeInv, Bare, Making, Exchanged, Replacing, After, Unbuilt, Built
    <3> QED
      BY <3>1, <3>2, <3>3 DEF ProcInv
  <2> QED
    BY <1>0, <2>1, <2>2, GotoCalm DEF Same
<1>2. CASE ~(fresh[p] /\ clean[p] /\ tmp[p] # NoRecord)
  BY <1>0, <1>2, ExitCalm DEF TxnCheck, Same
<1> QED
  BY <1>1, <1>2

\* Any of the five record transactions.
LEMMA ReplaceKeeps ==
  ASSUME IInv, TypeOK', NEW p \in Procs, NEW at \in Replacing, NEW new,
         ReplaceRecord(p, at, new, After[at]), pc[p] = at => new = New(p)
  PROVE  IInv'
<1>0. /\ pc[p] = at /\ UNCHANGED <<diskVars, child, op, dir, delivered>>
      /\ TxnWrite(p, new) \/ TxnCompare(p) \/ TxnExchange(p) \/ TxnCheck(p, After[at])
  BY DEF ReplaceRecord
<1> QED
  BY <1>0, WriteKeeps, CompareKeeps, ExchangeKeeps, SettleKeeps

(***************************************************************************)
(* A step that changes the tree or what has been delivered.                *)
(***************************************************************************)
LEMMA TreeStep ==
  ASSUME IInv, TypeOK', NEW p \in Procs, Others(p), LockMove(p),
         UNCHANGED <<rec, cap, fresh, tmp, condemned, child>>,
         delivered' \subseteq delivered \cup {dir[p], rec.root},
         dir'[p] # dir[p] => content'[dir'[p]] # "unused",
         {root', tomb'} \subseteq {root, tomb, dir'[p], NoRoot},
         tomb' # NoRoot => root' = NoRoot,
         \A i \in Roots : content'[i] = content[i] \/ (i = dir'[p] /\ content'[i] # "unused"),
         rec = NoRecord => Quiet',
         \A i \in delivered' \ condemned : root' = i /\ content'[i] = "complete",
         \A q \in Procs \ {p} : TreeInv(q)',
         ProcInv(p)'
  PROVE  IInv'
<1>0. /\ TypeOK /\ TombInv /\ UnusedInv /\ LockInv /\ DiskInv
  BY DEF IInv
<1>1. TombInv'
  BY <1>0 DEF TombInv
<1>2. UnusedInv'
  <2> SUFFICES ASSUME NEW i \in Roots, content'[i] = "unused"
               PROVE  /\ root' # i /\ tomb' # i /\ i \notin delivered' /\ content[i] = "unused"
                      /\ \A q \in Procs : dir'[q] # i
    BY <1>0 DEF UnusedInv
  <2>1. content[i] = "unused"
    OBVIOUS
  <2>2. /\ root # i /\ tomb # i /\ i \notin delivered /\ NoRoot # i /\ rec.root # i
        /\ \A q \in Procs : dir[q] # i
    BY <1>0, <2>1, RootAssumption DEF UnusedInv
  <2>3. dir'[p] # i
    BY <2>2
  <2>4. \A q \in Procs \ {p} : dir'[q] # i
    BY <2>2 DEF Others
  <2> QED
    BY <2>1, <2>2, <2>3, <2>4
<1>3. LockInv'
  BY <1>0, LockKept
<1>4. DiskInv'
  BY <1>0 DEF DiskInv, DeliveredTreeSurvives
<1>5. ASSUME NEW q \in Procs \ {p} PROVE ProcInv(q)'
  BY OthersKept DEF ProcInv
<1> QED
  BY <1>1, <1>2, <1>3, <1>4, <1>5 DEF IInv

\* Beside a create that is under way, only exec and the end of a removal look at the tree.
LEMMA TreeBeside ==
  ASSUME IInv, NEW p \in Procs, pc[p] \in CreateSteps, Others(p), NEW q \in Procs \ {p},
         fresh'[q] = fresh[q], Bare(q) => Quiet',
         pc[q] = "spawn" => root' = dir[q] /\ content'[dir[q]] = "complete",
         child[q] # NoRoot => root' = child[q] /\ content'[child[q]] = "complete"
  PROVE  TreeInv(q)'
<1>1. pc[q] \notin CreateSteps
  BY HomeExcludes
<1>2. pc[q] # "mat" /\ pc[q] \notin Unbuilt \cup Built /\ ~Making(q)
  BY <1>1 DEF CreateSteps, Unbuilt, Built, Making
<1>3. /\ pc'[q] = pc[q] /\ txn'[q] = txn[q] /\ dir'[q] = dir[q] /\ child'[q] = child[q]
  BY DEF Others
<1>4. (Bare(q)' => Bare(q)) /\ ~Making(q)'
  BY <1>2, <1>3 DEF Bare, Making, Exchanged
<1> QED
  BY <1>2, <1>3, <1>4 DEF TreeInv

\* What p may rely on in the tree that another process uses.
LEMMA UsersOf ==
  ASSUME IInv, NEW q \in Procs
  PROVE  /\ Bare(q) => Quiet
         /\ pc[q] = "spawn" => dir[q] \in Roots /\ root = dir[q] /\ content[dir[q]] = "complete"
         /\ child[q] # NoRoot =>
              child[q] \in Roots /\ root = child[q] /\ content[child[q]] = "complete"
BY DEF IInv, ProcInv, TreeInv, DirInv, ExecSteps, TypeOK

LEMMA LookupKeeps ==
  ASSUME IInv, TypeOK', NEW p \in Procs, Lookup(p)
  PROVE  IInv'
<1>0. /\ TypeOK /\ DiskInv /\ TombInv /\ pc[p] = "lookup" /\ "prepare" \in Locations
      /\ {"refused", "recovery", "ok", "error"} \subseteq Results
      /\ UNCHANGED <<rec, root, tomb, content, child, op, cap, fresh, tmp, clean, dir, condemned>>
  BY LookupMoves, LocationFacts DEF IInv, CreateSteps
<1>1. CASE Goto(p, "prepare") /\ delivered' = delivered
  <2>1. ASSUME pc'[p] = "prepare", txn'[p] = "none", UNCHANGED lockVars
        PROVE  ProcInv(p)'
    BY <1>0, <1>1, <2>1
    DEF IInv, ProcInv, lockVars, CapInv, DirInv, TmpInv, HoldInv, TreeInv, Bare, Making,
        Exchanged, CreateSteps, PublishSteps, ExecSteps, CompleteSteps, GcSteps, Creating,
        Leasing, Leased, Sharing, Unbuilt, Built
  <2>2. Same(p)
    BY <1>0, <1>1 DEF Same
  <2> QED
    BY <1>0, <1>1, <2>1, <2>2, GotoCalm
<1>2. ASSUME NEW code \in {"refused", "recovery", "error"}, Exit(p, code), delivered' = delivered
      PROVE  IInv'
  BY <1>0, <1>2, ExitCalm DEF Same
<1>3. CASE Exit(p, "ok") /\ Loadable /\ delivered' = delivered \cup {rec.root}
  <2>1. LockMove(p) /\ Others(p)
    BY <1>0, <1>3, ExitMoves DEF Others, Moved
  <2>2. fresh[p] => cap[p] = rec /\ rec # NoRecord
    BY DEF IInv, ProcInv, CapInv
  <2>3. ProcInv(p)'
    BY <1>0, <1>3, <2>2, UsersOf, ExitProc
  <2>4. \A i \in delivered' \ condemned : root' = i /\ content'[i] = "complete"
    BY <1>0, <1>3 DEF DiskInv, DeliveredTreeSurvives, Loadable
  <2>5. Quiet' <=> Quiet
    BY <1>0 DEF Quiet
  <2>6. ASSUME NEW q \in Procs \ {p} PROVE TreeInv(q)'
    BY <1>0, <2>1, <2>5, TreeBeside, UsersOf DEF CreateSteps
  <2> QED
    BY <1>0, <1>3, <2>1, <2>3, <2>4, <2>5, <2>6, TreeStep DEF DiskInv, TombInv
<1> QED
  BY <1>1, <1>2, <1>3, LookupMoves

LEMMA MkdirKeeps ==
  ASSUME IInv, TypeOK', NEW p \in Procs, Mkdir(p)
  PROVE  IInv'
<1>0. /\ TypeOK /\ TombInv /\ UnusedInv /\ DiskInv /\ pc[p] = "mkdir" /\ "mat" \in Locations
      /\ "error" \in Results
      /\ UNCHANGED <<rec, tomb, child, op, cap, fresh, tmp, clean, delivered, condemned>>
      /\ CapInv(p) /\ DirInv(p) /\ TmpInv(p) /\ HoldInv(p) /\ TreeInv(p)
  BY LocationFacts DEF IInv, ProcInv, Mkdir, CreateSteps, txnVars, histVars
<1>1. ASSUME NEW i \in Roots, root = NoRoot, content[i] = "unused", root' = i,
             content' = [content EXCEPT ![i] = "building"], dir' = [dir EXCEPT ![p] = i],
             Goto(p, "mat")
      PROVE  IInv'
  <2>1. /\ pc'[p] = "mat" /\ txn'[p] = "none" /\ LockMove(p) /\ UNCHANGED lockVars
        /\ \A q \in Procs \ {p} : pc'[q] = pc[q] /\ txn'[q] = txn[q]
    BY <1>0, <1>1, GotoMoves DEF Moved
  <2>2. /\ dir'[p] = i /\ content'[i] = "building"
        /\ \A j \in Roots \ {i} : content'[j] = content[j]
        /\ \A q \in Procs \ {p} : dir'[q] = dir[q]
    BY <1>0, <1>1 DEF TypeOK
  <2>3. Others(p)
    BY <1>0, <2>1, <2>2 DEF Others
  <2>4. rec.root # i /\ i \notin condemned /\ i # NoRoot /\ \A q \in Procs : cap[q].root # i
    BY <1>0, <1>1, RootAssumption DEF UnusedInv
  <2>5. Quiet' /\ tomb = NoRoot
    BY <1>0, <1>1, <2>4 DEF TreeInv, Bare, Quiet
  <2>6. delivered \ condemned = {}
    BY <1>0, <1>1, RootAssumption DEF DiskInv, DeliveredTreeSurvives, TypeOK
  <2>7. ASSUME NEW q \in Procs \ {p} PROVE TreeInv(q)'
    BY <1>0, <1>1, <2>3, <2>5, TreeBeside, UsersOf, RootAssumption DEF CreateSteps
  <2>8. CapInv(p)' /\ DirInv(p)'
    BY <1>0, <2>1, <2>2
       DEF CapInv, DirInv, Exchanged, PublishSteps, ExecSteps, CompleteSteps, GcSteps, Creating,
           Leasing, Leased
  <2>9. TmpInv(p)' /\ HoldInv(p)'
    BY <1>0, <2>1, <2>2 DEF TmpInv, HoldInv, CreateSteps, GcSteps, Leased, Sharing, lockVars
  <2>10. TreeInv(p)'
    BY <1>0, <1>1, <2>1, <2>2, <2>4, <2>5, UsersOf, RootAssumption
       DEF TreeInv, Bare, Making, Exchanged, Unbuilt, Built
  <2>11. {root', tomb'} \subseteq {root, tomb, dir'[p], NoRoot} /\ tomb' = NoRoot
    BY <1>0, <1>1, <2>2, <2>5
  <2>12. ProcInv(p)'
    BY <2>8, <2>9, <2>10 DEF ProcInv
  <2> QED
    BY <1>0, <2>1, <2>2, <2>3, <2>5, <2>6, <2>7, <2>11, <2>12, TreeStep
<1>2. CASE Exit(p, "error") /\ UNCHANGED <<root, content, dir>>
  BY <1>0, <1>2, ExitCalm DEF Same
<1> QED
  BY <1>1, <1>2 DEF Mkdir

LEMMA MaterializingKeeps ==
  ASSUME IInv, TypeOK', NEW p \in Procs, Materializing(p)
  PROVE  IInv'
<1>1. pc[p] = "mat" => New(p) = Record("Materializing", dir[p])
  BY DEF New
<1> QED
  BY <1>1, ReplaceKeeps DEF Materializing, Replacing, After

LEMMA BuildKeeps ==
  ASSUME IInv, TypeOK', NEW p \in Procs, Build(p)
  PROVE  IInv'
<1>0. /\ TypeOK /\ DiskInv /\ TombInv /\ pc[p] = "build" /\ dir[p] \in Roots
      /\ {"recheck", "abort"} \subseteq Locations /\ "recovery" \in Results
      /\ UNCHANGED <<rec, root, tomb, child, op, cap, fresh, tmp, clean, dir, delivered, condemned>>
      /\ CapInv(p) /\ DirInv(p) /\ TmpInv(p) /\ HoldInv(p) /\ TreeInv(p)
  BY LocationFacts DEF IInv, ProcInv, Build, CreateSteps, txnVars, histVars, DirInv, Creating
<1>1. CASE /\ root = dir[p] /\ Goto(p, "recheck")
           /\ content' = [content EXCEPT ![dir[p]] = "complete"]
  <2>1. /\ pc'[p] = "recheck" /\ txn'[p] = "none" /\ LockMove(p) /\ UNCHANGED lockVars
        /\ \A q \in Procs \ {p} : pc'[q] = pc[q] /\ txn'[q] = txn[q]
    BY <1>0, <1>1, GotoMoves DEF Moved
  <2>2. content'[dir[p]] = "complete" /\ \A j \in Roots \ {dir[p]} : content'[j] = content[j]
    BY <1>0, <1>1 DEF TypeOK
  <2>3. Others(p)
    BY <1>0, <2>1 DEF Others
  <2>4. Quiet' <=> Quiet
    BY <1>0 DEF Quiet
  <2>5. ASSUME NEW q \in Procs \ {p} PROVE TreeInv(q)'
    BY <1>0, <1>1, <2>2, <2>3, <2>4, TreeBeside, UsersOf DEF CreateSteps
  <2>6. CapInv(p)' /\ DirInv(p)'
    BY <1>0, <2>1
       DEF CapInv, DirInv, Exchanged, PublishSteps, ExecSteps, CompleteSteps, GcSteps, Creating,
           Leasing, Leased
  <2>7. TmpInv(p)' /\ HoldInv(p)'
    BY <1>0, <2>1 DEF TmpInv, HoldInv, CreateSteps, GcSteps, Leased, Sharing, lockVars
  <2>8. TreeInv(p)'
    BY <1>0, <1>1, <2>1, <2>2, UsersOf
    DEF TreeInv, Bare, Making, Exchanged, Unbuilt, Built, HoldInv
  <2>9. ProcInv(p)'
    BY <2>6, <2>7, <2>8 DEF ProcInv
  <2>10. (rec = NoRecord => Quiet') /\ \A i \in delivered \ condemned : root' = i /\ content'[i] = "complete"
    BY <1>0, <1>1, <2>2, <2>4 DEF DiskInv, DeliveredTreeSurvives, TypeOK
  <2> QED
    BY <1>0, <2>1, <2>2, <2>3, <2>5, <2>9, <2>10, TreeStep DEF TombInv
<1>2. CASE Goto(p, "abort") /\ UNCHANGED content
  <2>1. ASSUME Same(p), pc'[p] = "abort", txn'[p] = "none", UNCHANGED lockVars
        PROVE  ProcInv(p)'
    BY <1>0, <2>1
       DEF ProcInv, Same, lockVars, CapInv, DirInv, TmpInv, HoldInv, TreeInv,
           Bare, Making, Exchanged, CreateSteps, PublishSteps, ExecSteps, CompleteSteps,
           GcSteps, Creating, Leasing, Leased, Sharing, Unbuilt, Built
  <2> QED
    BY <1>0, <1>2, <2>1, GotoCalm DEF Same
<1>3. CASE Exit(p, "recovery") /\ UNCHANGED content
  BY <1>0, <1>3, ExitCalm DEF Same
<1> QED
  BY <1>1, <1>2, <1>3 DEF Build

LEMMA CommitReadyKeeps ==
  ASSUME IInv, TypeOK', NEW p \in Procs, CommitReady(p)
  PROVE  IInv'
<1>1. CASE Check(p, "recheck", fresh[p] /\ root = dir[p], "ready", "recovery")
  <2>1. "ready" \in Locations /\ "recovery" \in Results
    BY LocationFacts DEF CreateSteps
  <2>2. ASSUME fresh[p], pc[p] = "recheck", Same(p), pc'[p] = "ready", txn'[p] = "none",
               UNCHANGED lockVars
        PROVE  ProcInv(p)'
    BY <2>2
       DEF IInv, ProcInv, Same, lockVars, CapInv, DirInv, TmpInv, HoldInv, TreeInv,
           Bare, Making, Exchanged, CreateSteps, PublishSteps, ExecSteps, CompleteSteps,
           GcSteps, Creating, Leasing, Leased, Sharing, Unbuilt, Built, Replacing
  <2> QED
    BY <1>1, <2>1, <2>2, CheckCalm
<1>2. CASE ReplaceRecord(p, "ready", Record("Ready", dir[p]), "deliver")
  <2>1. pc[p] = "ready" => New(p) = Record("Ready", dir[p])
    BY DEF New
  <2> QED
    BY <1>2, <2>1, ReplaceKeeps DEF Replacing, After
<1> QED
  BY <1>1, <1>2 DEF CommitReady

LEMMA DeliverKeeps ==
  ASSUME IInv, TypeOK', NEW p \in Procs, Deliver(p)
  PROVE  IInv'
<1>0. /\ TypeOK /\ DiskInv /\ TombInv /\ pc[p] = "deliver" /\ Exit(p, "ok") /\ "ok" \in Results
      /\ UNCHANGED <<rec, root, tomb, content, child, op, cap, fresh, tmp, clean, dir, condemned>>
      /\ delivered' = delivered \cup {dir[p]}
  BY LocationFacts DEF IInv, Deliver, diskVars, txnVars
<1>1. LockMove(p) /\ Others(p)
  BY <1>0, ExitMoves DEF Others, Moved
<1>2. fresh[p] => cap[p] = rec /\ rec # NoRecord
  BY DEF IInv, ProcInv, CapInv
<1>3. ProcInv(p)'
  BY <1>0, <1>2, UsersOf, ExitProc
<1>4. \A i \in delivered' \ condemned : root' = i /\ content'[i] = "complete"
  <2>1. dir[p] \notin condemned => root = dir[p] /\ content[dir[p]] = "complete"
    BY <1>0 DEF IInv, ProcInv, TreeInv, Built
  <2> QED
    BY <1>0, <2>1 DEF DiskInv, DeliveredTreeSurvives
<1>5. Quiet' <=> Quiet
  BY <1>0 DEF Quiet
<1>6. ASSUME NEW q \in Procs \ {p} PROVE TreeInv(q)'
  BY <1>0, <1>1, <1>5, TreeBeside, UsersOf DEF CreateSteps
<1> QED
  BY <1>0, <1>1, <1>3, <1>4, <1>5, <1>6, TreeStep DEF DiskInv, TombInv

LEMMA AbortCreateKeeps ==
  ASSUME IInv, TypeOK', NEW p \in Procs, AbortCreate(p)
  PROVE  IInv'
<1>0. /\ TypeOK /\ DiskInv /\ TombInv /\ TreeInv(p) /\ CapInv(p) /\ DirInv(p) /\ TmpInv(p)
      /\ HoldInv(p)
      /\ {"abort_tree", "abort_rest", "abort_record"} \subseteq Locations /\ "recovery" \in Results
      /\ "error" \in Results
  BY LocationFacts DEF IInv, ProcInv, CreateSteps
<1>1. CASE Check(p, "abort", fresh[p], "abort_tree", "recovery")
  <2>1. ASSUME pc[p] = "abort", Same(p), pc'[p] = "abort_tree", txn'[p] = "none",
               UNCHANGED lockVars
        PROVE  ProcInv(p)'
    BY <1>0, <2>1
       DEF ProcInv, Same, lockVars, CapInv, DirInv, TmpInv, HoldInv, TreeInv,
           Bare, Making, Exchanged, CreateSteps, PublishSteps, ExecSteps, CompleteSteps,
           GcSteps, Creating, Leasing, Leased, Sharing, Unbuilt, Built
  <2> QED
    BY <1>0, <1>1, <2>1, CheckCalm
<1>2. CASE ClearTree(p, "abort_tree", root = dir[p], "abort_rest")
  <2>0. /\ pc[p] = "abort_tree" /\ dir[p] \in Roots /\ content[dir[p]] # "complete"
        /\ UNCHANGED <<rec, root, tomb, child, op, cap, fresh, tmp, clean, dir, delivered, condemned>>
    BY <1>0, <1>2 DEF ClearTree, txnVars, histVars, DirInv, Creating, TreeInv, Unbuilt
  <2>1. CASE root = dir[p]
    <3>1. Goto(p, "abort_rest") /\ content' = [content EXCEPT ![dir[p]] = "partial"]
      BY <1>2, <2>1 DEF ClearTree
    <3>2. /\ pc'[p] = "abort_rest" /\ txn'[p] = "none" /\ LockMove(p) /\ UNCHANGED lockVars
          /\ \A q \in Procs \ {p} : pc'[q] = pc[q] /\ txn'[q] = txn[q]
      BY <1>0, <3>1, GotoMoves DEF Moved
    <3>3. content'[dir[p]] = "partial" /\ \A j \in Roots \ {dir[p]} : content'[j] = content[j]
      BY <1>0, <2>0, <3>1 DEF TypeOK
    <3>4. Others(p) /\ (Quiet' <=> Quiet)
      BY <2>0, <3>2 DEF Others, Quiet
    <3>5. ASSUME NEW q \in Procs \ {p} PROVE TreeInv(q)'
      BY <2>0, <3>3, <3>4, TreeBeside, UsersOf DEF CreateSteps
    <3>6. CapInv(p)' /\ DirInv(p)' /\ TmpInv(p)' /\ HoldInv(p)'
      BY <1>0, <2>0, <3>2
         DEF CapInv, DirInv, TmpInv, HoldInv, lockVars, Exchanged, CreateSteps, PublishSteps,
             ExecSteps, CompleteSteps, GcSteps, Creating, Leasing, Leased, Sharing
    <3>7. TreeInv(p)'
      BY <1>0, <2>0, <3>2, <3>3, UsersOf DEF TreeInv, Bare, Making, Unbuilt, Built, HoldInv
    <3>8. ProcInv(p)'
      BY <3>6, <3>7 DEF ProcInv
    <3>9. /\ rec = NoRecord => Quiet'
          /\ \A i \in delivered \ condemned : root' = i /\ content'[i] = "complete"
      BY <1>0, <2>0, <3>3, <3>4 DEF DiskInv, DeliveredTreeSurvives, TypeOK
    <3> QED
      BY <1>0, <2>0, <3>2, <3>3, <3>4, <3>5, <3>8, <3>9, TreeStep DEF TombInv
  <2>2. CASE root # dir[p]
    BY <1>0, <1>2, <2>0, <2>2, ExitCalm DEF ClearTree, Same
  <2> QED
    BY <2>1, <2>2
<1>3. CASE /\ pc[p] = "abort_rest"
           /\ \/ /\ root = dir[p] /\ content' = [content EXCEPT ![dir[p]] = "gone"]
                 /\ root' = NoRoot /\ Goto(p, "abort_record")
              \/ root # dir[p] /\ Exit(p, "recovery") /\ UNCHANGED <<content, root>>
           /\ UNCHANGED <<rec, tomb, child, op, txnVars, dir, seen, calls, faults, histVars>>
  <2>0. /\ dir[p] \in Roots /\ content[dir[p]] # "complete" /\ dir[p] # NoRoot
        /\ UNCHANGED <<rec, tomb, child, op, cap, fresh, tmp, clean, dir, delivered, condemned>>
    BY <1>0, <1>3, RootAssumption DEF txnVars, histVars, DirInv, Creating, TreeInv, Unbuilt
  <2>1. CASE root = dir[p]
    <3>1. /\ Goto(p, "abort_record") /\ content' = [content EXCEPT ![dir[p]] = "gone"]
          /\ root' = NoRoot
      BY <1>3, <2>1
    <3>2. /\ pc'[p] = "abort_record" /\ txn'[p] = "none" /\ LockMove(p) /\ UNCHANGED lockVars
          /\ \A q \in Procs \ {p} : pc'[q] = pc[q] /\ txn'[q] = txn[q]
      BY <1>0, <3>1, GotoMoves DEF Moved
    <3>3. content'[dir[p]] = "gone" /\ \A j \in Roots \ {dir[p]} : content'[j] = content[j]
      BY <1>0, <2>0, <3>1 DEF TypeOK
    <3>4. Others(p) /\ Quiet' /\ tomb' = NoRoot
      BY <1>0, <2>0, <2>1, <3>1, <3>2 DEF Others, Quiet, TombInv
    <3>5. ASSUME NEW q \in Procs \ {p} PROVE TreeInv(q)'
      BY <1>3, <2>0, <2>1, <3>4, TreeBeside, UsersOf DEF CreateSteps
    <3>6. CapInv(p)' /\ DirInv(p)' /\ TmpInv(p)' /\ HoldInv(p)'
      BY <1>0, <1>3, <2>0, <3>2
         DEF CapInv, DirInv, TmpInv, HoldInv, lockVars, Exchanged, CreateSteps, PublishSteps,
             ExecSteps, CompleteSteps, GcSteps, Creating, Leasing, Leased, Sharing
    <3>7. TreeInv(p)'
      BY <1>0, <1>3, <2>0, <3>2, <3>4, UsersOf DEF TreeInv, Bare, Making, Unbuilt, Built, HoldInv
    <3>8. ProcInv(p)'
      BY <3>6, <3>7 DEF ProcInv
    <3>9. delivered \ condemned = {}
      BY <1>0, <2>0, <2>1 DEF DiskInv, DeliveredTreeSurvives
    <3> QED
      BY <2>0, <3>1, <3>2, <3>3, <3>4, <3>5, <3>8, <3>9, TreeStep
  <2>2. CASE root # dir[p]
    BY <1>0, <1>3, <2>0, <2>2, ExitCalm DEF Same
  <2> QED
    BY <2>1, <2>2
<1>4. CASE DropRecord(p, "abort_record", "error")
  BY <1>0, <1>4, DropKeeps
<1> QED
  BY <1>1, <1>2, <1>3, <1>4 DEF AbortCreate

(***************************************************************************)
(* remove, exec and publish up to the record transaction.                  *)
(***************************************************************************)
\* After Loads p holds the record on disk and the root that it names.
Loaded(p, to) ==
  /\ UNCHANGED <<rec, root, tomb, content, child, op, tmp, delivered, condemned>>
  /\ UNCHANGED lockVars
  /\ pc[p] = "load" /\ pc'[p] = to /\ txn'[p] = "none"
  /\ cap'[p] = rec /\ dir'[p] = rec.root /\ fresh'[p]

LEMMA LoadsCalm ==
  ASSUME IInv, TypeOK', NEW p \in Procs, NEW commands, LoadStep(p, commands),
         NEW to \in Locations, Loads(p, to), Loaded(p, to) => ProcInv(p)'
  PROVE  IInv'
<1>0. /\ TypeOK /\ pc[p] = "load"
      /\ UNCHANGED <<rec, root, tomb, content, child, op, tmp, clean, delivered, condemned>>
      /\ cap' = [cap EXCEPT ![p] = rec] /\ fresh' = [fresh EXCEPT ![p] = TRUE]
      /\ dir' = [dir EXCEPT ![p] = rec.root] /\ Goto(p, to)
  BY DEF IInv, LoadStep, Loads, diskVars, histVars
<1>1. /\ pc'[p] = to /\ txn'[p] = "none" /\ LockMove(p) /\ UNCHANGED lockVars
      /\ \A q \in Procs \ {p} : pc'[q] = pc[q] /\ txn'[q] = txn[q]
  BY <1>0, GotoMoves DEF Moved
<1>2. /\ cap'[p] = rec /\ dir'[p] = rec.root /\ fresh'[p]
      /\ \A q \in Procs \ {p} : cap'[q] = cap[q] /\ dir'[q] = dir[q] /\ fresh'[q] = fresh[q]
  BY <1>0 DEF TypeOK
<1>3. Calm(p)
  BY <1>0, <1>1, <1>2 DEF Calm, Others
<1>4. Loaded(p, to)
  BY <1>0, <1>1, <1>2 DEF Loaded
<1> QED
  BY <1>3, <1>4, CalmStep

LEMMA RejectsCalm ==
  ASSUME IInv, TypeOK', NEW p \in Procs, NEW commands, LoadStep(p, commands),
         NEW code \in Results, Rejects(p, code)
  PROVE  IInv'
<1>1. Same(p) /\ Exit(p, code)
  BY DEF LoadStep, Rejects, Same, diskVars, histVars
<1> QED
  BY <1>1, ExitCalm

LEMMA LoadedProc ==
  ASSUME IInv, NEW p \in Procs, NEW to, Loaded(p, to),
         \/ to = "inspect" /\ rec.st = "Tombstoned"
         \/ to = "remove_prepared" /\ rec.st = "Prepared" /\ root = NoRoot /\ tomb = NoRoot
         \/ to = "share" /\ rec.st = "Ready"
         \/ to = "lease" /\ rec.st = "Ready" /\ op[p] \in {"remove", "force", "publish"}
         \/ to = "lease" /\ rec.st = "Materializing" /\ op[p] = "force"
  PROVE  ProcInv(p)'
<1>0. /\ CapInv(p) /\ HoldInv(p) /\ TmpInv(p) /\ TreeInv(p) /\ DiskInv /\ rec \in Records
      /\ rec # NoRecord /\ child[p] = NoRoot
      /\ rec.st \in {"Ready", "Materializing"} => rec.root \in Roots
  BY RecordFacts, RecordKinds DEF IInv, ProcInv, TypeOK, HoldInv, Loaded
<1>1. CapInv(p)'
  BY <1>0 DEF CapInv, Loaded, Exchanged, PublishSteps, ExecSteps, CompleteSteps, GcSteps, DiskInv
<1>2. DirInv(p)'
  BY <1>0 DEF DirInv, Loaded, Creating, Leasing, Leased, ExecSteps
<1>3. TmpInv(p)' /\ HoldInv(p)'
  BY <1>0 DEF TmpInv, HoldInv, Loaded, CreateSteps, GcSteps, Leased, Sharing, lockVars
<1>4. to = "remove_prepared" => Quiet'
  BY <1>0, RecordFacts DEF Quiet, Loaded
<1>5. TreeInv(p)'
  BY <1>0, <1>4 DEF TreeInv, Loaded, Bare, Making, Unbuilt, Built
<1> QED
  BY <1>1, <1>2, <1>3, <1>5 DEF ProcInv

LEMMA LoadForKeeps ==
  ASSUME IInv, TypeOK', NEW p \in Procs, LoadForRemove(p) \/ LoadForExec(p) \/ LoadForPublish(p)
  PROVE  IInv'
<1>0. PICK commands : LoadStep(p, commands)
  BY LoadsWhere
<1>1. {"inspect", "lease", "remove_prepared", "share"} \subseteq Locations
  BY LocationFacts DEF CompleteSteps, RemoveSteps, ExecSteps
<1>2. ASSUME NEW to \in {"inspect", "lease", "remove_prepared", "share"}, Loads(p, to),
             \/ to = "inspect" /\ rec.st = "Tombstoned"
             \/ to = "remove_prepared" /\ rec.st = "Prepared" /\ root = NoRoot /\ tomb = NoRoot
             \/ to = "share" /\ rec.st = "Ready"
             \/ to = "lease" /\ rec.st = "Ready" /\ op[p] \in {"remove", "force", "publish"}
             \/ to = "lease" /\ rec.st = "Materializing" /\ op[p] = "force"
      PROVE  IInv'
  <2>1. Loaded(p, to) => ProcInv(p)'
    BY <1>2, LoadedProc
  <2> QED
    BY <1>0, <1>1, <1>2, <2>1, LoadsCalm
<1>3. ASSUME NEW code \in Results, Rejects(p, code) PROVE IInv'
  BY <1>0, <1>3, RejectsCalm
<1>4. {"ok", "refused", "error", "recovery"} \subseteq Results
  BY LocationFacts
<1>5. CASE LoadForRemove(p)
  <2>1. op[p] \in {"remove", "force"}
    BY <1>5 DEF LoadForRemove, LoadStep
  <2>2. CASE rec = NoRecord
    BY <1>3, <1>4, <1>5, <2>2, RecordFacts DEF LoadForRemove
  <2>3. CASE rec.busy /\ Rejects(p, "refused")
    BY <1>3, <1>4, <2>3
  <2>4. CASE rec.st = "Tombstoned" /\ Loads(p, "inspect")
    BY <1>2, <2>4
  <2>5. CASE rec.st = "Ready" /\ IF Loadable THEN Loads(p, "lease") ELSE Rejects(p, "error")
    BY <1>2, <1>3, <1>4, <2>1, <2>5
  <2>6. CASE Rejects(p, "refused")
    BY <1>3, <1>4, <2>6
  <2>7. CASE /\ rec.st = "Materializing" /\ op[p] = "force"
             /\ IF root = rec.root THEN Loads(p, "lease") ELSE Rejects(p, "recovery")
    BY <1>2, <1>3, <1>4, <2>7
  <2>8. CASE /\ rec.st = "Prepared" /\ op[p] = "force"
             /\ IF root = NoRoot /\ tomb = NoRoot
                  THEN Loads(p, "remove_prepared") ELSE Rejects(p, "recovery")
    BY <1>2, <1>3, <1>4, <2>8
  <2> QED
    BY <1>5, <2>2, <2>3, <2>4, <2>5, <2>6, <2>7, <2>8 DEF LoadForRemove
<1>6. CASE LoadForExec(p)
  BY <1>2, <1>3, <1>4, <1>6 DEF LoadForExec, Loadable
<1>7. CASE LoadForPublish(p)
  <2>1. op[p] = "publish"
    BY <1>7 DEF LoadForPublish, LoadStep
  <2> QED
    BY <1>2, <1>3, <1>4, <1>7, <2>1 DEF LoadForPublish, Loadable
<1> QED
  BY <1>5, <1>6, <1>7

LEMMA TryLeaseKeeps ==
  ASSUME IInv, TypeOK', NEW p \in Procs, NEW at, NEW to, TryLease(p, at, to),
         <<at, to>> \in {<<"lease", "revalidate">>, <<"tomb_lease", "tomb_revalidate">>}
  PROVE  IInv'
<1>0. /\ TypeOK /\ pc[p] = at /\ "busy" \in Results /\ dir[p] \in Roots
      /\ UNCHANGED <<rec, root, tomb, content, child, op, cap, fresh, tmp, clean, dir, delivered,
                     condemned>>
      /\ CapInv(p) /\ DirInv(p) /\ TmpInv(p) /\ HoldInv(p) /\ TreeInv(p)
  BY LocationFacts
     DEF IInv, ProcInv, TryLease, diskVars, txnVars, histVars, DirInv, Leasing
<1>1. CASE Unleased(dir[p])
  <2>1. /\ ex' = [ex EXCEPT ![dir[p]] = {p}] /\ pc' = [pc EXCEPT ![p] = to]
        /\ UNCHANGED <<txn, home, sh>>
    BY <1>1 DEF TryLease
  <2>2. /\ ex'[dir[p]] = {p} /\ \A i \in Roots \ {dir[p]} : ex'[i] = ex[i]
        /\ pc'[p] = to /\ \A q \in Procs \ {p} : pc'[q] = pc[q]
    BY <1>0, <2>1 DEF TypeOK
  <2>3. LockMove(p)
    BY <1>0, <1>1, <2>1, <2>2 DEF LockMove
  <2>4. Calm(p)
    BY <1>0, <2>1, <2>2, <2>3, SameCalm DEF Same
  <2>5. CapInv(p)' /\ DirInv(p)'
    BY <1>0, <2>1, <2>2
       DEF CapInv, DirInv, Exchanged, PublishSteps, ExecSteps, CompleteSteps, GcSteps, Creating,
           Leasing, Leased
  <2>6. TmpInv(p)' /\ HoldInv(p)'
    BY <1>0, <2>1, <2>2 DEF TmpInv, HoldInv, CreateSteps, GcSteps, Leased, Sharing, Replacing
  <2>7. TreeInv(p)'
    BY <1>0, <2>1, <2>2 DEF TreeInv, Bare, Making, Unbuilt, Built
  <2> QED
    BY <2>4, <2>5, <2>6, <2>7, CalmStep DEF ProcInv
<1>2. CASE ~Unleased(dir[p])
  BY <1>0, <1>2, ExitCalm DEF TryLease, Same
<1> QED
  BY <1>1, <1>2

LEMMA RevalidateKeeps ==
  ASSUME IInv, TypeOK', NEW p \in Procs, Revalidate(p)
  PROVE  IInv'
<1>0. /\ {"ok", "recovery"} \subseteq Results /\ pc[p] = "revalidate"
      /\ {"settle", "journal", "discard", "tombstone"} \subseteq Locations
      /\ CapInv(p) /\ DirInv(p) /\ TmpInv(p) /\ HoldInv(p) /\ TreeInv(p)
  BY LocationFacts DEF Revalidate, Check, IInv, ProcInv, PublishSteps, RemoveSteps
<1>1. CASE op[p] # "gc" /\ \E ok : Check(p, "revalidate", ok, AfterLease(p), "recovery")
  <2>0. PICK ok : Check(p, "revalidate", ok, AfterLease(p), "recovery")
    BY <1>1
  <2>1. /\ AfterLease(p) \in {"settle", "journal", "discard", "tombstone"}
        /\ AfterLease(p) \in {"settle", "journal"} => cap[p].st = "Ready"
        /\ AfterLease(p) = "discard" => op[p] = "remove"
    BY <1>0, <1>1 DEF CapInv, AfterLease
  <2>2. cap[p].st \in {"Ready", "Materializing"}
    BY <1>0 DEF CapInv
  <2>3. ASSUME Same(p), NEW to \in {"settle", "journal", "discard", "tombstone"}, pc'[p] = to,
               to \in {"settle", "journal"} => cap[p].st = "Ready",
               to = "discard" => op[p] = "remove", txn'[p] = "none", UNCHANGED lockVars
        PROVE  ProcInv(p)'
    <3>1. CapInv(p)' /\ DirInv(p)'
      BY <1>0, <2>2, <2>3
         DEF CapInv, DirInv, Same, Exchanged, PublishSteps, ExecSteps, CompleteSteps, GcSteps,
             Creating, Leasing, Leased
    <3>2. TmpInv(p)' /\ HoldInv(p)'
      BY <1>0, <2>3 DEF TmpInv, HoldInv, Same, CreateSteps, GcSteps, Leased, Sharing, lockVars
    <3>3. TreeInv(p)'
      BY <1>0, <2>3 DEF TreeInv, Same, Bare, Making, Unbuilt, Built
    <3> QED
      BY <3>1, <3>2, <3>3 DEF ProcInv
  <2> QED
    BY <1>0, <2>0, <2>1, <2>3, CheckCalm
<1>2. CASE \E code \in {"ok", "recovery"} : Check(p, "revalidate", FALSE, "idle", code)
  BY <1>0, <1>2, CheckCalm
<1> QED
  BY <1>1, <1>2 DEF Revalidate

LEMMA DiscardCheckKeeps ==
  ASSUME IInv, TypeOK', NEW p \in Procs, DiscardCheck(p)
  PROVE  IInv'
<1>1. "tombstone" \in Locations /\ "refused" \in Results
  BY LocationFacts DEF RemoveSteps
<1>2. ASSUME pc[p] = "discard", Same(p), pc'[p] = "tombstone", txn'[p] = "none", UNCHANGED lockVars
      PROVE  ProcInv(p)'
  BY <1>2
     DEF IInv, ProcInv, Same, lockVars, CapInv, DirInv, TmpInv, HoldInv, TreeInv,
         Bare, Making, Exchanged, CreateSteps, PublishSteps, ExecSteps, CompleteSteps,
         GcSteps, Creating, Leasing, Leased, Sharing, Unbuilt, Built, Replacing
<1> QED
  BY <1>1, <1>2, CheckCalm DEF DiscardCheck

LEMMA TransitionTombstoneKeeps ==
  ASSUME IInv, TypeOK', NEW p \in Procs, TransitionTombstone(p)
  PROVE  IInv'
<1>1. CASE ReplaceRecord(p, "tombstone", Record("Tombstoned", cap[p].root), "release")
  <2>1. pc[p] = "tombstone" => New(p) = Record("Tombstoned", cap[p].root)
    BY DEF New
  <2> QED
    BY <1>1, <2>1, ReplaceKeeps DEF Replacing, After
<1>2. CASE /\ pc[p] = "release" /\ pc' = [pc EXCEPT ![p] = "inspect"]
           /\ ex' = [i \in Roots |-> ex[i] \ {p}]
           /\ UNCHANGED <<rec, diskVars, home, sh, child, op, txn, txnVars, dir, seen, result,
                          alarmed, calls, faults, histVars>>
  <2>0. TypeOK /\ CapInv(p) /\ DirInv(p) /\ TmpInv(p) /\ HoldInv(p) /\ TreeInv(p)
    BY DEF IInv, ProcInv
  <2>1. /\ pc'[p] = "inspect" /\ \A q \in Procs \ {p} : pc'[q] = pc[q]
        /\ \A i \in Roots : ex'[i] = ex[i] \ {p}
        /\ UNCHANGED <<rec, root, tomb, content, home, sh, child, op, txn, cap, fresh, tmp, clean,
                       dir, delivered, condemned>>
    BY <1>2, <2>0 DEF TypeOK, diskVars, txnVars, histVars
  <2>2. Calm(p)
    BY <2>0, <2>1, SameCalm DEF Same, LockMove
  <2>3. CapInv(p)' /\ DirInv(p)'
    BY <1>2, <2>0, <2>1
       DEF CapInv, DirInv, Exchanged, PublishSteps, ExecSteps, CompleteSteps, GcSteps, Creating,
           Leasing, Leased
  <2>4. TmpInv(p)' /\ HoldInv(p)'
    BY <1>2, <2>0, <2>1 DEF TmpInv, HoldInv, CreateSteps, GcSteps, Leased, Sharing, Replacing
  <2>5. TreeInv(p)'
    BY <1>2, <2>0, <2>1 DEF TreeInv, Bare, Making, Unbuilt, Built
  <2> QED
    BY <2>2, <2>3, <2>4, <2>5, CalmStep DEF ProcInv
<1> QED
  BY <1>1, <1>2 DEF TransitionTombstone

(***************************************************************************)
(* complete_tombstone.                                                     *)
(***************************************************************************)
LEMMA InspectKeeps ==
  ASSUME IInv, TypeOK', NEW p \in Procs, Inspect(p)
  PROVE  IInv'
<1>0. /\ TypeOK /\ pc[p] = "inspect" /\ "recovery" \in Results
      /\ {"tomb_lease", "drop_record"} \subseteq Locations
      /\ UNCHANGED <<rec, root, tomb, content, child, op, cap, fresh, tmp, clean, delivered, condemned>>
      /\ CapInv(p) /\ DirInv(p) /\ TmpInv(p) /\ HoldInv(p) /\ TreeInv(p)
  BY LocationFacts
     DEF IInv, ProcInv, Inspect, CompleteSteps, diskVars, txnVars, histVars
<1>1. CASE dir' = [dir EXCEPT ![p] = cap[p].root] /\ Goto(p, "tomb_lease")
  <2>1. /\ pc'[p] = "tomb_lease" /\ txn'[p] = "none" /\ LockMove(p) /\ UNCHANGED lockVars
        /\ \A q \in Procs \ {p} : pc'[q] = pc[q] /\ txn'[q] = txn[q]
    BY <1>0, <1>1, GotoMoves DEF Moved
  <2>2. dir'[p] = cap[p].root /\ \A q \in Procs \ {p} : dir'[q] = dir[q]
    BY <1>0, <1>1 DEF TypeOK
  <2>3. Calm(p)
    BY <1>0, <2>1, <2>2 DEF Calm, Others
  <2>4. cap[p].st = "Tombstoned" /\ cap[p].root \in Roots
    BY <1>0, RecordKinds DEF CapInv, CompleteSteps, TypeOK
  <2>5. CapInv(p)' /\ DirInv(p)'
    BY <1>0, <2>1, <2>2, <2>4
       DEF CapInv, DirInv, Exchanged, PublishSteps, ExecSteps, CompleteSteps, GcSteps, Creating,
           Leasing, Leased
  <2>6. TmpInv(p)' /\ HoldInv(p)'
    BY <1>0, <2>1 DEF TmpInv, HoldInv, CreateSteps, GcSteps, Leased, Sharing, Replacing, lockVars
  <2>7. TreeInv(p)'
    BY <1>0, <2>1 DEF TreeInv, Bare, Making, Unbuilt, Built
  <2> QED
    BY <2>3, <2>5, <2>6, <2>7, CalmStep DEF ProcInv
<1>2. CASE root = NoRoot /\ tomb = NoRoot /\ Goto(p, "drop_record") /\ UNCHANGED dir
  <2>1. ASSUME Same(p), pc'[p] = "drop_record", txn'[p] = "none", UNCHANGED lockVars
        PROVE  ProcInv(p)'
    BY <1>0, <1>2, <2>1
       DEF ProcInv, Same, lockVars, CapInv, DirInv, TmpInv, HoldInv, TreeInv, Quiet,
           Bare, Making, Exchanged, CreateSteps, PublishSteps, ExecSteps, CompleteSteps,
           GcSteps, Creating, Leasing, Leased, Sharing, Unbuilt, Built, Replacing
  <2> QED
    BY <1>0, <1>2, <2>1, GotoCalm DEF Same
<1>3. CASE Exit(p, "recovery") /\ UNCHANGED dir
  BY <1>0, <1>3, ExitCalm DEF Same
<1> QED
  BY <1>1, <1>2, <1>3 DEF Inspect

\* The process that has tombstoned a root and holds its lease: nobody uses the tree.
LEMMA LeaseExcludes ==
  ASSUME IInv, NEW p \in Procs, pc[p] \in Leased, NEW q \in Procs
  PROVE  /\ pc[q] = "spawn" => dir[q] # dir[p]
         /\ child[q] # NoRoot => child[q] # dir[p]
<1>1. dir[p] \in Roots /\ ex[dir[p]] = {p}
  BY DEF IInv, ProcInv, HoldInv, DirInv
<1>2. sh[dir[p]] = {}
  BY <1>1 DEF IInv, LockInv
<1> QED
  BY <1>2 DEF IInv, ProcInv, HoldInv, Sharing

LEMMA TombHolder ==
  ASSUME IInv, NEW p \in Procs, pc[p] \in {"promote", "delete", "delete_rest"}
  PROVE  /\ cap[p].root = dir[p] /\ dir[p] \in Roots /\ dir[p] \in condemned
         /\ pc[p] \in Leased /\ cap[p].st = "Tombstoned" /\ child[p] = NoRoot
BY DEF IInv, ProcInv, CapInv, DirInv, HoldInv, CompleteSteps, Leased

LEMMA PromoteKeeps ==
  ASSUME IInv, TypeOK', NEW p \in Procs, Promote(p)
  PROVE  IInv'
<1>0. /\ TypeOK /\ DiskInv /\ TombInv /\ pc[p] = "promote" /\ "recovery" \in Results
      /\ "tomb_recheck" \in Locations
      /\ UNCHANGED <<rec, content, child, op, cap, fresh, tmp, clean, dir, delivered, condemned>>
      /\ CapInv(p) /\ DirInv(p) /\ TmpInv(p) /\ HoldInv(p) /\ TreeInv(p)
  BY LocationFacts
     DEF IInv, ProcInv, Promote, CompleteSteps, txnVars, histVars
<1>a. dir[p] \in Roots /\ dir[p] # NoRoot /\ cap[p].root = dir[p] /\ dir[p] \in condemned /\ child[p] = NoRoot
  BY <1>0, TombHolder, RootAssumption
<1>b. ASSUME pc'[p] = "tomb_recheck", txn'[p] = "none", UNCHANGED lockVars PROVE ProcInv(p)'
  <2>1. CapInv(p)' /\ DirInv(p)'
    BY <1>0, <1>b
       DEF CapInv, DirInv, Exchanged, PublishSteps, ExecSteps, CompleteSteps, GcSteps, Creating,
           Leasing, Leased
  <2>2. TmpInv(p)' /\ HoldInv(p)'
    BY <1>0, <1>b DEF TmpInv, HoldInv, CreateSteps, GcSteps, Leased, Sharing, Replacing, lockVars
  <2>3. TreeInv(p)'
    BY <1>0, <1>a, <1>b DEF TreeInv, Bare, Making, Unbuilt, Built
  <2> QED
    BY <2>1, <2>2, <2>3 DEF ProcInv
<1>1. CASE AtRoot(dir[p]) /\ root' = NoRoot /\ tomb' = dir[p] /\ Goto(p, "tomb_recheck")
  <2>1. /\ pc'[p] = "tomb_recheck" /\ txn'[p] = "none" /\ LockMove(p) /\ UNCHANGED lockVars
        /\ \A q \in Procs \ {p} : pc'[q] = pc[q] /\ txn'[q] = txn[q]
    BY <1>0, <1>1, GotoMoves DEF Moved
  <2>2. Others(p) /\ root = dir[p]
    BY <1>0, <1>1, <2>1 DEF Others, AtRoot
  <2>3. ~Quiet
    BY <1>a, <2>2 DEF Quiet
  <2>4. delivered \ condemned = {}
    BY <1>0, <1>a, <2>2 DEF DiskInv, DeliveredTreeSurvives
  <2>5. ASSUME NEW q \in Procs \ {p} PROVE TreeInv(q)'
    <3>1. TreeInv(q) /\ ~Bare(q)
      BY <2>3 DEF IInv, ProcInv, TreeInv
    <3>2. ~(pc[q] = "mat" /\ ~Exchanged(q))
      BY <3>1 DEF Bare
    <3>3. pc[q] # "spawn" /\ child[q] = NoRoot
      BY <1>0, <2>2, <3>1, LeaseExcludes DEF TreeInv, Leased
    <3>4. pc[q] \in Built => dir[q] \in condemned
      BY <1>a, <2>2, <3>1 DEF TreeInv
    <3>5. /\ pc'[q] = pc[q] /\ txn'[q] = txn[q] /\ dir'[q] = dir[q] /\ child'[q] = child[q]
          /\ fresh'[q] = fresh[q]
      BY <1>0, <2>2 DEF Others
    <3>6. ~Bare(q)' /\ (Making(q)' => Making(q))
      BY <3>1, <3>5 DEF Bare, Making, Exchanged
    <3> QED
      BY <1>0, <3>1, <3>2, <3>3, <3>4, <3>5, <3>6 DEF TreeInv, Exchanged
  <2>6. ProcInv(p)'
    BY <1>b, <2>1
  <2>7. rec # NoRecord
    BY <1>0, <2>3 DEF DiskInv
  <2> QED
    BY <1>0, <1>1, <2>1, <2>2, <2>4, <2>5, <2>6, <2>7, TreeStep
<1>2. CASE Goto(p, "tomb_recheck") /\ UNCHANGED <<root, tomb>>
  BY <1>0, <1>2, <1>b, GotoCalm DEF Same
<1>3. CASE Exit(p, "recovery") /\ UNCHANGED <<root, tomb>>
  BY <1>0, <1>3, ExitCalm DEF Same
<1> QED
  BY <1>1, <1>2, <1>3 DEF Promote

LEMMA DeleteKeeps ==
  ASSUME IInv, TypeOK', NEW p \in Procs, ClearTree(p, "delete", tomb = dir[p], "delete_rest")
  PROVE  IInv'
<1>0. /\ TypeOK /\ DiskInv /\ TombInv /\ pc[p] = "delete" /\ "recovery" \in Results
      /\ "delete_rest" \in Locations
      /\ UNCHANGED <<rec, root, tomb, child, op, cap, fresh, tmp, clean, dir, delivered, condemned>>
      /\ CapInv(p) /\ DirInv(p) /\ TmpInv(p) /\ HoldInv(p) /\ TreeInv(p)
  BY LocationFacts
     DEF IInv, ProcInv, ClearTree, CompleteSteps, txnVars, histVars
<1>a. dir[p] \in Roots /\ dir[p] # NoRoot /\ child[p] = NoRoot
  BY <1>0, TombHolder, RootAssumption
<1>1. CASE tomb = dir[p]
  <2>0. content' = [content EXCEPT ![dir[p]] = "partial"] /\ Goto(p, "delete_rest")
    BY <1>1 DEF ClearTree
  <2>1. /\ pc'[p] = "delete_rest" /\ txn'[p] = "none" /\ LockMove(p) /\ UNCHANGED lockVars
        /\ \A q \in Procs \ {p} : pc'[q] = pc[q] /\ txn'[q] = txn[q]
    BY <1>0, <2>0, GotoMoves DEF Moved
  <2>2. Others(p) /\ root = NoRoot
    BY <1>0, <1>1, <1>a, <2>1 DEF Others, TombInv
  <2>3. content'[dir[p]] = "partial" /\ \A j \in Roots \ {dir[p]} : content'[j] = content[j]
    BY <1>0, <1>a, <2>0 DEF TypeOK
  <2>4. delivered \ condemned = {} /\ (Quiet' <=> Quiet)
    BY <1>0, <2>2, RootAssumption DEF DiskInv, DeliveredTreeSurvives, TypeOK, Quiet
  <2>5. ASSUME NEW q \in Procs \ {p} PROVE TreeInv(q)'
    <3>1. TreeInv(q)
      BY DEF IInv, ProcInv
    <3>2. pc[q] # "spawn" /\ child[q] = NoRoot
      BY <2>2, UsersOf, RootAssumption
    <3>3. pc[q] \in Creating => dir[q] \in Roots
      BY DEF IInv, ProcInv, DirInv
    <3>4. pc[q] \in Built => dir[q] \in condemned
      BY <2>2, <3>1, <3>3, RootAssumption DEF TreeInv, Built, Creating
    <3>5. /\ pc'[q] = pc[q] /\ txn'[q] = txn[q] /\ dir'[q] = dir[q] /\ child'[q] = child[q]
          /\ fresh'[q] = fresh[q]
      BY <1>0, <2>2 DEF Others
    <3>6. (Bare(q)' => Bare(q)) /\ (Making(q)' => Making(q))
      BY <3>1, <3>5 DEF Bare, Making, Exchanged
    <3>7. pc[q] \in Unbuilt => content'[dir[q]] # "complete"
      BY <2>3, <3>1, <3>3 DEF TreeInv, Unbuilt, Creating
    <3> QED
      BY <1>0, <2>4, <3>1, <3>2, <3>4, <3>5, <3>6, <3>7 DEF TreeInv, Exchanged
  <2>6. CapInv(p)' /\ DirInv(p)'
    BY <1>0, <2>1
       DEF CapInv, DirInv, Exchanged, PublishSteps, ExecSteps, CompleteSteps, GcSteps, Creating,
           Leasing, Leased
  <2>7. TmpInv(p)' /\ HoldInv(p)'
    BY <1>0, <2>1 DEF TmpInv, HoldInv, CreateSteps, GcSteps, Leased, Sharing, Replacing, lockVars
  <2>8. TreeInv(p)'
    BY <1>0, <1>a, <2>1 DEF TreeInv, Bare, Making, Unbuilt, Built
  <2>9. ProcInv(p)'
    BY <2>6, <2>7, <2>8 DEF ProcInv
  <2> QED
    BY <1>0, <2>1, <2>2, <2>3, <2>4, <2>5, <2>9, TreeStep DEF TombInv, DiskInv
<1>2. CASE tomb # dir[p]
  BY <1>0, <1>2, ExitCalm DEF ClearTree, Same
<1> QED
  BY <1>1, <1>2

LEMMA DeleteRestKeeps ==
  ASSUME IInv, TypeOK', NEW p \in Procs, DeleteRest(p)
  PROVE  IInv'
<1>0. /\ TypeOK /\ DiskInv /\ TombInv /\ pc[p] = "delete_rest" /\ "recovery" \in Results
      /\ "drop_record" \in Locations
      /\ UNCHANGED <<rec, root, child, op, cap, fresh, tmp, clean, dir, delivered, condemned>>
      /\ CapInv(p) /\ DirInv(p) /\ TmpInv(p) /\ HoldInv(p) /\ TreeInv(p)
  BY LocationFacts
     DEF IInv, ProcInv, DeleteRest, CompleteSteps, txnVars, histVars
<1>a. dir[p] \in Roots /\ dir[p] # NoRoot /\ child[p] = NoRoot
  BY <1>0, TombHolder, RootAssumption
<1>1. CASE tomb = dir[p]
  <2>0. content' = [content EXCEPT ![dir[p]] = "gone"] /\ tomb' = NoRoot /\ Goto(p, "drop_record")
    BY <1>1 DEF DeleteRest
  <2>1. /\ pc'[p] = "drop_record" /\ txn'[p] = "none" /\ LockMove(p) /\ UNCHANGED lockVars
        /\ \A q \in Procs \ {p} : pc'[q] = pc[q] /\ txn'[q] = txn[q]
    BY <1>0, <2>0, GotoMoves DEF Moved
  <2>2. Others(p) /\ root = NoRoot /\ Quiet'
    BY <1>0, <1>1, <1>a, <2>0, <2>1 DEF Others, TombInv, Quiet
  <2>3. content'[dir[p]] = "gone" /\ \A j \in Roots \ {dir[p]} : content'[j] = content[j]
    BY <1>0, <1>a, <2>0 DEF TypeOK
  <2>4. delivered \ condemned = {}
    BY <1>0, <2>2, RootAssumption DEF DiskInv, DeliveredTreeSurvives, TypeOK
  <2>5. ASSUME NEW q \in Procs \ {p} PROVE TreeInv(q)'
    <3>1. TreeInv(q)
      BY DEF IInv, ProcInv
    <3>2. pc[q] # "spawn" /\ child[q] = NoRoot
      BY <2>2, UsersOf, RootAssumption
    <3>3. pc[q] \in Creating => dir[q] \in Roots
      BY DEF IInv, ProcInv, DirInv
    <3>4. pc[q] \in Built => dir[q] \in condemned
      BY <2>2, <3>1, <3>3, RootAssumption DEF TreeInv, Built, Creating
    <3>5. /\ pc'[q] = pc[q] /\ txn'[q] = txn[q] /\ dir'[q] = dir[q] /\ child'[q] = child[q]
          /\ fresh'[q] = fresh[q]
      BY <1>0, <2>2 DEF Others
    <3>6. Making(q)' => Making(q)
      BY <3>1, <3>5 DEF Making, Exchanged
    <3>7. pc[q] \in Unbuilt => content'[dir[q]] # "complete"
      BY <2>3, <3>1, <3>3 DEF TreeInv, Unbuilt, Creating
    <3> QED
      BY <1>0, <2>2, <3>1, <3>2, <3>4, <3>5, <3>6, <3>7 DEF TreeInv, Exchanged
  <2>6. CapInv(p)' /\ DirInv(p)'
    BY <1>0, <2>1
       DEF CapInv, DirInv, Exchanged, PublishSteps, ExecSteps, CompleteSteps, GcSteps, Creating,
           Leasing, Leased
  <2>7. TmpInv(p)' /\ HoldInv(p)'
    BY <1>0, <2>1 DEF TmpInv, HoldInv, CreateSteps, GcSteps, Leased, Sharing, Replacing, lockVars
  <2>8. TreeInv(p)'
    BY <1>0, <1>a, <2>1, <2>2 DEF TreeInv, Making, Unbuilt, Built
  <2>9. ProcInv(p)'
    BY <2>6, <2>7, <2>8 DEF ProcInv
  <2> QED
    BY <1>0, <2>0, <2>1, <2>2, <2>3, <2>4, <2>5, <2>9, TreeStep
<1>2. CASE tomb # dir[p]
  BY <1>0, <1>2, ExitCalm DEF DeleteRest, Same
<1> QED
  BY <1>1, <1>2

LEMMA CompleteTombstoneKeeps ==
  ASSUME IInv, TypeOK', NEW p \in Procs, CompleteTombstone(p)
  PROVE  IInv'
<1>0. {"promote", "delete"} \subseteq Locations /\ {"recovery", "ok"} \subseteq Results
  BY LocationFacts DEF CompleteSteps
<1>1. ASSUME pc[p] = "tomb_revalidate", Same(p), pc'[p] = "promote", txn'[p] = "none",
             UNCHANGED lockVars
      PROVE  ProcInv(p)'
  BY <1>1
     DEF IInv, ProcInv, Same, lockVars, CapInv, DirInv, TmpInv, HoldInv, TreeInv,
         Bare, Making, Exchanged, CreateSteps, PublishSteps, ExecSteps, CompleteSteps,
         GcSteps, Creating, Leasing, Leased, Sharing, Unbuilt, Built, Replacing
<1>2. ASSUME pc[p] = "tomb_recheck", Same(p), pc'[p] = "delete", txn'[p] = "none",
             UNCHANGED lockVars
      PROVE  ProcInv(p)'
  BY <1>2
     DEF IInv, ProcInv, Same, lockVars, CapInv, DirInv, TmpInv, HoldInv, TreeInv,
         Bare, Making, Exchanged, CreateSteps, PublishSteps, ExecSteps, CompleteSteps,
         GcSteps, Creating, Leasing, Leased, Sharing, Unbuilt, Built, Replacing
<1>3. CASE Check(p, "tomb_revalidate", fresh[p], "promote", "recovery")
  BY <1>0, <1>1, <1>3, CheckCalm
<1>4. CASE Check(p, "tomb_recheck", fresh[p], "delete", "recovery")
  BY <1>0, <1>2, <1>4, CheckCalm
<1>5. CASE DropRecord(p, "drop_record", "ok")
  BY <1>0, <1>5, DropKeeps
<1>6. CASE TryLease(p, "tomb_lease", "tomb_revalidate")
  BY <1>6, TryLeaseKeeps
<1> QED
  BY <1>3, <1>4, <1>5, <1>6, InspectKeeps, PromoteKeeps, DeleteKeeps, DeleteRestKeeps
     DEF CompleteTombstone

(***************************************************************************)
(* exec, publish and gc.                                                   *)
(***************************************************************************)
LEMMA ShareRevalidateKeeps ==
  ASSUME IInv, TypeOK', NEW p \in Procs, ShareRevalidate(p)
  PROVE  IInv'
<1>1. "spawn" \in Locations /\ "recovery" \in Results
  BY LocationFacts DEF ExecSteps
<1>2. ASSUME pc[p] = "share_revalidate", fresh[p], Loadable, Same(p), pc'[p] = "spawn",
             txn'[p] = "none", UNCHANGED lockVars
      PROVE  ProcInv(p)'
  <2>1. /\ CapInv(p) /\ DirInv(p) /\ TmpInv(p) /\ HoldInv(p) /\ TreeInv(p) /\ cap[p] = rec
        /\ cap[p].root = dir[p] /\ dir[p] \in Roots
    BY <1>2 DEF IInv, ProcInv, CapInv, DirInv, ExecSteps
  <2>2. CapInv(p)' /\ DirInv(p)'
    BY <1>2, <2>1
       DEF CapInv, DirInv, Same, Exchanged, PublishSteps, ExecSteps, CompleteSteps, GcSteps,
           Creating, Leasing, Leased
  <2>3. TmpInv(p)' /\ HoldInv(p)'
    BY <1>2, <2>1 DEF TmpInv, HoldInv, Same, CreateSteps, GcSteps, Leased, Sharing, lockVars
  <2>4. TreeInv(p)'
    BY <1>2, <2>1 DEF TreeInv, Same, Loadable, Bare, Making, Unbuilt, Built
  <2> QED
    BY <2>2, <2>3, <2>4 DEF ProcInv
<1> QED
  BY <1>1, <1>2, CheckCalm DEF ShareRevalidate

LEMMA SpawnKeeps ==
  ASSUME IInv, TypeOK', NEW p \in Procs, Spawn(p)
  PROVE  IInv'
<1>0. /\ TypeOK /\ pc[p] = "spawn" /\ "wait" \in Locations /\ Goto(p, "wait")
      /\ child' = [child EXCEPT ![p] = dir[p]]
      /\ UNCHANGED <<rec, root, tomb, content, op, cap, fresh, tmp, clean, dir, delivered, condemned>>
      /\ CapInv(p) /\ DirInv(p) /\ TmpInv(p) /\ HoldInv(p) /\ TreeInv(p)
  BY LocationFacts DEF IInv, ProcInv, Spawn, ExecSteps, diskVars, txnVars, histVars
<1>1. /\ pc'[p] = "wait" /\ txn'[p] = "none" /\ LockMove(p) /\ UNCHANGED lockVars
      /\ \A q \in Procs \ {p} : pc'[q] = pc[q] /\ txn'[q] = txn[q]
  BY <1>0, GotoMoves DEF Moved
<1>2. child'[p] = dir[p] /\ \A q \in Procs \ {p} : child'[q] = child[q]
  BY <1>0 DEF TypeOK
<1>3. Calm(p)
  BY <1>0, <1>1, <1>2 DEF Calm, Others
<1>4. CapInv(p)' /\ DirInv(p)'
  BY <1>0, <1>1
     DEF CapInv, DirInv, Exchanged, PublishSteps, ExecSteps, CompleteSteps, GcSteps, Creating,
         Leasing, Leased
<1>5. TmpInv(p)' /\ HoldInv(p)'
  BY <1>0, <1>1, <1>2 DEF TmpInv, HoldInv, CreateSteps, GcSteps, Leased, Sharing, lockVars
<1>6. TreeInv(p)'
  BY <1>0, <1>1, <1>2 DEF TreeInv, Bare, Making, Unbuilt, Built
<1> QED
  BY <1>3, <1>4, <1>5, <1>6, CalmStep DEF ProcInv

LEMMA ExecKeeps ==
  ASSUME IInv, TypeOK', NEW p \in Procs, ExecStep(p)
  PROVE  IInv'
<1>1. CASE Wait(p)
  <2>1. "ok" \in Results
    BY LocationFacts
  <2> QED
    BY <1>1, <2>1, CheckCalm DEF Wait
<1> QED
  BY <1>1, LoadForKeeps, ShareRevalidateKeeps, SpawnKeeps DEF ExecStep

LEMMA PublishKeeps ==
  ASSUME IInv, TypeOK', NEW p \in Procs, PublishStep(p)
  PROVE  IInv'
<1>1. {"ok", "error"} \subseteq Results
  BY LocationFacts
<1>2. CASE ReplaceRecord(p, "journal", Busy(p, TRUE), "settle")
  <2>1. pc[p] = "journal" => New(p) = Busy(p, TRUE)
    BY DEF New
  <2> QED
    BY <1>2, <2>1, ReplaceKeeps DEF Replacing, After
<1>3. CASE ReplaceRecord(p, "settle", Busy(p, FALSE), "published")
  <2>1. pc[p] = "settle" => New(p) = Busy(p, FALSE)
    BY DEF New
  <2> QED
    BY <1>3, <2>1, ReplaceKeeps DEF Replacing, After
<1>5. \/ LoadForPublish(p) \/ Check(p, "published", FALSE, "idle", "ok")
      \/ ReplaceRecord(p, "journal", Busy(p, TRUE), "settle")
      \/ ReplaceRecord(p, "settle", Busy(p, FALSE), "published")
      \/ Check(p, "journal", FALSE, "idle", "error") \/ Check(p, "settle", FALSE, "idle", "error")
  BY DEF PublishStep, PublishSession, PublishStops
<1>6. CASE Check(p, "published", FALSE, "idle", "ok")
  BY <1>1, <1>6, CheckCalm
<1>7. CASE Check(p, "journal", FALSE, "idle", "error") \/ Check(p, "settle", FALSE, "idle", "error")
  BY <1>1, <1>7, CheckCalm
<1> QED
  BY <1>2, <1>3, <1>5, <1>6, <1>7, LoadForKeeps

LEMMA CensusKeeps ==
  ASSUME IInv, TypeOK', NEW p \in Procs, Census(p)
  PROVE  IInv'
<1>0. /\ TypeOK /\ pc[p] = "census" /\ "recensus" \in Locations /\ "recovery" \in Results
      /\ cap' = [cap EXCEPT ![p] = rec] /\ fresh' = [fresh EXCEPT ![p] = rec # NoRecord]
      /\ UNCHANGED <<rec, root, tomb, content, child, op, tmp, clean, dir, delivered, condemned>>
      /\ CapInv(p) /\ DirInv(p) /\ TmpInv(p) /\ HoldInv(p) /\ TreeInv(p) /\ DiskInv
  BY LocationFacts DEF IInv, ProcInv, Census, GcSteps, diskVars, histVars
<1>1. /\ cap'[p] = rec /\ (fresh'[p] => rec # NoRecord)
      /\ \A q \in Procs \ {p} : cap'[q] = cap[q] /\ fresh'[q] = fresh[q]
  BY <1>0 DEF TypeOK
<1>2. CASE Goto(p, "recensus")
  <2>1. /\ pc'[p] = "recensus" /\ txn'[p] = "none" /\ LockMove(p) /\ UNCHANGED lockVars
        /\ \A q \in Procs \ {p} : pc'[q] = pc[q] /\ txn'[q] = txn[q]
    BY <1>0, <1>2, GotoMoves DEF Moved
  <2>2. Calm(p)
    BY <1>0, <1>1, <2>1 DEF Calm, Others
  <2>3. CapInv(p)' /\ DirInv(p)'
    BY <1>0, <1>1, <2>1
       DEF CapInv, DirInv, DiskInv, Exchanged, PublishSteps, ExecSteps, CompleteSteps, GcSteps,
           Creating, Leasing, Leased
  <2>4. TmpInv(p)' /\ HoldInv(p)'
    BY <1>0, <2>1 DEF TmpInv, HoldInv, CreateSteps, GcSteps, Leased, Sharing, lockVars
  <2>5. TreeInv(p)'
    BY <1>0, <2>1 DEF TreeInv, Bare, Making, Unbuilt, Built
  <2> QED
    BY <2>2, <2>3, <2>4, <2>5, CalmStep DEF ProcInv
<1>3. CASE Exit(p, "recovery")
  <2>1. /\ LockMove(p) /\ \A q \in Procs \ {p} : pc'[q] = pc[q] /\ txn'[q] = txn[q]
    BY <1>0, <1>3, ExitMoves DEF Moved
  <2>2. Calm(p)
    BY <1>0, <1>1, <2>1 DEF Calm, Others
  <2>3. ProcInv(p)'
    BY <1>0, <1>1, <1>3, UsersOf, ExitProc
  <2> QED
    BY <2>2, <2>3, CalmStep
<1> QED
  BY <1>2, <1>3 DEF Census

LEMMA SweepKeeps ==
  ASSUME IInv, TypeOK', NEW p \in Procs, Sweep(p)
  PROVE  IInv'
<1>0. /\ TypeOK /\ pc[p] = "sweep" /\ "dispatch" \in Locations /\ "recovery" \in Results
      /\ UNCHANGED <<rec, root, tomb, content, child, op, cap, fresh, clean, dir, delivered, condemned>>
      /\ CapInv(p) /\ DirInv(p) /\ TmpInv(p) /\ HoldInv(p) /\ TreeInv(p)
  BY LocationFacts DEF IInv, ProcInv, Sweep, GcSteps, diskVars, histVars
<1>1. CASE /\ tmp' = [q \in Procs |-> IF q \in seen[p] THEN NoRecord ELSE tmp[q]]
           /\ Goto(p, "dispatch")
  <2>1. /\ pc'[p] = "dispatch" /\ txn'[p] = "none" /\ LockMove(p) /\ UNCHANGED lockVars
        /\ \A q \in Procs \ {p} : pc'[q] = pc[q] /\ txn'[q] = txn[q]
    BY <1>0, <1>1, GotoMoves DEF Moved
  <2>2. \A q \in Procs : tmp'[q] \in {tmp[q], NoRecord}
    BY <1>1
  <2>3. \A q \in Procs \ {p} : pc[q] # "link"
    BY <1>0, HomeExcludes DEF CreateSteps, GcSteps
  <2>4. Calm(p)
    BY <1>0, <2>1, <2>2, <2>3, RecordFacts DEF Calm, Others
  <2>5. CapInv(p)' /\ DirInv(p)'
    BY <1>0, <2>1
       DEF CapInv, DirInv, Exchanged, PublishSteps, ExecSteps, CompleteSteps, GcSteps, Creating,
           Leasing, Leased
  <2>6. TmpInv(p)' /\ HoldInv(p)'
    BY <1>0, <2>1 DEF TmpInv, HoldInv, CreateSteps, GcSteps, Leased, Sharing, lockVars
  <2>7. TreeInv(p)'
    BY <1>0, <2>1 DEF TreeInv, Bare, Making, Unbuilt, Built
  <2> QED
    BY <2>4, <2>5, <2>6, <2>7, CalmStep DEF ProcInv
<1>2. CASE Exit(p, "recovery") /\ UNCHANGED tmp
  BY <1>0, <1>2, ExitCalm DEF Same
<1> QED
  BY <1>1, <1>2 DEF Sweep

LEMMA GcDispatchKeeps ==
  ASSUME IInv, TypeOK', NEW p \in Procs, GcDispatch(p)
  PROVE  IInv'
<1>0. /\ TypeOK /\ pc[p] = "dispatch" /\ {"inspect", "lease"} \subseteq Locations
      /\ {"ok", "recovery"} \subseteq Results
      /\ UNCHANGED <<rec, root, tomb, content, child, op, cap, fresh, tmp, clean, delivered, condemned>>
      /\ CapInv(p) /\ DirInv(p) /\ TmpInv(p) /\ HoldInv(p) /\ TreeInv(p)
  BY LocationFacts
     DEF IInv, ProcInv, GcDispatch, CompleteSteps, RemoveSteps, diskVars, txnVars, histVars
<1>1. CASE cap[p].st = "Tombstoned" /\ Goto(p, "inspect") /\ UNCHANGED dir
  <2>1. ASSUME Same(p), pc'[p] = "inspect", txn'[p] = "none", UNCHANGED lockVars
        PROVE  ProcInv(p)'
    BY <1>0, <1>1, <2>1
       DEF ProcInv, Same, lockVars, CapInv, DirInv, TmpInv, HoldInv, TreeInv,
           Bare, Making, Exchanged, CreateSteps, PublishSteps, ExecSteps, CompleteSteps,
           GcSteps, Creating, Leasing, Leased, Sharing, Unbuilt, Built, Replacing
  <2> QED
    BY <1>0, <1>1, <2>1, GotoCalm DEF Same
<1>2. CASE cap[p].st = "Ready" /\ dir' = [dir EXCEPT ![p] = cap[p].root] /\ Goto(p, "lease")
  <2>1. /\ pc'[p] = "lease" /\ txn'[p] = "none" /\ LockMove(p) /\ UNCHANGED lockVars
        /\ \A q \in Procs \ {p} : pc'[q] = pc[q] /\ txn'[q] = txn[q]
    BY <1>0, <1>2, GotoMoves DEF Moved
  <2>2. dir'[p] = cap[p].root /\ \A q \in Procs \ {p} : dir'[q] = dir[q]
    BY <1>0, <1>2 DEF TypeOK
  <2>3. cap[p].root \in Roots
    BY <1>0, <1>2, RecordKinds DEF TypeOK
  <2>4. Calm(p)
    BY <1>0, <2>1, <2>2 DEF Calm, Others
  <2>5. CapInv(p)' /\ DirInv(p)'
    BY <1>0, <1>2, <2>1, <2>2, <2>3
       DEF CapInv, DirInv, Exchanged, PublishSteps, ExecSteps, CompleteSteps, GcSteps, Creating,
           Leasing, Leased
  <2>6. TmpInv(p)' /\ HoldInv(p)'
    BY <1>0, <2>1 DEF TmpInv, HoldInv, CreateSteps, GcSteps, Leased, Sharing, lockVars
  <2>7. TreeInv(p)'
    BY <1>0, <2>1 DEF TreeInv, Bare, Making, Unbuilt, Built
  <2> QED
    BY <2>4, <2>5, <2>6, <2>7, CalmStep DEF ProcInv
<1>3. CASE \E code \in {"ok", "recovery"} : Exit(p, code) /\ UNCHANGED dir
  BY <1>0, <1>3, ExitCalm DEF Same
<1> QED
  BY <1>1, <1>2, <1>3 DEF GcDispatch

LEMMA RecensusKeeps ==
  ASSUME IInv, TypeOK', NEW p \in Procs, Recensus(p)
  PROVE  IInv'
<1>1. "sweep" \in Locations /\ "recovery" \in Results
  BY LocationFacts DEF GcSteps
<1>2. ASSUME pc[p] = "recensus", Same(p), pc'[p] = "sweep", txn'[p] = "none", UNCHANGED lockVars
      PROVE  ProcInv(p)'
  BY <1>2
     DEF IInv, ProcInv, Same, lockVars, CapInv, DirInv, TmpInv, HoldInv, TreeInv,
         Bare, Making, Exchanged, CreateSteps, PublishSteps, ExecSteps, CompleteSteps,
         GcSteps, Creating, Leasing, Leased, Sharing, Unbuilt, Built, Replacing
<1> QED
  BY <1>1, <1>2, CheckCalm DEF Recensus

(***************************************************************************)
(* Beginning, waiting and dying.                                           *)
(***************************************************************************)
LEMMA StartKeeps ==
  ASSUME IInv, TypeOK', NEW p \in Procs, NEW o \in Ops, Start(p, o)
  PROVE  IInv'
<1>0. /\ TypeOK /\ pc[p] = "idle" /\ child[p] = NoRoot /\ tmp[p] = NoRecord
      /\ pc' = [pc EXCEPT ![p] = Entry[o]] /\ op' = [op EXCEPT ![p] = o]
      /\ cap' = [cap EXCEPT ![p] = NoRecord] /\ fresh' = [fresh EXCEPT ![p] = FALSE]
      /\ clean' = [clean EXCEPT ![p] = FALSE] /\ dir' = [dir EXCEPT ![p] = NoRoot]
      /\ UNCHANGED <<rec, root, tomb, content, home, ex, sh, child, txn, tmp, delivered, condemned>>
      /\ CapInv(p) /\ DirInv(p) /\ TmpInv(p) /\ HoldInv(p) /\ TreeInv(p)
      /\ Entry[o] \in {"home", "load"}
  BY OpsAssumption
     DEF IInv, ProcInv, Start, diskVars, lockVars, histVars, Entry, Commands
<1>1. /\ pc'[p] = Entry[o] /\ cap'[p] = NoRecord /\ ~fresh'[p] /\ dir'[p] = NoRoot
      /\ \A q \in Procs \ {p} :
           /\ pc'[q] = pc[q] /\ op'[q] = op[q] /\ cap'[q] = cap[q] /\ fresh'[q] = fresh[q]
           /\ clean'[q] = clean[q] /\ dir'[q] = dir[q]
  BY <1>0 DEF TypeOK
<1>2. Calm(p)
  BY <1>0, <1>1 DEF Calm, Others, LockMove
<1>3. CapInv(p)' /\ DirInv(p)'
  BY <1>0, <1>1, RecordFacts
     DEF CapInv, DirInv, Exchanged, PublishSteps, ExecSteps, CompleteSteps, GcSteps, Creating,
         Leasing, Leased
<1>4. TmpInv(p)' /\ HoldInv(p)'
  BY <1>0, <1>1 DEF TmpInv, HoldInv, CreateSteps, GcSteps, Leased, Sharing, Replacing
<1>5. TreeInv(p)'
  BY <1>0, <1>1 DEF TreeInv, Bare, Making, Unbuilt, Built
<1> QED
  BY <1>2, <1>3, <1>4, <1>5, CalmStep DEF ProcInv

LEMMA LockHomeKeeps ==
  ASSUME IInv, TypeOK', NEW p \in Procs, LockHome(p)
  PROVE  IInv'
<1>0. /\ TypeOK /\ pc[p] = "home" /\ home = {} /\ home' = {p}
      /\ pc' = [pc EXCEPT ![p] = IF op[p] = "gc" THEN "census" ELSE "lookup"]
      /\ UNCHANGED <<rec, root, tomb, content, ex, sh, child, op, txn, cap, fresh, tmp, clean, dir,
                     delivered, condemned>>
      /\ CapInv(p) /\ DirInv(p) /\ TmpInv(p) /\ HoldInv(p) /\ TreeInv(p)
  BY DEF IInv, ProcInv, LockHome, diskVars, txnVars, histVars
<1>1. /\ pc'[p] \in {"census", "lookup"} /\ (pc'[p] = "census" => op[p] = "gc")
      /\ \A q \in Procs \ {p} : pc'[q] = pc[q]
  BY <1>0 DEF TypeOK
<1>2. Calm(p)
  BY <1>0, <1>1, SameCalm DEF Same, LockMove
<1>3. CapInv(p)' /\ DirInv(p)'
  BY <1>0, <1>1
     DEF CapInv, DirInv, Exchanged, PublishSteps, ExecSteps, CompleteSteps, GcSteps, Creating,
         Leasing, Leased
<1>4. TmpInv(p)' /\ HoldInv(p)'
  BY <1>0, <1>1 DEF TmpInv, HoldInv, CreateSteps, GcSteps, Leased, Sharing, Replacing
<1>5. TreeInv(p)'
  BY <1>0, <1>1 DEF TreeInv, Bare, Making, Unbuilt, Built
<1> QED
  BY <1>2, <1>3, <1>4, <1>5, CalmStep DEF ProcInv

LEMMA ShareKeeps ==
  ASSUME IInv, TypeOK', NEW p \in Procs, Share(p)
  PROVE  IInv'
<1>0. /\ TypeOK /\ pc[p] = "share" /\ ex[dir[p]] = {} /\ dir[p] \in Roots
      /\ sh' = [sh EXCEPT ![dir[p]] = sh[dir[p]] \cup {p}]
      /\ pc' = [pc EXCEPT ![p] = "share_revalidate"]
      /\ UNCHANGED <<rec, root, tomb, content, home, ex, child, op, txn, cap, fresh, tmp, clean, dir,
                     delivered, condemned>>
      /\ CapInv(p) /\ DirInv(p) /\ TmpInv(p) /\ HoldInv(p) /\ TreeInv(p)
  BY DEF IInv, ProcInv, Share, diskVars, txnVars, histVars, DirInv, ExecSteps
<1>1. /\ pc'[p] = "share_revalidate" /\ \A q \in Procs \ {p} : pc'[q] = pc[q]
      /\ sh'[dir[p]] = sh[dir[p]] \cup {p} /\ \A i \in Roots \ {dir[p]} : sh'[i] = sh[i]
  BY <1>0 DEF TypeOK
<1>2. LockMove(p)
  BY <1>0, <1>1 DEF LockMove
<1>3. Calm(p)
  BY <1>0, <1>1, <1>2, SameCalm DEF Same
<1>4. CapInv(p)' /\ DirInv(p)'
  BY <1>0, <1>1
     DEF CapInv, DirInv, Exchanged, PublishSteps, ExecSteps, CompleteSteps, GcSteps, Creating,
         Leasing, Leased
<1>5. TmpInv(p)' /\ HoldInv(p)'
  BY <1>0, <1>1 DEF TmpInv, HoldInv, CreateSteps, GcSteps, Leased, Sharing, Replacing
<1>6. TreeInv(p)'
  BY <1>0, <1>1 DEF TreeInv, Bare, Making, Unbuilt, Built
<1> QED
  BY <1>3, <1>4, <1>5, <1>6, CalmStep DEF ProcInv

LEMMA ChildExitsKeeps ==
  ASSUME IInv, TypeOK', NEW p \in Procs, ChildExits(p)
  PROVE  IInv'
<1>0. /\ TypeOK /\ pc[p] \in {"wait", "idle"} /\ child' = [child EXCEPT ![p] = NoRoot]
      /\ sh' = IF pc[p] = "wait" THEN sh ELSE [i \in Roots |-> sh[i] \ {p}]
      /\ UNCHANGED <<rec, root, tomb, content, home, ex, pc, op, txn, cap, fresh, tmp, clean, dir,
                     delivered, condemned>>
      /\ CapInv(p) /\ DirInv(p) /\ TmpInv(p) /\ HoldInv(p) /\ TreeInv(p)
  BY DEF IInv, ProcInv, ChildExits, diskVars, txnVars, histVars, HoldInv
<1>1. /\ child'[p] = NoRoot /\ \A q \in Procs \ {p} : child'[q] = child[q]
      /\ \A i \in Roots : sh'[i] \in {sh[i], sh[i] \ {p}}
      /\ pc[p] = "wait" => sh' = sh
  BY <1>0 DEF TypeOK
<1>2. LockMove(p)
  BY <1>0, <1>1 DEF LockMove
<1>3. Calm(p)
  BY <1>0, <1>1, <1>2 DEF Calm, Others
<1>4. CapInv(p)' /\ DirInv(p)'
  BY <1>0, <1>1
     DEF CapInv, DirInv, Exchanged, PublishSteps, ExecSteps, CompleteSteps, GcSteps, Creating,
         Leasing, Leased
<1>5. TmpInv(p)' /\ HoldInv(p)'
  BY <1>0, <1>1 DEF TmpInv, HoldInv, CreateSteps, GcSteps, Leased, Sharing, Replacing
<1>6. TreeInv(p)'
  BY <1>0, <1>1 DEF TreeInv, Bare, Making, Unbuilt, Built
<1> QED
  BY <1>3, <1>4, <1>5, <1>6, CalmStep DEF ProcInv

LEMMA CrashKeeps ==
  ASSUME IInv, TypeOK', NEW p \in Procs, Crash(p)
  PROVE  IInv'
<1>1. Same(p) /\ Exit(p, "killed") /\ "killed" \in Results
  BY LocationFacts DEF Crash, Same, diskVars, txnVars, histVars
<1> QED
  BY <1>1, ExitCalm

LEMMA StutterKeeps ==
  ASSUME IInv, TypeOK', UNCHANGED vars
  PROVE  IInv'
<1>1. /\ UNCHANGED <<rec, root, tomb, content, home, ex, sh, child, pc, op, txn, cap, fresh, dir, tmp,
                     delivered, condemned>>
  BY DEF vars, lockVars
<1>2. TombInv' /\ UnusedInv' /\ LockInv'
  BY <1>1 DEF IInv, TombInv, UnusedInv, LockInv
<1>3. Quiet' <=> Quiet
  BY <1>1 DEF Quiet
<1>4. DiskInv'
  BY <1>1, <1>3 DEF IInv, DiskInv, DeliveredTreeSurvives
<1>5. ASSUME NEW q \in Procs PROVE ProcInv(q)'
  <2>1. CapInv(q)' /\ DirInv(q)'
    BY <1>1 DEF IInv, ProcInv, CapInv, DirInv, Exchanged
  <2>2. New(q)' = New(q)
    BY <1>1 DEF New, Busy
  <2>3. TmpInv(q)' /\ HoldInv(q)'
    BY <1>1, <2>2 DEF IInv, ProcInv, TmpInv, HoldInv
  <2>4. (Bare(q)' <=> Bare(q)) /\ (Making(q)' <=> Making(q))
    BY <1>1 DEF Bare, Making, Exchanged
  <2>5. TreeInv(q)'
    BY <1>1, <1>3, <2>4 DEF IInv, ProcInv, TreeInv, Exchanged
  <2> QED
    BY <2>1, <2>3, <2>5 DEF ProcInv
<1> QED
  BY <1>2, <1>4, <1>5 DEF IInv

(***************************************************************************)
(* The invariant and what it gives.                                        *)
(***************************************************************************)
LEMMA InitInv == Init => IInv
<1> SUFFICES ASSUME Init PROVE IInv
  OBVIOUS
<1>1. TypeOK
  <2>1. ControlOK
    BY LocationFacts DEF Init, ControlOK, TxnPhases
  <2>2. DataOK
    <3>1. /\ rec \in Records /\ cap \in [Procs -> Records] /\ tmp \in [Procs -> Records]
      BY RecordFacts DEF Init
    <3>2. fresh \in [Procs -> BOOLEAN] /\ clean \in [Procs -> BOOLEAN]
      BY DEF Init
    <3>3. /\ root = NoRoot /\ tomb = NoRoot /\ content \in [Roots -> Contents]
          /\ op \in [Procs -> Commands] /\ seen \in [Procs -> SUBSET Procs]
          /\ child \in [Procs -> Roots \cup {NoRoot}] /\ dir \in [Procs -> Roots \cup {NoRoot}]
      BY DEF Init, Contents, Commands
    <3>4. calls \in 0..MaxCalls /\ faults \in 0..MaxFaults /\ delivered = {} /\ condemned = {}
      BY BoundAssumption DEF Init
    <3> QED
      BY <3>1, <3>2, <3>3, <3>4 DEF DataOK
  <2> QED
    BY <2>1, <2>2, TypeParts
<1>2. TombInv /\ LockInv /\ DiskInv
  BY RecordFacts DEF Init, TombInv, LockInv, DiskInv, Quiet, DeliveredTreeSurvives
<1>3. UnusedInv
  BY RecordFacts, RootAssumption DEF Init, UnusedInv
<1>4. ASSUME NEW p \in Procs PROVE ProcInv(p)
  <2>1. /\ pc[p] = "idle" /\ txn[p] = "none" /\ cap[p] = NoRecord /\ ~fresh[p]
        /\ child[p] = NoRoot
    BY <1>4 DEF Init
  <2>2. CapInv(p) /\ DirInv(p)
    BY <2>1, RecordFacts
       DEF CapInv, DirInv, Exchanged, PublishSteps, ExecSteps, CompleteSteps, GcSteps, Creating,
           Leasing, Leased
  <2>3. TmpInv(p) /\ HoldInv(p)
    BY <2>1 DEF TmpInv, HoldInv, CreateSteps, GcSteps, Leased, Sharing, Replacing
  <2>4. TreeInv(p)
    BY <2>1 DEF TreeInv, Bare, Making, Unbuilt, Built
  <2> QED
    BY <2>2, <2>3, <2>4 DEF ProcInv
<1> QED
  BY <1>1, <1>2, <1>3, <1>4 DEF IInv

LEMMA NextInv == IInv /\ [Next]_vars => IInv'
<1> SUFFICES ASSUME IInv, [Next]_vars PROVE IInv'
  OBVIOUS
<1>0. TypeOK'
  BY TypeKept
<1>1. ASSUME NEW p \in Procs, CreateStep(p) PROVE IInv'
  BY <1>0, <1>1, LookupKeeps, PrepareKeeps, LinkKeeps, MkdirKeeps, MaterializingKeeps, BuildKeeps,
     CommitReadyKeeps, DeliverKeeps, AbortCreateKeeps DEF CreateStep
<1>2. ASSUME NEW p \in Procs, RemoveStep(p) PROVE IInv'
  <2>1. CASE AcquireLease(p)
    BY <1>0, <2>1, TryLeaseKeeps DEF AcquireLease
  <2>2. CASE RemovePrepared(p)
    <3>1. "ok" \in Results
      BY LocationFacts
    <3> QED
      BY <1>0, <2>2, <3>1, DropKeeps DEF RemovePrepared
  <2> QED
    BY <1>0, <1>2, <2>1, <2>2, LoadForKeeps, RevalidateKeeps, DiscardCheckKeeps,
       TransitionTombstoneKeeps, CompleteTombstoneKeeps DEF RemoveStep
<1>3. ASSUME NEW p \in Procs, GcStep(p) PROVE IInv'
  BY <1>0, <1>3, CensusKeeps, RecensusKeeps, SweepKeeps, GcDispatchKeeps DEF GcStep
<1>4. ASSUME NEW p \in Procs, Step(p) PROVE IInv'
  BY <1>0, <1>1, <1>2, <1>3, <1>4, ExecKeeps, PublishKeeps DEF Step
<1> QED
  BY <1>0, <1>4, StartKeeps, LockHomeKeeps, ShareKeeps, ChildExitsKeeps, CrashKeeps, StutterKeeps
     DEF Next

\* The names of the session, its record, the locks and what every process has read,
\* opened and written agree in every reachable state (create, remove, exec, publish, gc).
THEOREM Invariance == Spec => []IInv
BY InitInv, NextInv, PTL DEF Spec

\* Every variable has its type, whatever interleaves.
THEOREM TypeCorrect == Spec => []TypeOK
<1>1. IInv => TypeOK
  BY DEF IInv
<1> QED
  BY <1>1, Invariance, PTL

\* A program that exec started has its tree for as long as it runs.
THEOREM ExecLive == Spec => []ExecOnLiveRoot
<1>1. IInv => ExecOnLiveRoot
  BY UsersOf, RootAssumption DEF IInv, TombInv, ExecOnLiveRoot
<1> QED
  BY <1>1, Invariance, PTL

\* The tree of a session that create has returned is whole until it is tombstoned.
THEOREM DeliveredTree == Spec => []DeliveredTreeSurvives
<1>1. IInv => DeliveredTreeSurvives
  BY DEF IInv, DiskInv
<1> QED
  BY <1>1, Invariance, PTL

(***************************************************************************)
(* What every step of p leaves alone.                                      *)
(***************************************************************************)
Frame(p) ==
  /\ Others(p)
  /\ \A q \in Procs \ {p} : (fresh'[q] => fresh[q]) /\ tmp'[q] \in {tmp[q], NoRecord}
  /\ alarmed => alarmed'

LEMMA SameFrame ==
  ASSUME TypeOK, NEW p \in Procs, Same(p),
         (\E to \in Locations : Goto(p, to)) \/ (\E code \in Results : Exit(p, code))
  PROVE  Frame(p)
<1>1. /\ \A q \in Procs \ {p} : pc'[q] = pc[q] /\ txn'[q] = txn[q]
      /\ LockMove(p) /\ (alarmed => alarmed')
  BY GotoMoves, ExitMoves DEF Moved, Exit
<1>2. Calm(p)
  BY <1>1, SameCalm
<1> QED
  BY <1>1, <1>2 DEF Frame, Calm

\* How the control state of a step is framed.
Paced(p) ==
  /\ \A q \in Procs \ {p} : pc'[q] = pc[q] /\ txn'[q] = txn[q]
  /\ alarmed => alarmed'

LEMMA PacedStep ==
  ASSUME TypeOK, NEW p \in Procs,
         \/ \E to \in Locations : Goto(p, to)
         \/ \E code \in Results : Exit(p, code)
         \/ \E phase \in TxnPhases : Within(p, phase)
  PROVE  Paced(p)
<1>1. ASSUME NEW to \in Locations, Goto(p, to) PROVE Paced(p)
  BY <1>1, GotoMoves DEF Moved, Paced
<1>2. ASSUME NEW code \in Results, Exit(p, code) PROVE Paced(p)
  BY <1>2, ExitMoves DEF Moved, Paced, Exit
<1>3. ASSUME NEW phase \in TxnPhases, Within(p, phase) PROVE Paced(p)
  BY <1>3, WithinStays DEF Stayed, Paced
<1> QED
  BY <1>1, <1>2, <1>3

LEMMA CheckFrame ==
  ASSUME TypeOK, NEW p \in Procs, NEW at, NEW ok, NEW to \in Locations, NEW code \in Results,
         Check(p, at, ok, to, code)
  PROVE  Frame(p)
<1>1. Same(p)
  BY DEF Check, Same, diskVars, txnVars, histVars
<1>2. Goto(p, to) \/ Exit(p, code)
  BY DEF Check
<1> QED
  BY <1>1, <1>2, SameFrame

LEMMA ReplaceFrame ==
  ASSUME TypeOK, NEW p \in Procs, NEW at, NEW new, NEW to \in Locations,
         ReplaceRecord(p, at, new, to)
  PROVE  Frame(p)
<1>0. /\ UNCHANGED <<op, dir, child>> /\ "recovery" \in Results
      /\ {"written", "compared", "exchanged"} \subseteq TxnPhases
  BY LocationFacts DEF ReplaceRecord, TxnPhases
<1>1. CASE TxnWrite(p, new)
  <2>1. Paced(p)
    BY <1>0, <1>1, PacedStep DEF TxnWrite
  <2>2. tmp' = [tmp EXCEPT ![p] = new] \/ tmp' = tmp
    BY <1>1 DEF TxnWrite
  <2>3. UNCHANGED <<cap, fresh, clean>>
    BY <1>1 DEF TxnWrite
  <2> QED
    BY <1>0, <2>1, <2>2, <2>3 DEF Frame, Others, Paced, TypeOK
<1>2. CASE TxnCompare(p)
  <2>1. Paced(p)
    BY <1>0, <1>2, PacedStep DEF TxnCompare
  <2>2. tmp' = [tmp EXCEPT ![p] = NoRecord] \/ tmp' = tmp
    BY <1>2 DEF TxnCompare
  <2>3. UNCHANGED <<cap, fresh, clean>>
    BY <1>2 DEF TxnCompare
  <2> QED
    BY <1>0, <2>1, <2>2, <2>3 DEF Frame, Others, Paced, TypeOK
<1>3. CASE TxnExchange(p)
  <2>1. Paced(p)
    BY <1>0, <1>3, PacedStep DEF TxnExchange
  <2>2. tmp' = [tmp EXCEPT ![p] = NoRecord] \/ tmp' = [tmp EXCEPT ![p] = rec]
    BY <1>3 DEF TxnExchange
  <2>3. \A q \in Procs \ {p} : cap'[q] = cap[q] /\ clean'[q] = clean[q] /\ (fresh'[q] => fresh[q])
    BY <1>3 DEF TxnExchange, TypeOK
  <2> QED
    BY <1>0, <2>1, <2>2, <2>3 DEF Frame, Others, Paced, TypeOK
<1>4. CASE TxnCheck(p, to)
  <2>1. Paced(p)
    BY <1>0, <1>4, PacedStep DEF TxnCheck
  <2>2. tmp' = [tmp EXCEPT ![p] = NoRecord] \/ tmp' = tmp
    BY <1>4 DEF TxnCheck
  <2>3. UNCHANGED <<cap, fresh, clean>>
    BY <1>4 DEF TxnCheck
  <2> QED
    BY <1>0, <2>1, <2>2, <2>3 DEF Frame, Others, Paced, TypeOK
<1> QED
  BY <1>1, <1>2, <1>3, <1>4 DEF ReplaceRecord

LEMMA DropFrame ==
  ASSUME TypeOK, NEW p \in Procs, NEW at, NEW code \in Results, DropRecord(p, at, code)
  PROVE  Frame(p)
<1>1. Exit(p, code) \/ Exit(p, "recovery")
  BY DEF DropRecord
<1>2. Paced(p)
  BY <1>1, LocationFacts, PacedStep
<1>3. UNCHANGED <<op, dir, child, cap, clean, tmp>>
  BY DEF DropRecord
<1>4. \A q \in Procs : fresh'[q] => fresh[q]
  BY DEF DropRecord
<1> QED
  BY <1>2, <1>3, <1>4 DEF Frame, Others, Paced

LEMMA ClearFrame ==
  ASSUME TypeOK, NEW p \in Procs, NEW at, NEW named, NEW to \in Locations,
         ClearTree(p, at, named, to)
  PROVE  Frame(p)
<1>1. Goto(p, to) \/ Exit(p, "recovery")
  BY DEF ClearTree
<1>2. Paced(p)
  BY <1>1, LocationFacts, PacedStep
<1> QED
  BY <1>2 DEF Frame, Others, Paced, ClearTree, txnVars

LEMMA TryLeaseFrame ==
  ASSUME TypeOK, NEW p \in Procs, NEW at, NEW to \in Locations, TryLease(p, at, to)
  PROVE  Frame(p)
<1>1. Paced(p)
  <2>1. CASE Unleased(dir[p])
    BY <2>1 DEF TryLease, Paced, TypeOK
  <2>2. CASE ~Unleased(dir[p])
    BY <2>2, LocationFacts, PacedStep DEF TryLease
  <2> QED
    BY <2>1, <2>2
<1> QED
  BY <1>1 DEF Frame, Others, Paced, TryLease, txnVars

LEMMA LoadFrame ==
  ASSUME TypeOK, NEW p \in Procs, LoadForRemove(p) \/ LoadForExec(p) \/ LoadForPublish(p)
  PROVE  Frame(p)
<1>1. PICK commands : LoadStep(p, commands)
  BY LoadsWhere
<1>2. \/ \E to \in Locations : Loads(p, to)
      \/ \E code \in Results : Rejects(p, code)
  BY LoadsWhere
<1>3. Paced(p)
  BY <1>2, PacedStep DEF Loads, Rejects
<1>4. UNCHANGED <<op, child, clean, tmp>>
  BY <1>1 DEF LoadStep
<1>5. /\ cap' = cap \/ cap' = [cap EXCEPT ![p] = rec]
      /\ fresh' = fresh \/ fresh' = [fresh EXCEPT ![p] = TRUE]
      /\ dir' = dir \/ dir' = [dir EXCEPT ![p] = rec.root]
  BY <1>2 DEF Loads, Rejects
<1>6. \A q \in Procs \ {p} : cap'[q] = cap[q] /\ fresh'[q] = fresh[q] /\ dir'[q] = dir[q]
  BY <1>5 DEF TypeOK
<1> QED
  BY <1>3, <1>4, <1>6 DEF Frame, Others, Paced

LEMMA CreateFrame ==
  ASSUME IInv, NEW p \in Procs, CreateStep(p)
  PROVE  Frame(p)
<1>0. /\ TypeOK /\ CreateSteps \cup {"idle"} \subseteq Locations
      /\ {"ok", "busy", "refused", "error", "recovery", "killed"} \subseteq Results
  BY LocationFacts DEF IInv
<1>1. CASE Lookup(p)
  <2>1. Paced(p)
    BY <1>0, <1>1, LookupMoves, PacedStep DEF CreateSteps
  <2> QED
    BY <1>1, <2>1, LookupMoves DEF Frame, Others, Paced
<1>2. CASE Prepare(p)
  <2>1. Goto(p, "link") \/ Exit(p, "error")
    BY <1>2 DEF Prepare
  <2>2. Paced(p)
    BY <1>0, <2>1, PacedStep DEF CreateSteps
  <2>3. tmp' = tmp \/ tmp' = [tmp EXCEPT ![p] = Record("Prepared", NoRoot)]
    BY <1>2 DEF Prepare
  <2>4. \A q \in Procs \ {p} : tmp'[q] = tmp[q]
    BY <1>0, <2>3 DEF TypeOK
  <2> QED
    BY <1>2, <2>2, <2>4 DEF Frame, Others, Paced, Prepare
<1>3. CASE Link(p)
  <2>1. Goto(p, "mkdir") \/ Exit(p, "error")
    BY <1>3 DEF Link
  <2>2. Paced(p)
    BY <1>0, <2>1, PacedStep DEF CreateSteps
  <2>3. tmp' = [tmp EXCEPT ![p] = NoRecord]
    BY <1>3 DEF Link
  <2>4. cap' = cap \/ cap' = [cap EXCEPT ![p] = tmp[p]]
    BY <1>3 DEF Link
  <2>5. \A q \in Procs \ {p} : tmp'[q] = tmp[q] /\ cap'[q] = cap[q] /\ (fresh'[q] => fresh[q])
    BY <1>0, <1>3, <2>3, <2>4 DEF TypeOK, Link
  <2> QED
    BY <1>3, <2>2, <2>5 DEF Frame, Others, Paced, Link
<1>4. CASE Mkdir(p)
  <2>1. Goto(p, "mat") \/ Exit(p, "error")
    BY <1>4 DEF Mkdir
  <2>2. Paced(p)
    BY <1>0, <2>1, PacedStep DEF CreateSteps
  <2>3. dir' = dir \/ \E i \in Roots : dir' = [dir EXCEPT ![p] = i]
    BY <1>4 DEF Mkdir
  <2>4. \A q \in Procs \ {p} : dir'[q] = dir[q]
    BY <1>0, <2>3 DEF TypeOK
  <2> QED
    BY <1>4, <2>2, <2>4 DEF Frame, Others, Paced, Mkdir, txnVars
<1>5. CASE Materializing(p)
  BY <1>0, <1>5, ReplaceFrame DEF Materializing, CreateSteps
<1>6. CASE Build(p)
  <2>1. Goto(p, "recheck") \/ Goto(p, "abort") \/ Exit(p, "recovery")
    BY <1>6 DEF Build
  <2>2. Paced(p)
    BY <1>0, <2>1, PacedStep DEF CreateSteps
  <2> QED
    BY <1>6, <2>2 DEF Frame, Others, Paced, Build, txnVars
<1>7. CASE CommitReady(p)
  BY <1>0, <1>7, CheckFrame, ReplaceFrame DEF CommitReady, CreateSteps
<1>8. CASE Deliver(p)
  <2>1. Paced(p)
    BY <1>0, <1>8, PacedStep DEF Deliver
  <2> QED
    BY <1>8, <2>1 DEF Frame, Others, Paced, Deliver, txnVars
<1>9. CASE AbortCreate(p)
  <2>1. CASE /\ Goto(p, "abort_record") \/ Exit(p, "recovery")
             /\ UNCHANGED <<child, op, txnVars, dir>>
    <3>1. Paced(p)
      BY <1>0, <2>1, PacedStep DEF CreateSteps
    <3> QED
      BY <2>1, <3>1 DEF Frame, Others, Paced, txnVars
  <2>2. CASE Check(p, "abort", fresh[p], "abort_tree", "recovery")
    BY <1>0, <2>2, CheckFrame DEF CreateSteps
  <2>3. CASE ClearTree(p, "abort_tree", root = dir[p], "abort_rest")
    BY <1>0, <2>3, ClearFrame DEF CreateSteps
  <2>4. CASE DropRecord(p, "abort_record", "error")
    BY <1>0, <2>4, DropFrame
  <2> QED
    BY <1>9, <2>1, <2>2, <2>3, <2>4 DEF AbortCreate
<1> QED
  BY <1>1, <1>2, <1>3, <1>4, <1>5, <1>6, <1>7, <1>8, <1>9 DEF CreateStep

LEMMA RemoveFrame ==
  ASSUME IInv, NEW p \in Procs, RemoveStep(p)
  PROVE  Frame(p)
<1>0. /\ TypeOK /\ RemoveSteps \cup CompleteSteps \cup PublishSteps \cup {"idle"} \subseteq Locations
      /\ {"ok", "busy", "refused", "error", "recovery", "killed"} \subseteq Results
  BY LocationFacts DEF IInv
<1>1. CASE LoadForRemove(p)
  BY <1>0, <1>1, LoadFrame
<1>2. CASE AcquireLease(p)
  BY <1>0, <1>2, TryLeaseFrame DEF AcquireLease, RemoveSteps
<1>3. CASE Revalidate(p)
  <2>1. Same(p) /\ pc[p] = "revalidate"
    BY <1>3 DEF Revalidate, Check, Same, diskVars, txnVars, histVars
  <2>2. CapInv(p)
    BY DEF IInv, ProcInv
  <2>3. op[p] # "gc" => AfterLease(p) \in Locations
    BY <1>0, <2>1, <2>2 DEF CapInv, AfterLease, RemoveSteps, PublishSteps
  <2>4. (op[p] # "gc" /\ Goto(p, AfterLease(p))) \/ Exit(p, "recovery") \/ Exit(p, "ok")
    BY <1>3 DEF Revalidate, Check
  <2> QED
    BY <1>0, <2>1, <2>3, <2>4, SameFrame
<1>4. CASE DiscardCheck(p)
  BY <1>0, <1>4, CheckFrame DEF DiscardCheck, RemoveSteps
<1>5. CASE TransitionTombstone(p)
  <2>1. CASE ReplaceRecord(p, "tombstone", Record("Tombstoned", cap[p].root), "release")
    BY <1>0, <2>1, ReplaceFrame DEF RemoveSteps
  <2>2. CASE /\ pc' = [pc EXCEPT ![p] = "inspect"]
             /\ UNCHANGED <<txn, txnVars, op, dir, child, alarmed>>
    BY <1>0, <2>2 DEF Frame, Others, TypeOK, txnVars
  <2> QED
    BY <1>5, <2>1, <2>2 DEF TransitionTombstone
<1>6. CASE RemovePrepared(p)
  BY <1>0, <1>6, DropFrame DEF RemovePrepared
<1>7. CASE Inspect(p)
  <2>1. Goto(p, "tomb_lease") \/ Goto(p, "drop_record") \/ Exit(p, "recovery")
    BY <1>7 DEF Inspect
  <2>2. Paced(p)
    BY <1>0, <2>1, PacedStep DEF CompleteSteps
  <2>3. dir' = dir \/ dir' = [dir EXCEPT ![p] = cap[p].root]
    BY <1>7 DEF Inspect
  <2>4. \A q \in Procs \ {p} : dir'[q] = dir[q]
    BY <1>0, <2>3 DEF TypeOK
  <2> QED
    BY <1>7, <2>2, <2>4 DEF Frame, Others, Paced, Inspect, txnVars
<1>8. CASE Promote(p)
  <2>1. Goto(p, "tomb_recheck") \/ Exit(p, "recovery")
    BY <1>8 DEF Promote
  <2>2. Paced(p)
    BY <1>0, <2>1, PacedStep DEF CompleteSteps
  <2> QED
    BY <1>8, <2>2 DEF Frame, Others, Paced, Promote, txnVars
<1>9. CASE DeleteRest(p)
  <2>1. Goto(p, "drop_record") \/ Exit(p, "recovery")
    BY <1>9 DEF DeleteRest
  <2>2. Paced(p)
    BY <1>0, <2>1, PacedStep DEF CompleteSteps
  <2> QED
    BY <1>9, <2>2 DEF Frame, Others, Paced, DeleteRest, txnVars
<1>10. CASE CompleteTombstone(p) /\ ~Inspect(p) /\ ~Promote(p) /\ ~DeleteRest(p)
  BY <1>0, <1>10, TryLeaseFrame, CheckFrame, ClearFrame, DropFrame
     DEF CompleteTombstone, CompleteSteps
<1> QED
  BY <1>1, <1>2, <1>3, <1>4, <1>5, <1>6, <1>7, <1>8, <1>9, <1>10 DEF RemoveStep

LEMMA OtherFrame ==
  ASSUME IInv, NEW p \in Procs, ExecStep(p) \/ PublishStep(p) \/ GcStep(p)
  PROVE  Frame(p)
<1>0. /\ TypeOK /\ ExecSteps \cup PublishSteps \cup GcSteps \cup {"idle"} \subseteq Locations
      /\ {"inspect", "lease"} \subseteq Locations
      /\ {"ok", "busy", "refused", "error", "recovery", "killed"} \subseteq Results
  BY LocationFacts DEF IInv, CompleteSteps, RemoveSteps
<1>1. CASE LoadForExec(p) \/ LoadForPublish(p)
  BY <1>0, <1>1, LoadFrame
<1>2. CASE ShareRevalidate(p) \/ Wait(p)
  BY <1>0, <1>2, CheckFrame DEF ShareRevalidate, Wait, ExecSteps
<1>3. CASE Spawn(p)
  <2>1. Paced(p)
    BY <1>0, <1>3, PacedStep DEF Spawn, ExecSteps
  <2>2. child' = [child EXCEPT ![p] = dir[p]]
    BY <1>3 DEF Spawn
  <2>3. \A q \in Procs \ {p} : child'[q] = child[q]
    BY <1>0, <2>2 DEF TypeOK
  <2> QED
    BY <1>3, <2>1, <2>3 DEF Frame, Others, Paced, Spawn, txnVars
<1>4. CASE PublishSession(p) \/ PublishStops(p)
  BY <1>0, <1>4, CheckFrame, ReplaceFrame DEF PublishSession, PublishStops, PublishSteps
<1>5. CASE Census(p)
  <2>1. Goto(p, "recensus") \/ Exit(p, "recovery")
    BY <1>5 DEF Census
  <2>2. Paced(p)
    BY <1>0, <2>1, PacedStep DEF GcSteps
  <2>3. cap' = [cap EXCEPT ![p] = rec] /\ fresh' = [fresh EXCEPT ![p] = rec # NoRecord]
    BY <1>5 DEF Census
  <2>4. \A q \in Procs \ {p} : cap'[q] = cap[q] /\ fresh'[q] = fresh[q]
    BY <1>0, <2>3 DEF TypeOK
  <2> QED
    BY <1>5, <2>2, <2>4 DEF Frame, Others, Paced, Census
<1>6. CASE Recensus(p)
  BY <1>0, <1>6, CheckFrame DEF Recensus, GcSteps
<1>7. CASE Sweep(p)
  <2>1. Goto(p, "dispatch") \/ Exit(p, "recovery")
    BY <1>7 DEF Sweep
  <2>2. Paced(p)
    BY <1>0, <2>1, PacedStep DEF GcSteps
  <2>3. \A q \in Procs : tmp'[q] \in {tmp[q], NoRecord}
    BY <1>7 DEF Sweep
  <2> QED
    BY <1>7, <2>2, <2>3 DEF Frame, Others, Paced, Sweep
<1>8. CASE GcDispatch(p)
  <2>1. Goto(p, "inspect") \/ Goto(p, "lease") \/ Exit(p, "recovery") \/ Exit(p, "ok")
    BY <1>8 DEF GcDispatch
  <2>2. Paced(p)
    BY <1>0, <2>1, PacedStep
  <2>3. dir' = dir \/ dir' = [dir EXCEPT ![p] = cap[p].root]
    BY <1>8 DEF GcDispatch
  <2>4. \A q \in Procs \ {p} : dir'[q] = dir[q]
    BY <1>0, <2>3 DEF TypeOK
  <2> QED
    BY <1>8, <2>2, <2>4 DEF Frame, Others, Paced, GcDispatch, txnVars
<1> QED
  BY <1>1, <1>2, <1>3, <1>4, <1>5, <1>6, <1>7, <1>8 DEF ExecStep, PublishStep, GcStep

LEMMA StepFrame ==
  ASSUME IInv, NEW p \in Procs, Step(p)
  PROVE  Frame(p)
BY CreateFrame, RemoveFrame, OtherFrame DEF Step

(***************************************************************************)
(* Nothing goes wrong in silence.  A process is doomed when all that is    *)
(* left to it is to report an error: it is aborting, it needs the record   *)
(* it has read and the record on disk is another one, or its exchange has  *)
(* displaced a record it did not expect.  What is on disk is in order      *)
(* unless some process has reported an error or is bound to.               *)
(***************************************************************************)
Aborting == {"abort", "abort_tree", "abort_rest", "abort_record"}
MustBeFresh == {"mkdir", "mat", "build", "recheck", "ready", "tombstone", "journal", "settle",
                "remove_prepared", "tomb_revalidate", "promote", "tomb_recheck", "delete",
                "delete_rest", "drop_record"}
Doomed(p) ==
  \/ pc[p] \in Aborting
  \/ pc[p] \in MustBeFresh /\ ~fresh[p]
  \/ Exchanged(p) /\ ~clean[p]

\* Who is at work on a record that is not final.
Preparing == {"mkdir", "mat"}
Filling   == {"mat", "build", "recheck", "ready"}

Orderly ==
  /\ rec = NoRecord => root = NoRoot /\ tomb = NoRoot
  /\ rec.st = "Prepared" => \E p \in Procs : pc[p] \in Preparing
  /\ rec.st = "Materializing" => AtRoot(rec.root) /\ \E p \in Procs : pc[p] \in Filling
  /\ rec.st = "Ready" => Loadable
  /\ rec.st = "Tombstoned" =>
       AtRoot(rec.root) \/ AtTomb(rec.root) \/ (root = NoRoot /\ tomb = NoRoot)
  /\ \A p \in Procs : pc[p] = "drop_record" => root = NoRoot /\ tomb = NoRoot

InHand(p) == tmp[p] # NoRecord => pc[p] = "link" \/ txn[p] # "none"

SilentInv ==
  ~alarmed =>
    /\ \A p \in Procs : InHand(p)
    /\ (\A p \in Procs : ~Doomed(p)) => Orderly

\* A doomed process stays so until it has reported an error; it is enough to look
\* at the process that takes the step.
LEMMA SilentByStep ==
  ASSUME SilentInv, NEW p \in Procs, Frame(p),
         ~alarmed' /\ InHand(p) => InHand(p)',
         ~alarmed' /\ Doomed(p) => Doomed(p)',
         ~alarmed' /\ Orderly /\ (\A q \in Procs : ~Doomed(q) /\ ~Doomed(q)') => Orderly'
  PROVE  SilentInv'
<1> SUFFICES ASSUME ~alarmed'
             PROVE  /\ \A q \in Procs : InHand(q)'
                    /\ (\A q \in Procs : ~Doomed(q)') => Orderly'
  BY DEF SilentInv
<1>1. ~alarmed
  BY DEF Frame
<1>2. ASSUME NEW q \in Procs \ {p} PROVE InHand(q)' /\ (Doomed(q) => Doomed(q)')
  <2>1. /\ pc'[q] = pc[q] /\ txn'[q] = txn[q] /\ clean'[q] = clean[q]
        /\ fresh'[q] => fresh[q]
        /\ tmp'[q] \in {tmp[q], NoRecord}
    BY DEF Frame, Others
  <2>2. InHand(q)'
    BY <1>1, <2>1 DEF SilentInv, InHand
  <2>3. Doomed(q) => Doomed(q)'
    BY <2>1 DEF Doomed, Exchanged
  <2> QED
    BY <2>2, <2>3
<1>3. \A q \in Procs : InHand(q)'
  BY <1>1, <1>2 DEF SilentInv
<1>4. ASSUME \A q \in Procs : ~Doomed(q)' PROVE Orderly'
  <2>1. \A q \in Procs : ~Doomed(q)
    BY <1>2, <1>4
  <2> QED
    BY <1>1, <1>4, <2>1 DEF SilentInv
<1> QED
  BY <1>3, <1>4

\* A step that leaves the record and the tree alone.
Steady(p) ==
  /\ rec.st = "Prepared" /\ pc[p] \in Preparing => pc'[p] \in Preparing
  /\ rec.st = "Materializing" /\ pc[p] \in Filling => pc'[p] \in Filling
  /\ pc'[p] = "drop_record" => pc[p] = "drop_record" \/ (root = NoRoot /\ tomb = NoRoot)

LEMMA SilentCalm ==
  ASSUME SilentInv, NEW p \in Procs, Frame(p), UNCHANGED <<rec, root, tomb, content>>,
         ~alarmed' /\ InHand(p) => InHand(p)',
         ~alarmed' /\ Doomed(p) => Doomed(p)',
         ~alarmed' /\ ~Doomed(p) /\ ~Doomed(p)' => Steady(p)
  PROVE  SilentInv'
<1>1. ASSUME ~alarmed', Orderly, \A q \in Procs : ~Doomed(q) /\ ~Doomed(q)' PROVE Orderly'
  <2>1. Steady(p) /\ \A q \in Procs \ {p} : pc'[q] = pc[q]
    BY <1>1 DEF Frame, Others
  <2>2. rec.st = "Prepared" => \E q \in Procs : pc'[q] \in Preparing
    BY <1>1, <2>1 DEF Orderly, Steady
  <2>3. rec.st = "Materializing" => \E q \in Procs : pc'[q] \in Filling
    BY <1>1, <2>1 DEF Orderly, Steady
  <2>4. \A q \in Procs : pc'[q] = "drop_record" => root = NoRoot /\ tomb = NoRoot
    BY <1>1, <2>1 DEF Orderly, Steady
  <2> QED
    BY <1>1, <2>2, <2>3, <2>4 DEF Orderly, AtRoot, AtTomb, Loadable
<1> QED
  BY <1>1, SilentByStep

\* A command that ends with an error has broken the silence; one that ends
\* otherwise ends where it held nothing and owed nothing.
Alarms == {"error", "recovery", "killed"}
Owing  == MustBeFresh \cup Aborting \cup Replacing \cup {"link"}

LEMMA SilentAlarm ==
  ASSUME NEW p \in Procs, NEW code \in Alarms, Exit(p, code)
  PROVE  SilentInv'
BY DEF Exit, Alarms, SilentInv

LEMMA SilentExit ==
  ASSUME IInv, SilentInv, NEW p \in Procs, Frame(p), NEW code \in Results, Exit(p, code),
         UNCHANGED <<rec, root, tomb, content, tmp>>,
         code \notin Alarms => pc[p] \notin Owing
  PROVE  SilentInv'
<1>1. CASE code \in Alarms
  BY <1>1, SilentAlarm
<1>2. CASE code \notin Alarms
  <2>1. TypeOK /\ pc'[p] = "idle" /\ txn'[p] = "none" /\ txn[p] = "none"
    BY <1>2, ExitMoves DEF IInv, ProcInv, TmpInv, Owing, Moved
  <2>2. InHand(p) => InHand(p)'
    BY <1>2, <2>1 DEF InHand, Owing
  <2>3. ~Doomed(p)
    BY <1>2, <2>1 DEF Doomed, Owing, Exchanged
  <2>4. Steady(p)
    BY <1>2, <2>1 DEF Steady, Owing, Preparing, Filling, MustBeFresh
  <2> QED
    BY <2>2, <2>3, <2>4, SilentCalm
<1> QED
  BY <1>1, <1>2

\* A command goes on, and its place tells what it owes.
LEMMA SilentGoto ==
  ASSUME IInv, SilentInv, NEW p \in Procs, Frame(p), NEW to \in Locations, Goto(p, to),
         UNCHANGED <<rec, root, tomb, content, tmp>>,
         pc[p] \notin Replacing \cup {"link"},
         pc[p] \in Aborting => to \in Aborting,
         pc[p] \in MustBeFresh /\ ~fresh[p] => ~fresh'[p] /\ to \in MustBeFresh,
         pc[p] \in Preparing => to \in Preparing,
         pc[p] \in Filling => to \in Filling \cup Aborting,
         to = "drop_record" => root = NoRoot /\ tomb = NoRoot
  PROVE  SilentInv'
<1>1. TypeOK /\ pc'[p] = to /\ txn'[p] = "none" /\ txn[p] = "none"
  BY GotoMoves DEF IInv, ProcInv, TmpInv, Moved
<1>2. InHand(p) => InHand(p)'
  BY <1>1 DEF InHand
<1>3. Doomed(p) => Doomed(p)'
  BY <1>1 DEF Doomed, Exchanged
<1>4. ~Doomed(p)' => Steady(p)
  BY <1>1 DEF Steady, Doomed
<1> QED
  BY <1>2, <1>3, <1>4, SilentCalm

LEMMA SilentCheck ==
  ASSUME IInv, SilentInv, NEW p \in Procs, NEW at, NEW ok, NEW to \in Locations,
         NEW code \in Results, Check(p, at, ok, to, code),
         ~ok /\ code \notin Alarms => at \notin Owing,
         ok => /\ at \notin Replacing \cup {"link"}
               /\ at \in Aborting => to \in Aborting
               /\ at \in MustBeFresh /\ ~fresh[p] => to \in MustBeFresh
               /\ at \in Preparing => to \in Preparing
               /\ at \in Filling => to \in Filling \cup Aborting
               /\ to # "drop_record"
  PROVE  SilentInv'
<1>1. Frame(p)
  BY CheckFrame DEF IInv
<1>2. pc[p] = at /\ UNCHANGED <<rec, root, tomb, content, tmp, fresh>>
  BY DEF Check, diskVars, txnVars
<1>3. CASE ok
  BY <1>1, <1>2, <1>3, SilentGoto DEF Check
<1>4. CASE ~ok
  BY <1>1, <1>2, <1>4, SilentExit DEF Check
<1> QED
  BY <1>3, <1>4

LEMMA SilentReplace ==
  ASSUME IInv, SilentInv, NEW p \in Procs, NEW at \in Replacing, NEW new,
         ReplaceRecord(p, at, new, After[at])
  PROVE  SilentInv'
<1>0. /\ TypeOK /\ pc[p] = at /\ UNCHANGED <<root, tomb, content, dir>>
      /\ After[at] \in Locations
      /\ CapInv(p) /\ DirInv(p) /\ TmpInv(p) /\ TreeInv(p) /\ DiskInv /\ TombInv
      /\ {"written", "compared", "exchanged"} \subseteq TxnPhases /\ at \in MustBeFresh
      /\ "recovery" \in Results /\ "recovery" \in Alarms
  BY LocationFacts
     DEF IInv, ProcInv, ReplaceRecord, diskVars, TxnPhases, After, Replacing, CreateSteps,
         RemoveSteps, PublishSteps, MustBeFresh, Alarms
<1>1. Frame(p)
  BY <1>0, ReplaceFrame
<1>2. CASE TxnWrite(p, new)
  <2>1. CASE fresh[p]
    <3>1. Within(p, "written") /\ UNCHANGED <<rec, fresh, clean>> /\ txn[p] = "none"
      BY <1>2, <2>1 DEF TxnWrite
    <3>2. pc' = pc /\ txn'[p] = "written" /\ alarmed' = alarmed
      BY <1>0, <3>1, WithinStays DEF Stayed
    <3>3. ~Doomed(p) /\ InHand(p)'
      BY <1>0, <2>1, <3>1, <3>2 DEF Doomed, Exchanged, InHand, Aborting, Replacing
    <3>4. Steady(p)
      BY <1>0, <3>2 DEF Steady, Replacing
    <3> QED
      BY <1>0, <1>1, <3>1, <3>3, <3>4, SilentCalm
  <2>2. CASE ~fresh[p]
    BY <1>0, <1>2, <2>2, SilentAlarm DEF TxnWrite
  <2> QED
    BY <2>1, <2>2
<1>3. CASE TxnCompare(p)
  <2>1. CASE fresh[p] /\ tmp[p] # NoRecord
    <3>1. Within(p, "compared") /\ UNCHANGED <<rec, fresh, clean>> /\ txn[p] = "written"
      BY <1>3, <2>1 DEF TxnCompare
    <3>2. pc' = pc /\ txn'[p] = "compared" /\ alarmed' = alarmed
      BY <1>0, <3>1, WithinStays DEF Stayed
    <3>3. ~Doomed(p) /\ InHand(p)'
      BY <1>0, <2>1, <3>1, <3>2 DEF Doomed, Exchanged, InHand, Aborting, Replacing
    <3>4. Steady(p)
      BY <1>0, <3>2 DEF Steady, Replacing
    <3> QED
      BY <1>0, <1>1, <3>1, <3>3, <3>4, SilentCalm
  <2>2. CASE ~(fresh[p] /\ tmp[p] # NoRecord)
    BY <1>0, <1>3, <2>2, SilentAlarm DEF TxnCompare
  <2> QED
    BY <2>1, <2>2
<1>4. CASE TxnExchange(p)
  <2>1. CASE /\ tmp[p] # NoRecord /\ Within(p, "exchanged") /\ rec' = tmp[p]
             /\ clean' = [clean EXCEPT ![p] = fresh[p]] /\ fresh' = [q \in Procs |-> q = p]
    <3>1. /\ pc' = pc /\ txn'[p] = "exchanged" /\ alarmed' = alarmed
      BY <1>0, <2>1, WithinStays DEF Stayed
    <3>2. /\ clean'[p] = fresh[p] /\ fresh'[p] /\ \A q \in Procs \ {p} : ~fresh'[q]
          /\ txn[p] = "compared" /\ ~Exchanged(p) /\ rec' = New(p)
      BY <1>0, <1>4, <2>1 DEF TypeOK, TxnExchange, Exchanged, TmpInv
    <3>3. InHand(p)'
      BY <3>1 DEF InHand
    <3>4. Doomed(p) => Doomed(p)'
      BY <1>0, <3>1, <3>2 DEF Doomed, Exchanged, Replacing, Aborting
    <3>5. ASSUME Orderly, \A q \in Procs : ~Doomed(q) /\ ~Doomed(q)' PROVE Orderly'
      <4>1. fresh[p] /\ cap[p] = rec /\ rec # NoRecord /\ rec \in Records
        BY <1>0, <3>5 DEF Doomed, CapInv, TypeOK
      <4>2. \A q \in Procs : pc'[q] # "drop_record"
        BY <1>0, <3>1, <3>2, <3>5 DEF Doomed, MustBeFresh, Replacing
      <4>3. CASE at = "mat"
        <5>1. rec' = Record("Materializing", dir[p]) /\ root = dir[p] /\ dir[p] \in Roots
          BY <1>0, <3>2, <4>3 DEF New, TreeInv, DirInv, Creating
        <5>2. rec'.st = "Materializing" /\ rec'.root = dir[p] /\ rec' # NoRecord
          BY <5>1, RecordFacts
        <5>3. root' = dir[p] /\ tomb' = NoRoot
          BY <1>0, <5>1, RootAssumption DEF TombInv
        <5>4. pc'[p] \in Filling
          BY <1>0, <3>1, <4>3 DEF Filling
        <5> QED
          BY <4>2, <5>2, <5>3, <5>4 DEF Orderly, AtRoot
      <4>4. CASE at = "ready"
        <5>1. rec' = Record("Ready", dir[p]) /\ root = dir[p] /\ content[dir[p]] = "complete"
          <6>1. dir[p] \notin condemned
            BY <1>0, <3>2, <4>1, <4>4 DEF TreeInv, Making
          <6> QED
            BY <1>0, <3>2, <4>4, <6>1 DEF New, TreeInv, Built
        <5>2. rec'.st = "Ready" /\ rec'.root = dir[p] /\ rec' # NoRecord
          BY <5>1, RecordFacts
        <5>3. Loadable'
          BY <1>0, <5>1, <5>2 DEF Loadable
        <5> QED
          BY <4>2, <5>2, <5>3 DEF Orderly
      <4>5. CASE at = "tombstone"
        <5>1. rec' = Record("Tombstoned", rec.root)
          BY <1>0, <3>2, <4>1, <4>5 DEF New
        <5>2. rec'.st = "Tombstoned" /\ rec'.root = rec.root /\ rec' # NoRecord
          BY <5>1, RecordFacts
        <5>3. rec.st \in {"Ready", "Materializing"} /\ rec.root \in Roots
          BY <1>0, <3>2, <4>1, <4>5, RecordKinds DEF CapInv
        <5>4. AtRoot(rec.root)
          BY <1>0, <3>5, <5>3, RootAssumption DEF Orderly, Loadable, AtRoot, TombInv
        <5>5. AtRoot(rec.root)'
          BY <1>0, <5>2, <5>4 DEF AtRoot
        <5> QED
          BY <4>2, <5>2, <5>5 DEF Orderly
      <4>6. CASE at \in {"journal", "settle"}
        <5>1. rec.st = "Ready" /\ Loadable
          BY <1>0, <3>5, <4>1, <4>6 DEF CapInv, PublishSteps, Orderly
        <5>2. rec'.st = "Ready" /\ rec'.root = rec.root /\ rec' # NoRecord
          BY <1>0, <3>2, <4>1, <4>6, <5>1, RecordKinds, NewRoot
        <5>3. Loadable'
          BY <1>0, <5>1, <5>2 DEF Loadable
        <5> QED
          BY <4>2, <5>2, <5>3 DEF Orderly
      <4> QED
        BY <4>3, <4>4, <4>5, <4>6 DEF Replacing
    <3> QED
      BY <1>1, <3>3, <3>4, <3>5, SilentByStep
  <2>2. CASE Exit(p, "recovery")
    BY <1>0, <2>2, SilentAlarm
  <2> QED
    BY <1>4, <2>1, <2>2 DEF TxnExchange
<1>5. CASE TxnCheck(p, After[at])
  <2>1. CASE fresh[p] /\ clean[p] /\ tmp[p] # NoRecord
    <3>1. /\ tmp' = [tmp EXCEPT ![p] = NoRecord] /\ Goto(p, After[at]) /\ Exchanged(p)
          /\ UNCHANGED <<rec, fresh, clean>>
      BY <1>5, <2>1 DEF TxnCheck, Exchanged
    <3>2. pc'[p] = After[at] /\ txn'[p] = "none" /\ tmp'[p] = NoRecord
      BY <1>0, <3>1, GotoMoves DEF Moved, TypeOK
    <3>3. ~Doomed(p) /\ InHand(p)'
      BY <1>0, <2>1, <3>2 DEF Doomed, InHand, Aborting, Replacing
    <3>4. cap[p] = rec
      BY <1>0, <2>1 DEF CapInv
    <3>5. Steady(p)
      BY <1>0, <3>1, <3>2, <3>4 DEF Steady, CapInv, Replacing, After, Preparing, Filling
    <3> QED
      BY <1>0, <1>1, <3>1, <3>3, <3>5, SilentCalm
  <2>2. CASE ~(fresh[p] /\ clean[p] /\ tmp[p] # NoRecord)
    BY <1>0, <1>5, <2>2, SilentAlarm DEF TxnCheck
  <2> QED
    BY <2>1, <2>2
<1> QED
  BY <1>2, <1>3, <1>4, <1>5 DEF ReplaceRecord

LEMMA SilentDrop ==
  ASSUME IInv, SilentInv, NEW p \in Procs, NEW at, NEW code \in Results, DropRecord(p, at, code),
         at \in {"remove_prepared", "drop_record"} \/ code \in Alarms
  PROVE  SilentInv'
<1>0. TypeOK /\ CapInv(p) /\ TmpInv(p) /\ Frame(p) /\ "recovery" \in Alarms
  BY DropFrame DEF IInv, ProcInv, Alarms
<1>1. CASE fresh[p] /\ code \notin Alarms
  <2>1. /\ pc[p] = at /\ rec' = NoRecord /\ fresh' = [q \in Procs |-> FALSE] /\ Exit(p, code)
        /\ UNCHANGED <<root, tomb, content, tmp>>
    BY <1>1 DEF DropRecord, diskVars
  <2>2. /\ pc'[p] = "idle" /\ txn'[p] = "none" /\ txn[p] = "none"
    BY <1>0, <1>1, <2>1, ExitMoves DEF Moved, TmpInv, Replacing
  <2>3. ~Doomed(p) /\ (InHand(p) => InHand(p)')
    BY <1>1, <2>1, <2>2 DEF Doomed, InHand, Exchanged, Aborting
  <2>4. ASSUME Orderly, \A q \in Procs : ~Doomed(q) /\ ~Doomed(q)' PROVE Orderly'
    <3>1. \A q \in Procs : pc'[q] \notin MustBeFresh
      BY <2>1, <2>4 DEF Doomed
    <3>2. \A q \in Procs \ {p} : pc[q] \notin MustBeFresh
      BY <1>0, <3>1 DEF Frame, Others
    <3>3. root = NoRoot /\ tomb = NoRoot
      <4>1. CASE at = "drop_record"
        BY <2>1, <2>4, <4>1 DEF Orderly
      <4>2. CASE at = "remove_prepared"
        <5>1. rec.st = "Prepared"
          BY <1>0, <1>1, <2>1, <4>2 DEF CapInv
        <5>2. PICK q \in Procs : pc[q] \in Preparing
          BY <2>4, <5>1 DEF Orderly
        <5> QED
          BY <2>1, <3>2, <4>2, <5>2 DEF Preparing, MustBeFresh
      <4> QED
        BY <1>1, <4>1, <4>2
    <3> QED
      BY <2>1, <3>1, <3>3, RecordFacts DEF Orderly, MustBeFresh
  <2> QED
    BY <1>0, <2>3, <2>4, SilentByStep
<1>2. CASE ~fresh[p] \/ code \in Alarms
  BY <1>0, <1>2, SilentAlarm DEF DropRecord
<1> QED
  BY <1>1, <1>2

LEMMA SilentCreate ==
  ASSUME IInv, SilentInv, NEW p \in Procs, CreateStep(p)
  PROVE  SilentInv'
<1>0. /\ TypeOK /\ CreateSteps \cup {"idle"} \subseteq Locations /\ Frame(p) /\ TombInv /\ DiskInv
      /\ {"ok", "busy", "refused", "error", "recovery", "killed"} \subseteq Results
      /\ {"error", "recovery", "killed"} \subseteq Alarms
      /\ CapInv(p) /\ DirInv(p) /\ TmpInv(p) /\ TreeInv(p)
  BY LocationFacts, CreateFrame DEF IInv, ProcInv, Alarms
<1>1. CASE Lookup(p)
  <2>1. pc[p] = "lookup" /\ UNCHANGED <<rec, root, tomb, content, tmp>> /\ pc[p] \notin Owing
    BY <1>1, LookupMoves DEF Owing, MustBeFresh, Aborting, Replacing
  <2>2. CASE Goto(p, "prepare")
    BY <1>0, <2>1, <2>2, SilentGoto DEF CreateSteps, Owing, Preparing, Filling
  <2>3. ASSUME NEW code \in Results, Exit(p, code) PROVE SilentInv'
    BY <1>0, <2>1, <2>3, SilentExit
  <2> QED
    BY <1>0, <1>1, <2>2, <2>3, LookupMoves
<1>2. CASE Prepare(p)
  <2>1. CASE rec = NoRecord
    <3>1. pc[p] = "prepare" /\ Goto(p, "link") /\ UNCHANGED <<rec, root, tomb, content>>
      BY <1>2, <2>1 DEF Prepare, diskVars
    <3>2. pc'[p] = "link" /\ txn'[p] = "none"
      BY <1>0, <3>1, GotoMoves DEF Moved, CreateSteps
    <3>3. InHand(p)' /\ ~Doomed(p) /\ Steady(p)
      BY <1>0, <3>1, <3>2
      DEF InHand, Doomed, Exchanged, Steady, TmpInv, Replacing, Aborting, MustBeFresh, Preparing,
          Filling
    <3> QED
      BY <1>0, <3>1, <3>3, SilentCalm
  <2>2. CASE rec # NoRecord
    BY <1>0, <1>2, <2>2, SilentAlarm DEF Prepare
  <2> QED
    BY <2>1, <2>2
<1>3. CASE Link(p)
  <2>1. CASE rec = NoRecord
    <3>1. /\ pc[p] = "link" /\ Goto(p, "mkdir") /\ rec' = tmp[p] /\ fresh' = [q \in Procs |-> q = p]
          /\ tmp' = [tmp EXCEPT ![p] = NoRecord]
      BY <1>3, <2>1 DEF Link
    <3>2. pc'[p] = "mkdir" /\ txn'[p] = "none" /\ tmp'[p] = NoRecord
      BY <1>0, <3>1, GotoMoves DEF Moved, CreateSteps, TypeOK
    <3>3. InHand(p)' /\ ~Doomed(p)
      BY <1>0, <3>1, <3>2 DEF InHand, Doomed, Exchanged, TmpInv, Replacing, Aborting, MustBeFresh
    <3>4. rec'.st = "Prepared" /\ rec' # NoRecord
      BY <1>0, <3>1, RecordFacts DEF TmpInv
    <3>5. ASSUME \A q \in Procs : ~Doomed(q)' PROVE Orderly'
      <4>1. \A q \in Procs : pc'[q] # "drop_record"
        BY <3>1, <3>2, <3>5 DEF Doomed, MustBeFresh
      <4>2. pc'[p] \in Preparing
        BY <3>2 DEF Preparing
      <4> QED
        BY <3>4, <4>1, <4>2 DEF Orderly
    <3> QED
      BY <1>0, <3>3, <3>5, SilentByStep
  <2>2. CASE rec # NoRecord
    BY <1>0, <1>3, <2>2, SilentAlarm DEF Link
  <2> QED
    BY <2>1, <2>2
<1>4. CASE Mkdir(p)
  <2>1. CASE Goto(p, "mat")
    <3>1. pc[p] = "mkdir" /\ UNCHANGED <<rec, fresh, clean, tmp>>
      BY <1>4 DEF Mkdir, txnVars
    <3>2. pc'[p] = "mat" /\ txn'[p] = "none" /\ txn[p] = "none"
      BY <1>0, <2>1, <3>1, GotoMoves DEF Moved, CreateSteps, TmpInv, Replacing
    <3>3. (InHand(p) => InHand(p)') /\ (Doomed(p) => Doomed(p)')
      BY <3>1, <3>2 DEF InHand, Doomed, Exchanged, Aborting, MustBeFresh
    <3>4. ASSUME Orderly, \A q \in Procs : ~Doomed(q) /\ ~Doomed(q)' PROVE Orderly'
      <4>1. rec.st = "Prepared" /\ rec # NoRecord
        BY <1>0, <3>1, <3>4 DEF Doomed, MustBeFresh, CapInv
      <4>2. ASSUME NEW q \in Procs, pc[q] = "drop_record" PROVE FALSE
        <5>1. CapInv(q) /\ fresh[q]
          BY <3>4, <4>2 DEF IInv, ProcInv, Doomed, MustBeFresh
        <5> QED
          BY <4>1, <4>2, <5>1 DEF CapInv, CompleteSteps
      <4>3. \A q \in Procs : pc'[q] # "drop_record"
        BY <1>0, <3>2, <4>2 DEF Frame, Others
      <4>4. pc'[p] \in Preparing
        BY <3>2 DEF Preparing
      <4> QED
        BY <3>1, <4>1, <4>3, <4>4 DEF Orderly
    <3> QED
      BY <1>0, <3>3, <3>4, SilentByStep
  <2>2. CASE Exit(p, "error")
    BY <1>0, <2>2, SilentAlarm
  <2> QED
    BY <1>4, <2>1, <2>2 DEF Mkdir
<1>5. CASE Materializing(p)
  BY <1>5, SilentReplace DEF Materializing, Replacing, After
<1>6. CASE Build(p)
  <2>0. /\ pc[p] = "build" /\ UNCHANGED <<rec, root, tomb, fresh, clean, tmp>> /\ txn[p] = "none"
    BY <1>0, <1>6 DEF Build, txnVars, TmpInv, Replacing
  <2>1. CASE Goto(p, "recheck") /\ content' = [content EXCEPT ![dir[p]] = "complete"]
    <3>1. pc'[p] = "recheck" /\ txn'[p] = "none"
      BY <1>0, <2>1, GotoMoves DEF Moved, CreateSteps
    <3>2. (InHand(p) => InHand(p)') /\ (Doomed(p) => Doomed(p)')
      BY <2>0, <3>1 DEF InHand, Doomed, Exchanged, Aborting, MustBeFresh
    <3>3. ASSUME Orderly PROVE Orderly'
      <4>1. rec.st = "Prepared" => \E q \in Procs : pc'[q] \in Preparing
        <5>1. pc[p] \notin Preparing
          BY <2>0 DEF Preparing
        <5> QED
          BY <1>0, <3>3, <5>1 DEF Orderly, Frame, Others
      <4>2. pc'[p] \in Filling
        BY <3>1 DEF Filling
      <4>3. Loadable => Loadable'
        BY <1>0, <2>0, <2>1 DEF Loadable, TypeOK
      <4>4. \A q \in Procs : pc'[q] = "drop_record" => pc[q] = "drop_record"
        BY <1>0, <3>1 DEF Frame, Others
      <4> QED
        BY <2>0, <3>3, <4>1, <4>2, <4>3, <4>4 DEF Orderly, AtRoot, AtTomb
    <3> QED
      BY <1>0, <3>2, <3>3, SilentByStep
  <2>2. CASE Goto(p, "abort") /\ UNCHANGED content
    <3>1. pc'[p] = "abort" /\ txn'[p] = "none"
      BY <1>0, <2>2, GotoMoves DEF Moved, CreateSteps
    <3>2. (InHand(p) => InHand(p)') /\ Doomed(p)'
      BY <2>0, <3>1 DEF InHand, Doomed, Aborting
    <3> QED
      BY <1>0, <2>0, <2>2, <3>2, SilentCalm
  <2>3. CASE Exit(p, "recovery")
    BY <1>0, <2>3, SilentAlarm
  <2> QED
    BY <1>6, <2>1, <2>2, <2>3 DEF Build
<1>7. CASE CommitReady(p)
  <2>1. CASE Check(p, "recheck", fresh[p] /\ root = dir[p], "ready", "recovery")
    BY <1>0, <2>1, SilentCheck
       DEF CreateSteps, Owing, MustBeFresh, Aborting, Replacing, Preparing, Filling
  <2>2. CASE ReplaceRecord(p, "ready", Record("Ready", dir[p]), "deliver")
    BY <2>2, SilentReplace DEF Replacing, After
  <2> QED
    BY <1>7, <2>1, <2>2 DEF CommitReady
<1>8. CASE Deliver(p)
  BY <1>0, <1>8, SilentExit
  DEF Deliver, diskVars, txnVars, Owing, MustBeFresh, Aborting, Replacing
<1>9. CASE AbortCreate(p)
  <2>1. CASE \E code \in Alarms : Exit(p, code)
    BY <2>1, SilentAlarm
  <2>2. CASE Goto(p, "abort_tree") \/ Goto(p, "abort_rest") \/ Goto(p, "abort_record")
    <3>1. pc'[p] \in Aborting /\ txn'[p] = "none"
      BY <1>0, <2>2, GotoMoves DEF Moved, CreateSteps, Aborting
    <3>2. pc[p] \in Aborting /\ tmp' = tmp
      BY <1>9 DEF AbortCreate, Check, ClearTree, DropRecord, txnVars, Aborting
    <3>3. txn[p] = "none"
      BY <1>0, <3>2 DEF TmpInv, Aborting, Replacing
    <3>4. (InHand(p) => InHand(p)') /\ Doomed(p)'
      BY <3>1, <3>2, <3>3 DEF InHand, Doomed, Aborting
    <3> QED
      BY <1>0, <3>4, SilentByStep
  <2>3. \/ \E code \in {"error", "recovery"} : Exit(p, code)
        \/ Goto(p, "abort_tree") \/ Goto(p, "abort_rest") \/ Goto(p, "abort_record")
    BY <1>9 DEF AbortCreate, Check, ClearTree, DropRecord
  <2> QED
    BY <1>0, <2>1, <2>2, <2>3
<1> QED
  BY <1>1, <1>2, <1>3, <1>4, <1>5, <1>6, <1>7, <1>8, <1>9 DEF CreateStep

LEMMA SilentLoad ==
  ASSUME IInv, SilentInv, NEW p \in Procs, LoadForRemove(p) \/ LoadForExec(p) \/ LoadForPublish(p)
  PROVE  SilentInv'
<1>1. PICK commands : LoadStep(p, commands)
  BY LoadsWhere
<1>2. /\ TypeOK /\ Frame(p) /\ pc[p] = "load" /\ UNCHANGED <<rec, root, tomb, content, tmp>>
  BY <1>1, LoadFrame DEF IInv, LoadStep, diskVars
<1>3. ASSUME NEW to \in {"inspect", "lease", "remove_prepared", "share"}, Loads(p, to)
      PROVE  SilentInv'
  <2>1. to \in Locations /\ Goto(p, to)
    BY <1>3, LocationFacts DEF Loads, CompleteSteps, RemoveSteps, ExecSteps
  <2> QED
    BY <1>2, <2>1, SilentGoto DEF Replacing, Aborting, MustBeFresh, Preparing, Filling
<1>4. ASSUME NEW code \in Results, Rejects(p, code) PROVE SilentInv'
  BY <1>2, <1>4, SilentExit DEF Rejects, Owing, MustBeFresh, Aborting, Replacing
<1>5. {"ok", "refused", "error", "recovery"} \subseteq Results
  BY LocationFacts
<1>6. \/ \E to \in {"inspect", "lease", "remove_prepared", "share"} : Loads(p, to)
      \/ \E code \in {"ok", "refused", "error", "recovery"} : Rejects(p, code)
  <2>1. CASE LoadForRemove(p)
    BY <2>1 DEF LoadForRemove
  <2>2. CASE LoadForExec(p)
    BY <2>2 DEF LoadForExec
  <2>3. CASE LoadForPublish(p)
    BY <2>3 DEF LoadForPublish
  <2> QED
    BY <2>1, <2>2, <2>3
<1> QED
  BY <1>3, <1>4, <1>5, <1>6

\* A process moves without Goto: it takes a lease or gives it back.
LEMMA SilentMove ==
  ASSUME IInv, SilentInv, NEW p \in Procs, Frame(p), UNCHANGED <<rec, root, tomb, content, tmp, txn>>,
         pc[p] \notin MustBeFresh \cup Aborting \cup Replacing \cup {"link"},
         pc'[p] # "drop_record"
  PROVE  SilentInv'
<1>1. txn[p] = "none"
  BY DEF IInv, ProcInv, TmpInv
<1>2. (InHand(p) => InHand(p)') /\ ~Doomed(p)
  BY <1>1 DEF InHand, Doomed, Exchanged
<1>3. Steady(p)
  BY DEF Steady, Preparing, Filling, MustBeFresh
<1> QED
  BY <1>2, <1>3, SilentCalm

LEMMA SilentLease ==
  ASSUME IInv, SilentInv, NEW p \in Procs, NEW at, NEW to, TryLease(p, at, to),
         <<at, to>> \in {<<"lease", "revalidate">>, <<"tomb_lease", "tomb_revalidate">>}
  PROVE  SilentInv'
<1>0. /\ TypeOK /\ pc[p] = at /\ UNCHANGED <<rec, root, tomb, content, tmp>>
      /\ to \in Locations /\ "busy" \in Results
      /\ at \notin MustBeFresh \cup Aborting \cup Replacing \cup {"link"} /\ to # "drop_record"
  BY LocationFacts
     DEF IInv, TryLease, diskVars, txnVars, RemoveSteps, CompleteSteps, MustBeFresh, Aborting,
         Replacing
<1>1. Frame(p)
  BY <1>0, TryLeaseFrame
<1>2. CASE pc' = [pc EXCEPT ![p] = to] /\ UNCHANGED txn
  <2>1. pc'[p] = to
    BY <1>0, <1>2 DEF TypeOK
  <2> QED
    BY <1>0, <1>1, <1>2, <2>1, SilentMove
<1>3. CASE Exit(p, "busy")
  BY <1>0, <1>1, <1>3, SilentExit DEF Owing
<1> QED
  BY <1>2, <1>3 DEF TryLease

LEMMA SilentPromote ==
  ASSUME IInv, SilentInv, NEW p \in Procs, Frame(p), Promote(p)
  PROVE  SilentInv'
<1>0. /\ TypeOK /\ pc[p] = "promote" /\ "tomb_recheck" \in Locations /\ "recovery" \in Alarms
      /\ UNCHANGED <<rec, content, cap, fresh, tmp, clean, dir>> /\ TmpInv(p) /\ CapInv(p)
  BY LocationFacts DEF IInv, ProcInv, Promote, CompleteSteps, txnVars, Alarms
<1>a. dir[p] \in Roots /\ dir[p] # NoRoot /\ cap[p].root = dir[p] /\ cap[p].st = "Tombstoned"
  BY <1>0, TombHolder, RootAssumption
<1>1. CASE AtRoot(dir[p]) /\ root' = NoRoot /\ tomb' = dir[p] /\ Goto(p, "tomb_recheck")
  <2>1. pc'[p] = "tomb_recheck" /\ txn'[p] = "none" /\ txn[p] = "none"
    BY <1>0, <1>1, GotoMoves DEF Moved, TmpInv, Replacing
  <2>2. (InHand(p) => InHand(p)') /\ (Doomed(p) => Doomed(p)')
    BY <1>0, <2>1 DEF InHand, Doomed, Exchanged, MustBeFresh, Aborting
  <2>3. ASSUME Orderly, \A q \in Procs : ~Doomed(q) /\ ~Doomed(q)' PROVE Orderly'
    <3>1. cap[p] = rec /\ rec # NoRecord /\ rec.st = "Tombstoned" /\ rec.root = dir[p]
      BY <1>0, <1>a, <2>3 DEF Doomed, MustBeFresh, CapInv
    <3>2. \A q \in Procs : pc'[q] # "drop_record"
      BY <1>1, <1>a, <2>1, <2>3 DEF Orderly, AtRoot, Frame, Others
    <3> QED
      BY <1>0, <1>1, <3>1, <3>2 DEF Orderly, AtTomb
  <2> QED
    BY <2>2, <2>3, SilentByStep
<1>2. CASE Goto(p, "tomb_recheck") /\ UNCHANGED <<root, tomb>>
  BY <1>0, <1>2, SilentGoto DEF Replacing, Aborting, MustBeFresh, Preparing, Filling
<1>3. CASE Exit(p, "recovery")
  BY <1>0, <1>3, SilentAlarm
<1> QED
  BY <1>1, <1>2, <1>3 DEF Promote

LEMMA SilentDelete ==
  ASSUME IInv, SilentInv, NEW p \in Procs, Frame(p),
         ClearTree(p, "delete", tomb = dir[p], "delete_rest") \/ DeleteRest(p)
  PROVE  SilentInv'
<1>0. /\ TypeOK /\ pc[p] \in {"delete", "delete_rest"} /\ "recovery" \in Alarms /\ TombInv
      /\ {"delete_rest", "drop_record"} \subseteq Locations
      /\ UNCHANGED <<rec, root, cap, fresh, tmp, clean, dir>> /\ TmpInv(p) /\ CapInv(p)
  BY LocationFacts
     DEF IInv, ProcInv, ClearTree, DeleteRest, CompleteSteps, txnVars, Alarms
<1>a. dir[p] \in Roots /\ dir[p] # NoRoot /\ cap[p].root = dir[p] /\ cap[p].st = "Tombstoned"
  BY <1>0, TombHolder, RootAssumption
<1>1. CASE Goto(p, "delete_rest") \/ Goto(p, "drop_record")
  <2>1. /\ pc'[p] \in {"delete_rest", "drop_record"} /\ txn'[p] = "none" /\ txn[p] = "none"
    BY <1>0, <1>1, GotoMoves DEF Moved, TmpInv, Replacing
  <2>2. (InHand(p) => InHand(p)') /\ (Doomed(p) => Doomed(p)')
    BY <1>0, <2>1 DEF InHand, Doomed, Exchanged, MustBeFresh, Aborting
  <2>3. ASSUME Orderly, \A q \in Procs : ~Doomed(q) /\ ~Doomed(q)' PROVE Orderly'
    <3>1. cap[p] = rec /\ rec # NoRecord /\ rec.st = "Tombstoned" /\ rec.root = dir[p]
      BY <1>0, <1>a, <2>3 DEF Doomed, MustBeFresh, CapInv
    <3>2. CASE ClearTree(p, "delete", tomb = dir[p], "delete_rest")
      <4>1. /\ UNCHANGED <<root, tomb, rec>> /\ pc[p] = "delete"
            /\ Goto(p, "delete_rest") \/ Exit(p, "recovery")
        BY <3>2 DEF ClearTree
      <4>2. pc'[p] # "drop_record"
        BY <1>0, <4>1, GotoMoves, ExitMoves, LocationFacts DEF Moved
      <4>3. \A q \in Procs : pc'[q] = "drop_record" => pc[q] = "drop_record"
        BY <4>2 DEF Frame, Others
      <4> QED
        BY <2>3, <3>1, <4>1, <4>3 DEF Orderly, AtRoot, AtTomb
    <3>3. CASE DeleteRest(p)
      <4>1. tomb' = NoRoot \/ Exit(p, "recovery")
        BY <3>3 DEF DeleteRest
      <4>2. ~Exit(p, "recovery")
        BY <1>0, <2>1, ExitMoves, LocationFacts DEF Moved
      <4>3. tomb = dir[p]
        BY <3>3, <4>2 DEF DeleteRest
      <4>4. root' = NoRoot /\ tomb' = NoRoot
        BY <1>0, <1>a, <4>1, <4>2, <4>3 DEF TombInv
      <4> QED
        BY <1>0, <3>1, <4>4 DEF Orderly
    <3> QED
      BY <3>2, <3>3
  <2> QED
    BY <2>2, <2>3, SilentByStep
<1>2. CASE Exit(p, "recovery")
  BY <1>0, <1>2, SilentAlarm
<1> QED
  BY <1>1, <1>2 DEF ClearTree, DeleteRest

LEMMA SilentRemove ==
  ASSUME IInv, SilentInv, NEW p \in Procs, RemoveStep(p)
  PROVE  SilentInv'
<1>0. /\ TypeOK /\ RemoveSteps \cup CompleteSteps \cup PublishSteps \cup {"idle"} \subseteq Locations
      /\ Frame(p) /\ CapInv(p) /\ TmpInv(p) /\ {"error", "recovery", "killed"} \subseteq Alarms
      /\ {"ok", "busy", "refused", "error", "recovery", "killed"} \subseteq Results
  BY LocationFacts, RemoveFrame DEF IInv, ProcInv, Alarms
<1>1. CASE LoadForRemove(p)
  BY <1>1, SilentLoad
<1>2. CASE AcquireLease(p)
  BY <1>2, SilentLease DEF AcquireLease
<1>3. CASE Revalidate(p)
  <2>1. pc[p] = "revalidate"
    BY <1>3 DEF Revalidate, Check
  <2>2. op[p] # "gc" => AfterLease(p) \in {"journal", "settle", "discard", "tombstone"}
    BY <1>0, <2>1 DEF CapInv, AfterLease
  <2>3. /\ {"journal", "settle", "discard", "tombstone"} \subseteq Locations
        /\ "drop_record" \notin {"journal", "settle", "discard", "tombstone"}
    BY <1>0 DEF RemoveSteps, PublishSteps
  <2>4. "revalidate" \notin Owing \cup Preparing \cup Filling
    BY DEF Owing, MustBeFresh, Aborting, Replacing, Preparing, Filling
  <2>5. CASE op[p] = "gc"
    <3>1. PICK code \in Results : Check(p, "revalidate", FALSE, "idle", code)
      BY <1>0, <1>3, <2>5 DEF Revalidate
    <3> QED
      BY <1>0, <2>4, <3>1, SilentCheck DEF Owing
  <2>6. CASE op[p] # "gc"
    <3>1. AfterLease(p) \in Locations /\ AfterLease(p) # "drop_record"
      BY <2>2, <2>3, <2>6
    <3>2. Check(p, "revalidate", fresh[p] /\ (cap[p].st = "Ready" => Loadable), AfterLease(p),
                "recovery")
      BY <1>3, <2>6 DEF Revalidate
    <3> QED
      BY <1>0, <2>4, <3>1, <3>2, SilentCheck DEF Owing
  <2> QED
    BY <2>5, <2>6
<1>4. CASE DiscardCheck(p)
  <2>1. PICK ok : Check(p, "discard", ok, "tombstone", "refused")
    BY <1>4 DEF DiscardCheck
  <2> QED
    BY <1>0, <2>1, SilentCheck
       DEF RemoveSteps, Owing, MustBeFresh, Aborting, Replacing, Preparing, Filling
<1>5. CASE TransitionTombstone(p)
  <2>1. CASE ReplaceRecord(p, "tombstone", Record("Tombstoned", cap[p].root), "release")
    BY <2>1, SilentReplace DEF Replacing, After
  <2>2. CASE /\ pc[p] = "release" /\ pc' = [pc EXCEPT ![p] = "inspect"]
             /\ UNCHANGED <<rec, diskVars, txn, txnVars>>
    <3>1. pc'[p] = "inspect"
      BY <1>0, <2>2 DEF TypeOK
    <3> QED
      BY <1>0, <2>2, <3>1, SilentMove DEF diskVars, txnVars, MustBeFresh, Aborting, Replacing
  <2> QED
    BY <1>5, <2>1, <2>2 DEF TransitionTombstone
<1>6. CASE RemovePrepared(p)
  BY <1>0, <1>6, SilentDrop DEF RemovePrepared
<1>7. CASE Inspect(p)
  <2>1. pc[p] = "inspect" /\ UNCHANGED <<rec, root, tomb, content, tmp>>
    BY <1>7 DEF Inspect, diskVars, txnVars
  <2>2. CASE Goto(p, "tomb_lease")
    BY <1>0, <2>1, <2>2, SilentGoto
       DEF CompleteSteps, Replacing, Aborting, MustBeFresh, Preparing, Filling
  <2>3. CASE root = NoRoot /\ tomb = NoRoot /\ Goto(p, "drop_record")
    BY <1>0, <2>1, <2>3, SilentGoto
       DEF CompleteSteps, Replacing, Aborting, MustBeFresh, Preparing, Filling
  <2>4. CASE Exit(p, "recovery")
    BY <1>0, <2>4, SilentAlarm
  <2> QED
    BY <1>7, <2>2, <2>3, <2>4 DEF Inspect
<1>8. CASE TryLease(p, "tomb_lease", "tomb_revalidate")
  BY <1>8, SilentLease
<1>9. CASE \/ Check(p, "tomb_revalidate", fresh[p], "promote", "recovery")
           \/ Check(p, "tomb_recheck", fresh[p], "delete", "recovery")
  BY <1>0, <1>9, SilentCheck
     DEF CompleteSteps, Owing, MustBeFresh, Aborting, Replacing, Preparing, Filling
<1>10. CASE DropRecord(p, "drop_record", "ok")
  BY <1>0, <1>10, SilentDrop
<1> QED
  BY <1>0, <1>1, <1>2, <1>3, <1>4, <1>5, <1>6, <1>7, <1>8, <1>9, <1>10, SilentPromote,
     SilentDelete
  DEF RemoveStep, CompleteTombstone

LEMMA SilentOther ==
  ASSUME IInv, SilentInv, NEW p \in Procs, ExecStep(p) \/ PublishStep(p) \/ GcStep(p)
  PROVE  SilentInv'
<1>0. /\ TypeOK /\ Frame(p) /\ TmpInv(p) /\ {"error", "recovery", "killed"} \subseteq Alarms
      /\ ExecSteps \cup PublishSteps \cup GcSteps \cup {"idle", "inspect", "lease"} \subseteq Locations
      /\ {"ok", "busy", "refused", "error", "recovery", "killed"} \subseteq Results
  BY LocationFacts, OtherFrame DEF IInv, ProcInv, Alarms, RemoveSteps, CompleteSteps
<1>1. CASE LoadForExec(p) \/ LoadForPublish(p)
  BY <1>1, SilentLoad
<1>2. CASE ShareRevalidate(p) \/ Wait(p)
  BY <1>0, <1>2, SilentCheck
     DEF ShareRevalidate, Wait, ExecSteps, Owing, MustBeFresh, Aborting, Replacing, Preparing,
         Filling
<1>3. CASE Spawn(p)
  BY <1>0, <1>3, SilentGoto
     DEF Spawn, diskVars, txnVars, ExecSteps, MustBeFresh, Aborting, Replacing, Preparing, Filling
<1>4. CASE PublishSession(p)
  BY <1>0, <1>4, SilentReplace, SilentCheck
     DEF PublishSession, Replacing, After, Owing, MustBeFresh, Aborting
<1>5. CASE PublishStops(p)
  <2>1. Exit(p, "error")
    BY <1>5 DEF PublishStops, Check
  <2> QED
    BY <1>0, <2>1, SilentAlarm
<1>6. CASE Census(p)
  BY <1>0, <1>6, SilentGoto, SilentAlarm
     DEF Census, diskVars, GcSteps, MustBeFresh, Aborting, Replacing, Preparing, Filling
<1>7. CASE Recensus(p)
  BY <1>0, <1>7, SilentCheck
     DEF Recensus, GcSteps, Owing, MustBeFresh, Aborting, Replacing, Preparing, Filling
<1>8. CASE Sweep(p)
  <2>1. CASE Exit(p, "recovery")
    BY <1>0, <2>1, SilentAlarm
  <2>2. CASE Goto(p, "dispatch") /\ tmp' = [q \in Procs |-> IF q \in seen[p] THEN NoRecord ELSE tmp[q]]
    <3>1. pc[p] = "sweep" /\ UNCHANGED <<rec, root, tomb, content>> /\ txn[p] = "none"
      BY <1>0, <1>8 DEF Sweep, diskVars, TmpInv, Replacing
    <3>2. pc'[p] = "dispatch" /\ txn'[p] = "none"
      BY <1>0, <2>2, GotoMoves DEF Moved, GcSteps
    <3>3. tmp'[p] \in {tmp[p], NoRecord}
      BY <2>2
    <3>4. (InHand(p) => InHand(p)') /\ ~Doomed(p) /\ Steady(p)
      BY <3>1, <3>2, <3>3
         DEF InHand, Doomed, Exchanged, Steady, Aborting, MustBeFresh, Preparing, Filling
    <3> QED
      BY <1>0, <3>1, <3>4, SilentCalm
  <2> QED
    BY <1>8, <2>1, <2>2 DEF Sweep
<1>9. CASE GcDispatch(p)
  <2>1. pc[p] = "dispatch" /\ UNCHANGED <<rec, root, tomb, content, tmp>>
    BY <1>9 DEF GcDispatch, diskVars, txnVars
  <2>2. \/ Goto(p, "inspect") \/ Goto(p, "lease")
        \/ Exit(p, "recovery") \/ Exit(p, "ok")
    BY <1>9 DEF GcDispatch
  <2> QED
    BY <1>0, <2>1, <2>2, SilentGoto, SilentExit
       DEF Owing, MustBeFresh, Aborting, Replacing, Preparing, Filling
<1> QED
  BY <1>1, <1>2, <1>3, <1>4, <1>5, <1>6, <1>7, <1>8, <1>9
     DEF ExecStep, PublishStep, PublishSession, GcStep

\* What is not part of Step: commands begin, locks are granted, children exit,
\* processes are killed.
LEMMA MarginFrame ==
  ASSUME TypeOK, NEW p \in Procs,
         (\E o \in Ops : Start(p, o)) \/ LockHome(p) \/ Share(p) \/ ChildExits(p) \/ Crash(p)
  PROVE  Frame(p)
<1>1. ASSUME NEW o \in Ops, Start(p, o) PROVE Frame(p)
  <2>1. /\ UNCHANGED <<child, txn, tmp, alarmed>>
        /\ \A q \in Procs \ {p} : /\ pc'[q] = pc[q] /\ op'[q] = op[q] /\ cap'[q] = cap[q]
                                  /\ dir'[q] = dir[q] /\ clean'[q] = clean[q] /\ fresh'[q] = fresh[q]
    BY <1>1 DEF Start, TypeOK
  <2> QED
    BY <2>1 DEF Frame, Others
<1>2. CASE LockHome(p) \/ Share(p) \/ ChildExits(p)
  BY <1>2 DEF LockHome, Share, ChildExits, TypeOK, txnVars, Frame, Others
<1>3. CASE Crash(p)
  BY <1>3, SameFrame, LocationFacts DEF Crash, Same, diskVars, txnVars, histVars
<1> QED
  BY <1>1, <1>2, <1>3

LEMMA SilentMargin ==
  ASSUME IInv, SilentInv, NEW p \in Procs,
         (\E o \in Ops : Start(p, o)) \/ LockHome(p) \/ Share(p) \/ ChildExits(p) \/ Crash(p)
  PROVE  SilentInv'
<1>0. TypeOK /\ Frame(p) /\ HoldInv(p)
  BY MarginFrame DEF IInv, ProcInv
<1>1. CASE Crash(p)
  BY <1>1, SilentAlarm DEF Crash, Alarms
<1>2. CASE ~Crash(p)
  <2>1. UNCHANGED <<rec, root, tomb, content, tmp, txn>>
    BY <1>2 DEF Start, LockHome, Share, ChildExits, diskVars, txnVars
  <2>2. pc[p] \in {"idle", "home", "share", "wait"}
    BY <1>0, <1>2 DEF Start, LockHome, Share, ChildExits, HoldInv
  <2>3. pc'[p] \in {"home", "load", "census", "lookup", "share_revalidate", "idle", "wait"}
    BY <1>0, <1>2, <2>2, OpsAssumption
       DEF Start, LockHome, Share, ChildExits, HoldInv, TypeOK, Entry, Commands
  <2> QED
    BY <1>0, <2>1, <2>2, <2>3, SilentMove DEF MustBeFresh, Aborting, Replacing
<1> QED
  BY <1>1, <1>2

LEMMA SilentStutter ==
  ASSUME SilentInv, UNCHANGED vars
  PROVE  SilentInv'
<1>1. \A p \in Procs : (Doomed(p)' <=> Doomed(p)) /\ (InHand(p)' <=> InHand(p))
  BY DEF vars, Doomed, InHand, Exchanged
<1>2. Orderly' <=> Orderly
  BY DEF vars, Orderly, AtRoot, AtTomb, Loadable
<1> QED
  BY <1>1, <1>2 DEF SilentInv, vars

LEMMA SilentNext == IInv /\ SilentInv /\ [Next]_vars => SilentInv'
<1> SUFFICES ASSUME IInv, SilentInv, [Next]_vars PROVE SilentInv'
  OBVIOUS
<1>1. ASSUME NEW p \in Procs, Step(p) PROVE SilentInv'
  BY <1>1, SilentCreate, SilentRemove, SilentOther DEF Step
<1> QED
  BY <1>1, SilentMargin, SilentStutter DEF Next

LEMMA SilentInit == Init => SilentInv
<1>1. Init => \A p \in Procs : InHand(p)
  BY DEF Init, InHand
<1>2. Init => Orderly
  BY RecordFacts DEF Init, Orderly
<1> QED
  BY <1>1, <1>2 DEF SilentInv

\* While no command has reported an error, no temporary is ownerless, and either
\* what is on disk is in order or some command is bound to report an error.
THEOREM Silence == Spec => []SilentInv
BY Invariance, SilentInit, SilentNext, PTL DEF Spec

\* When all commands have ended without an error, gc accepts what they leave.
THEOREM SilentClean == Spec => []SilentIsClean
<1>1. IInv /\ SilentInv => SilentIsClean
  <2> SUFFICES ASSUME IInv, SilentInv, ~alarmed, \A p \in Procs : pc[p] = "idle", ~rec.busy
               PROVE  Accounted /\ \A p \in Procs : tmp[p] = NoRecord
    BY DEF SilentIsClean
  <2>1. \A p \in Procs : txn[p] = "none"
    BY DEF IInv, ProcInv, TmpInv, Replacing
  <2>2. \A p \in Procs : ~Doomed(p) /\ tmp[p] = NoRecord
    BY <2>1 DEF Doomed, Exchanged, Aborting, MustBeFresh, SilentInv, InHand
  <2>3. Orderly /\ TombInv /\ rec \in Records
    BY <2>2 DEF SilentInv, IInv, TypeOK
  <2>4. rec.st \notin {"Prepared", "Materializing"}
    BY <2>3 DEF Orderly, Preparing, Filling
  <2>5. rec.st = "Ready" => Loadable /\ tomb = NoRoot
    BY <2>3, RecordKinds, RootAssumption DEF Orderly, Loadable, TombInv
  <2>6. rec.st \in {"Absent", "Ready", "Tombstoned"} /\ (rec.st = "Absent" => rec = NoRecord)
    BY <2>3, <2>4, RecordKinds
  <2>7. Accounted
    BY <2>3, <2>5, <2>6 DEF Orderly, Accounted
  <2> QED
    BY <2>2, <2>7
<1> QED
  BY <1>1, Invariance, Silence, PTL

\* What holds with forced removals in the mix as well.
THEOREM Safety == Spec => []Safe
BY TypeCorrect, ExecLive, DeliveredTree, SilentClean, PTL DEF Safe

(***************************************************************************)
(* Without forced removals.  A process is current while the record on disk *)
(* is the one it has read or written: the HOME lock keeps other creates    *)
(* out and the lease other removals and publishes, so only one process is  *)
(* current at a time, and no other one replaces or removes the record.     *)
(***************************************************************************)
Current(p) ==
  \/ pc[p] \in {"mkdir", "mat", "build", "recheck", "discard", "journal", "settle", "published"}
  \/ pc[p] \in Aborting
  \/ pc[p] \in {"ready", "tombstone"} /\ ~Exchanged(p)

Cleared == root = NoRoot /\ tomb = NoRoot

\* A root that is given to a user, or about to be, keeps its Ready record.
Kept(i) == i \in condemned \/ (rec.st = "Ready" /\ rec.root = i)

Unforced(p) ==
  /\ op[p] # "force" /\ pc[p] # "remove_prepared"
  /\ pc[p] \in {"discard", "tombstone"} /\ ~Exchanged(p) => cap[p].st = "Ready"
  /\ Current(p) => fresh[p]
  /\ pc[p] = "abort_record" \/ (pc[p] = "drop_record" /\ fresh[p]) => Cleared
  /\ pc[p] = "deliver" \/ (pc[p] = "ready" /\ Exchanged(p)) => Kept(dir[p])

UnforcedInv ==
  /\ \A p \in Procs : Unforced(p)
  /\ DeliveredStaysReady /\ RecordOutlivesRoot

LEMMA CurrentRecord ==
  ASSUME IInv, UnforcedInv, NEW p \in Procs, Current(p)
  PROVE  /\ fresh[p] /\ cap[p] = rec /\ rec # NoRecord
         /\ \/ rec.st = "Ready" /\ pc[p] \in Leased /\ dir[p] = rec.root
            \/ rec.st \in {"Prepared", "Materializing"} /\ pc[p] \in CreateSteps
<1>1. CapInv(p) /\ DirInv(p) /\ TmpInv(p) /\ Unforced(p)
  BY DEF IInv, ProcInv, UnforcedInv
<1>2. fresh[p] /\ cap[p] = rec /\ rec # NoRecord
  BY <1>1 DEF CapInv, Unforced
<1>3. CASE pc[p] \in {"journal", "settle", "published"}
  BY <1>1, <1>2, <1>3 DEF CapInv, DirInv, Leased, PublishSteps
<1>4. CASE pc[p] \in {"discard", "tombstone"}
  BY <1>1, <1>2, <1>4
  DEF Current, Aborting, Unforced, DirInv, TmpInv, Exchanged, Leased, Replacing
<1>5. CASE pc[p] \in {"mkdir", "mat", "build", "recheck", "ready"} \cup Aborting
  BY <1>1, <1>2, <1>5 DEF Current, Aborting, CapInv, CreateSteps
<1> QED
  BY <1>2, <1>3, <1>4, <1>5 DEF Current

LEMMA CurrentAlone ==
  ASSUME IInv, UnforcedInv, NEW p \in Procs, Current(p), NEW q \in Procs \ {p}
  PROVE  ~Current(q)
<1> SUFFICES ASSUME Current(q) PROVE FALSE
  OBVIOUS
<1>1. \/ pc[p] \in CreateSteps /\ pc[q] \in CreateSteps
      \/ pc[p] \in Leased /\ pc[q] \in Leased /\ dir[p] = dir[q]
  BY CurrentRecord
<1> QED
  BY <1>1 DEF IInv, ProcInv, HoldInv

\* The record stays what it is and nothing comes to the two names.
LEMMA UnforcedCalm ==
  ASSUME UnforcedInv, NEW p \in Procs, Frame(p), UNCHANGED <<rec, delivered, condemned>>,
         Cleared => Cleared', \A q \in Procs \ {p} : fresh'[q] = fresh[q], Unforced(p)'
  PROVE  UnforcedInv'
<1>1. ASSUME NEW q \in Procs \ {p} PROVE Unforced(q)'
  <2>1. /\ pc'[q] = pc[q] /\ op'[q] = op[q] /\ txn'[q] = txn[q] /\ cap'[q] = cap[q]
        /\ dir'[q] = dir[q] /\ fresh'[q] = fresh[q] /\ Unforced(q)
    BY DEF Frame, Others, UnforcedInv
  <2>2. (Current(q)' <=> Current(q)) /\ (Exchanged(q)' <=> Exchanged(q))
    BY <2>1 DEF Current, Exchanged
  <2>3. Kept(dir[q]) => Kept(dir[q])'
    BY <2>1 DEF Kept
  <2> QED
    BY <2>1, <2>2, <2>3 DEF Unforced
<1>2. DeliveredStaysReady' /\ RecordOutlivesRoot'
  BY DEF UnforcedInv, DeliveredStaysReady, RecordOutlivesRoot, Cleared
<1> QED
  BY <1>1, <1>2 DEF UnforcedInv

\* The record is another one: nobody but p was current, and a Ready record that is
\* replaced has its root condemned, unless the new one is a Ready record of it too.
LEMMA UnforcedRecord ==
  ASSUME UnforcedInv, NEW p \in Procs, Frame(p), UNCHANGED <<root, tomb, delivered>>,
         \A q \in Procs \ {p} : ~Current(q) /\ ~fresh'[q],
         \A i : Kept(i) => Kept(i)', rec' = NoRecord => Cleared, Unforced(p)'
  PROVE  UnforcedInv'
<1>1. ASSUME NEW q \in Procs \ {p} PROVE Unforced(q)'
  <2>1. /\ pc'[q] = pc[q] /\ op'[q] = op[q] /\ txn'[q] = txn[q] /\ cap'[q] = cap[q]
        /\ dir'[q] = dir[q] /\ ~fresh'[q] /\ ~Current(q) /\ Unforced(q)
    BY DEF Frame, Others, UnforcedInv
  <2>2. ~Current(q)' /\ (Exchanged(q)' <=> Exchanged(q)) /\ pc[q] # "abort_record"
    BY <2>1 DEF Current, Exchanged, Aborting
  <2>3. Kept(dir[q]) => Kept(dir[q])'
    BY <2>1
  <2> QED
    BY <2>1, <2>2, <2>3 DEF Unforced
<1>2. DeliveredStaysReady'
  BY DEF UnforcedInv, DeliveredStaysReady, Kept
<1>3. RecordOutlivesRoot'
  BY DEF RecordOutlivesRoot, Cleared
<1> QED
  BY <1>1, <1>2, <1>3 DEF UnforcedInv

\* Where a process relies on nothing of this.
Delicate == {"mkdir", "mat", "build", "recheck", "ready", "deliver", "discard", "tombstone",
             "journal", "settle", "published", "remove_prepared", "drop_record"} \cup Aborting

LEMMA UnforcedPlain ==
  ASSUME NEW p \in Procs, pc'[p] \notin Delicate, op'[p] # "force"
  PROVE  Unforced(p)'
BY DEF Unforced, Delicate, Current, Aborting

\* A step that leaves the record and the names alone ends the command or takes it
\* to a place where it can rely on what it has checked.
LEMMA UnforcedGoto ==
  ASSUME IInv, UnforcedInv, NEW p \in Procs, Frame(p), NEW to \in Locations,
         pc'[p] = to /\ txn'[p] = "none",
         UNCHANGED <<rec, root, tomb, delivered, condemned, op>>,
         \A q \in Procs \ {p} : fresh'[q] = fresh[q],
         \/ to \notin Delicate
         \/ /\ UNCHANGED <<cap, fresh>> /\ fresh[p]
            /\ to \notin {"remove_prepared", "drop_record", "deliver", "abort_record"}
            /\ to \in {"discard", "tombstone"} => cap[p].st = "Ready"
         \/ to = "drop_record" /\ Cleared
  PROVE  UnforcedInv'
<1>1. op'[p] # "force"
  BY DEF UnforcedInv, Unforced
<1>2. Cleared => Cleared'
  BY DEF Cleared
<1>3. Unforced(p)'
  <2>1. CASE to \notin Delicate
    BY <1>1, <2>1, UnforcedPlain
  <2>2. CASE /\ UNCHANGED <<cap, fresh>> /\ fresh[p]
             /\ to \notin {"remove_prepared", "drop_record", "deliver", "abort_record"}
             /\ to \in {"discard", "tombstone"} => cap[p].st = "Ready"
    BY <1>1, <2>2 DEF Unforced, Exchanged
  <2>3. CASE to = "drop_record" /\ Cleared
    BY <1>1, <1>2, <2>3 DEF Unforced, Current, Aborting
  <2> QED
    BY <2>1, <2>2, <2>3
<1> QED
  BY <1>2, <1>3, UnforcedCalm

LEMMA UnforcedExit ==
  ASSUME IInv, UnforcedInv, NEW p \in Procs, Frame(p), NEW code \in Results, Exit(p, code),
         UNCHANGED <<rec, root, tomb, delivered, condemned, op>>,
         \A q \in Procs \ {p} : fresh'[q] = fresh[q]
  PROVE  UnforcedInv'
<1>1. pc'[p] = "idle" /\ txn'[p] = "none" /\ "idle" \in Locations
  BY ExitMoves, LocationFacts DEF IInv, Moved
<1> QED
  BY <1>1, UnforcedGoto DEF Delicate, Aborting

LEMMA UnforcedCheck ==
  ASSUME IInv, UnforcedInv, NEW p \in Procs, NEW at, NEW ok, NEW to \in Locations,
         NEW code \in Results, Check(p, at, ok, to, code),
         ok => \/ to \notin Delicate
               \/ /\ fresh[p]
                  /\ to \notin {"remove_prepared", "drop_record", "deliver", "abort_record"}
                  /\ to \in {"discard", "tombstone"} => cap[p].st = "Ready"
  PROVE  UnforcedInv'
<1>1. TypeOK /\ Frame(p)
  BY CheckFrame DEF IInv
<1>2. UNCHANGED <<rec, root, tomb, delivered, condemned, op, cap, fresh>>
  BY DEF Check, diskVars, txnVars, histVars
<1>3. CASE ok
  <2>1. pc'[p] = to /\ txn'[p] = "none"
    BY <1>1, <1>3, GotoMoves DEF Check, Moved
  <2> QED
    BY <1>1, <1>2, <1>3, <2>1, UnforcedGoto
<1>4. CASE ~ok
  BY <1>1, <1>2, <1>4, UnforcedExit DEF Check
<1> QED
  BY <1>3, <1>4

\* ReplaceRecord: only a current process exchanges, so nobody else is.
LEMMA UnforcedReplace ==
  ASSUME IInv, UnforcedInv, NEW p \in Procs, NEW at \in Replacing, NEW new,
         ReplaceRecord(p, at, new, After[at])
  PROVE  UnforcedInv'
<1>0. /\ TypeOK /\ pc[p] = at /\ UNCHANGED <<root, tomb, op, dir, delivered>>
      /\ After[at] \in Locations /\ Frame(p) /\ CapInv(p) /\ DirInv(p) /\ TmpInv(p) /\ DiskInv
      /\ {"written", "compared", "exchanged"} \subseteq TxnPhases /\ "recovery" \in Results
      /\ Unforced(p)
  <2>1. After[at] \in Locations
    BY LocationFacts DEF After, Replacing, CreateSteps, RemoveSteps, PublishSteps
  <2>2. TypeOK
    BY DEF IInv
  <2> QED
    BY <2>1, <2>2, ReplaceFrame, LocationFacts
       DEF IInv, ProcInv, ReplaceRecord, diskVars, TxnPhases, UnforcedInv
<1>1. CASE TxnWrite(p, new) \/ TxnCompare(p)
  <2>1. UNCHANGED <<rec, cap, fresh, condemned>> /\ ~Exchanged(p)
    BY <1>1 DEF TxnWrite, TxnCompare, Exchanged
  <2>2. \/ \E phase \in {"written", "compared"} : Within(p, phase)
        \/ Exit(p, "recovery")
    BY <1>1 DEF TxnWrite, TxnCompare
  <2>3. ASSUME NEW phase \in {"written", "compared"}, Within(p, phase) PROVE UnforcedInv'
    <3>1. pc' = pc /\ txn'[p] = phase
      BY <1>0, <2>3, WithinStays DEF Stayed
    <3>2. (Current(p)' => Current(p)) /\ ~Exchanged(p)' /\ (Cleared => Cleared')
      BY <1>0, <2>1, <3>1, <2>3 DEF Current, Exchanged, Cleared
    <3>3. Unforced(p)'
      BY <1>0, <2>1, <3>1, <3>2 DEF Unforced, Replacing
    <3> QED
      BY <1>0, <2>1, <3>2, <3>3, UnforcedCalm
  <2>4. CASE Exit(p, "recovery")
    BY <1>0, <2>1, <2>4, UnforcedExit
  <2> QED
    BY <2>2, <2>3, <2>4
<1>2. CASE TxnExchange(p)
  <2>1. CASE /\ tmp[p] # NoRecord /\ Within(p, "exchanged") /\ rec' = tmp[p]
             /\ cap' = [cap EXCEPT ![p] = tmp[p]] /\ fresh' = [q \in Procs |-> q = p]
             /\ condemned' = IF rec'.st = "Tombstoned" THEN condemned \cup {rec'.root}
                             ELSE condemned
    <3>1. pc' = pc /\ txn'[p] = "exchanged"
      BY <1>0, <2>1, WithinStays DEF Stayed
    <3>2. /\ fresh'[p] /\ \A q \in Procs \ {p} : ~fresh'[q]
          /\ txn[p] = "compared" /\ ~Exchanged(p) /\ rec' = New(p)
      BY <1>0, <1>2, <2>1 DEF TypeOK, TxnExchange, Exchanged, TmpInv
    <3>3. Current(p)
      BY <1>0, <3>2 DEF Current, Replacing
    <3>4. cap[p] = rec /\ rec # NoRecord /\ rec \in Records /\ \A q \in Procs \ {p} : ~Current(q)
      BY <1>0, <3>3, CurrentRecord, CurrentAlone DEF TypeOK
    <3>5. CASE at = "mat"
      <4>1. rec.st = "Prepared" /\ rec'.st = "Materializing" /\ rec' # NoRecord
        BY <1>0, <3>2, <3>4, <3>5, RecordFacts DEF CapInv, New
      <4>2. \A i : Kept(i) => Kept(i)'
        BY <2>1, <4>1 DEF Kept
      <4>3. Unforced(p)'
        BY <1>0, <3>1, <3>2, <3>5 DEF Unforced
      <4> QED
        BY <1>0, <3>2, <3>4, <4>1, <4>2, <4>3, UnforcedRecord
    <3>6. CASE at = "ready"
      <4>1. /\ rec.st = "Materializing" /\ rec'.st = "Ready" /\ rec'.root = dir[p]
            /\ rec' # NoRecord
        BY <1>0, <3>2, <3>4, <3>6, RecordFacts DEF CapInv, New
      <4>2. \A i : Kept(i) => Kept(i)'
        BY <2>1, <4>1 DEF Kept
      <4>3. Unforced(p)'
        BY <1>0, <3>1, <3>2, <3>6, <4>1 DEF Unforced, Exchanged, Kept
      <4> QED
        BY <1>0, <3>2, <3>4, <4>1, <4>2, <4>3, UnforcedRecord
    <3>7. CASE at = "tombstone"
      <4>1. rec'.st = "Tombstoned" /\ rec'.root = rec.root /\ rec' # NoRecord
        BY <1>0, <3>2, <3>4, <3>7, RecordFacts DEF New
      <4>2. \A i : Kept(i) => Kept(i)'
        BY <2>1, <4>1 DEF Kept
      <4>3. Unforced(p)'
        BY <1>0, <3>1, <3>2, <3>7 DEF Unforced, Exchanged
      <4> QED
        BY <1>0, <3>2, <3>4, <4>1, <4>2, <4>3, UnforcedRecord
    <3>8. CASE at \in {"journal", "settle"}
      <4>1. rec.st = "Ready"
        BY <1>0, <3>4, <3>8 DEF CapInv, PublishSteps
      <4>2. rec'.st = "Ready" /\ rec'.root = rec.root /\ rec' # NoRecord
        BY <1>0, <3>2, <3>4, <3>8, <4>1, RecordKinds, NewRoot
      <4>3. \A i : Kept(i) => Kept(i)'
        BY <2>1, <4>2 DEF Kept
      <4>4. Unforced(p)'
        BY <1>0, <3>1, <3>2, <3>8 DEF Unforced
      <4> QED
        BY <1>0, <3>2, <3>4, <4>2, <4>3, <4>4, UnforcedRecord
    <3> QED
      BY <3>5, <3>6, <3>7, <3>8 DEF Replacing
  <2>2. CASE Exit(p, "recovery") /\ UNCHANGED <<rec, cap, fresh, condemned>>
    BY <1>0, <2>2, UnforcedExit
  <2> QED
    BY <1>2, <2>1, <2>2 DEF TxnExchange
<1>3. CASE TxnCheck(p, After[at])
  <2>1. UNCHANGED <<rec, cap, fresh, condemned>> /\ Exchanged(p)
    BY <1>3 DEF TxnCheck, Exchanged
  <2>2. CASE fresh[p] /\ Goto(p, After[at])
    <3>1. pc'[p] = After[at] /\ txn'[p] = "none"
      BY <1>0, <2>2, GotoMoves DEF Moved
    <3>2. CASE at = "ready"
      <4>1. Kept(dir[p])' /\ pc'[p] = "deliver"
        BY <1>0, <2>1, <3>1, <3>2 DEF Unforced, Kept, After
      <4>2. Unforced(p)' /\ (Cleared => Cleared')
        BY <1>0, <4>1 DEF Unforced, Current, Aborting, Cleared
      <4> QED
        BY <1>0, <2>1, <4>2, UnforcedCalm
    <3>3. CASE at # "ready"
      <4>1. After[at] \notin {"remove_prepared", "drop_record", "deliver", "abort_record", "discard",
                              "tombstone"}
        BY <3>3 DEF After, Replacing
      <4> QED
        BY <1>0, <2>1, <2>2, <3>1, <4>1, UnforcedGoto
    <3> QED
      BY <3>2, <3>3
  <2>3. CASE Exit(p, "recovery")
    BY <1>0, <2>1, <2>3, UnforcedExit
  <2> QED
    BY <1>3, <2>2, <2>3 DEF TxnCheck
<1> QED
  BY <1>1, <1>2, <1>3 DEF ReplaceRecord

\* DropRecord: the names are clear when the record goes.
LEMMA UnforcedDrop ==
  ASSUME IInv, UnforcedInv, NEW p \in Procs, NEW at \in {"abort_record", "drop_record"},
         NEW code \in Results, DropRecord(p, at, code)
  PROVE  UnforcedInv'
<1>0. /\ TypeOK /\ pc[p] = at /\ Frame(p) /\ CapInv(p) /\ Unforced(p) /\ "recovery" \in Results
      /\ UNCHANGED <<root, tomb, op, delivered, condemned>>
  BY DropFrame, LocationFacts
     DEF IInv, ProcInv, UnforcedInv, DropRecord, diskVars, histVars
<1>1. CASE fresh[p]
  <2>1. rec' = NoRecord /\ fresh' = [q \in Procs |-> FALSE] /\ Exit(p, code)
    BY <1>1 DEF DropRecord
  <2>2. /\ cap[p] = rec /\ Cleared /\ rec.st # "Ready" /\ rec.st \in {"Materializing", "Tombstoned"}
        /\ at = "drop_record" => rec.st = "Tombstoned"
    BY <1>0, <1>1 DEF CapInv, CompleteSteps, Unforced
  <2>3. \A q \in Procs \ {p} : ~Current(q)
    <3>1. CASE at = "abort_record"
      <4>1. Current(p)
        BY <1>0, <3>1 DEF Current, Aborting
      <4> QED
        BY <4>1, CurrentAlone
    <3>2. CASE at = "drop_record"
      BY <2>2, <3>2, CurrentRecord
    <3> QED
      BY <3>1, <3>2
  <2>4. \A i : Kept(i) => Kept(i)'
    BY <1>0, <2>2 DEF Kept
  <2>5. pc'[p] = "idle"
    BY <1>0, <2>1, ExitMoves DEF Moved
  <2>6. Unforced(p)'
    BY <1>0, <2>5, UnforcedPlain DEF Unforced, Delicate, Aborting
  <2> QED
    BY <1>0, <2>1, <2>2, <2>3, <2>4, <2>6, UnforcedRecord
<1>2. CASE ~fresh[p]
  BY <1>0, <1>2, UnforcedExit DEF DropRecord
<1> QED
  BY <1>1, <1>2

\* A create returns a session whose record is there.
LEMMA UnforcedReturn ==
  ASSUME IInv, UnforcedInv, NEW p \in Procs, Frame(p), NEW i, Kept(i), Exit(p, "ok"),
         UNCHANGED <<rec, root, tomb, condemned, op, fresh>>, delivered' = delivered \cup {i}
  PROVE  UnforcedInv'
<1>1. pc'[p] = "idle"
  BY ExitMoves, LocationFacts DEF IInv, Moved
<1>2. Unforced(p)'
  BY <1>1, UnforcedPlain DEF UnforcedInv, Unforced, Delicate, Aborting
<1>3. ASSUME NEW q \in Procs \ {p} PROVE Unforced(q)'
  <2>1. /\ pc'[q] = pc[q] /\ op'[q] = op[q] /\ txn'[q] = txn[q] /\ cap'[q] = cap[q]
        /\ dir'[q] = dir[q] /\ fresh'[q] = fresh[q] /\ Unforced(q)
    BY DEF Frame, Others, UnforcedInv
  <2>2. /\ (Current(q)' <=> Current(q)) /\ (Exchanged(q)' <=> Exchanged(q))
        /\ (Cleared' <=> Cleared) /\ (Kept(dir[q])' <=> Kept(dir[q]))
    BY <2>1 DEF Current, Exchanged, Cleared, Kept
  <2> QED
    BY <2>1, <2>2 DEF Unforced
<1>4. DeliveredStaysReady' /\ RecordOutlivesRoot'
  BY DEF UnforcedInv, DeliveredStaysReady, RecordOutlivesRoot, Kept
<1> QED
  BY <1>2, <1>3, <1>4 DEF UnforcedInv

LEMMA UnforcedCreate ==
  ASSUME IInv, UnforcedInv, NEW p \in Procs, CreateStep(p)
  PROVE  UnforcedInv'
<1>0. /\ TypeOK /\ CreateSteps \cup {"idle"} \subseteq Locations /\ Frame(p) /\ TombInv
      /\ {"ok", "busy", "refused", "error", "recovery", "killed"} \subseteq Results
      /\ CapInv(p) /\ DirInv(p) /\ TmpInv(p) /\ Unforced(p)
  BY LocationFacts, CreateFrame DEF IInv, ProcInv, UnforcedInv
<1>1. CASE Lookup(p)
  <2>1. UNCHANGED <<rec, root, tomb, condemned, op, cap, fresh>> /\ pc[p] = "lookup"
    BY <1>1, LookupMoves
  <2>2. CASE Goto(p, "prepare") /\ delivered' = delivered
    <3>1. pc'[p] = "prepare" /\ txn'[p] = "none"
      BY <1>0, <2>2, GotoMoves DEF Moved, CreateSteps
    <3> QED
      BY <1>0, <2>1, <2>2, <3>1, UnforcedGoto DEF Delicate, Aborting, CreateSteps
  <2>3. ASSUME NEW code \in Results, Exit(p, code), delivered' = delivered PROVE UnforcedInv'
    BY <1>0, <2>1, <2>3, UnforcedExit
  <2>4. CASE Exit(p, "ok") /\ Loadable /\ delivered' = delivered \cup {rec.root}
    BY <1>0, <2>1, <2>4, UnforcedReturn DEF Loadable, Kept, Delicate, Aborting
  <2> QED
    BY <1>0, <1>1, <2>2, <2>3, <2>4, LookupMoves
<1>2. CASE Prepare(p)
  <2>1. UNCHANGED <<rec, root, tomb, delivered, condemned, op, fresh>>
    BY <1>2 DEF Prepare, diskVars, histVars
  <2>2. CASE Goto(p, "link")
    <3>1. pc'[p] = "link" /\ txn'[p] = "none"
      BY <1>0, <2>2, GotoMoves DEF Moved, CreateSteps
    <3> QED
      BY <1>0, <2>1, <3>1, UnforcedGoto DEF Delicate, Aborting, CreateSteps
  <2>3. CASE Exit(p, "error")
    BY <1>0, <2>1, <2>3, UnforcedExit
  <2> QED
    BY <1>2, <2>2, <2>3 DEF Prepare
<1>3. CASE Link(p)
  <2>1. UNCHANGED <<root, tomb, delivered, condemned, op>> /\ pc[p] = "link"
    BY <1>3 DEF Link, diskVars, histVars
  <2>2. CASE rec = NoRecord
    <3>1. Goto(p, "mkdir") /\ rec' = tmp[p] /\ fresh' = [q \in Procs |-> q = p]
      BY <1>3, <2>2 DEF Link
    <3>2. pc'[p] = "mkdir" /\ txn'[p] = "none" /\ fresh'[p] /\ \A q \in Procs \ {p} : ~fresh'[q]
      BY <1>0, <3>1, GotoMoves DEF Moved, CreateSteps
    <3>3. rec' # NoRecord /\ rec.st = "Absent"
      BY <1>0, <2>1, <2>2, <3>1, RecordFacts DEF TmpInv
    <3>4. \A q \in Procs : ~Current(q)
      BY <2>2, CurrentRecord
    <3>5. \A i : Kept(i) => Kept(i)'
      BY <2>1, <3>3 DEF Kept
    <3>6. Unforced(p)'
      BY <1>0, <2>1, <3>2 DEF Unforced
    <3> QED
      BY <1>0, <2>1, <3>2, <3>3, <3>4, <3>5, <3>6, UnforcedRecord
  <2>3. CASE rec # NoRecord
    BY <1>0, <1>3, <2>1, <2>3, UnforcedExit DEF Link
  <2> QED
    BY <2>2, <2>3
<1>4. CASE Mkdir(p)
  <2>1. UNCHANGED <<rec, delivered, condemned, op, cap, fresh>> /\ pc[p] = "mkdir"
    BY <1>4 DEF Mkdir, txnVars, histVars
  <2>2. /\ fresh[p] /\ cap[p] = rec /\ rec # NoRecord /\ rec.st = "Prepared"
        /\ \A q \in Procs \ {p} : ~Current(q)
    <3>1. Current(p)
      BY <2>1 DEF Current
    <3> QED
      BY <1>0, <2>1, <3>1, CurrentRecord, CurrentAlone DEF CapInv
  <2>3. CASE Goto(p, "mat")
    <3>1. pc'[p] = "mat" /\ txn'[p] = "none"
      BY <1>0, <2>3, GotoMoves DEF Moved, CreateSteps
    <3>2. Unforced(p)'
      BY <1>0, <2>1, <2>2, <3>1 DEF Unforced
    <3>3. ASSUME NEW q \in Procs \ {p} PROVE Unforced(q)'
      <4>1. /\ pc'[q] = pc[q] /\ op'[q] = op[q] /\ txn'[q] = txn[q] /\ cap'[q] = cap[q]
            /\ dir'[q] = dir[q] /\ fresh'[q] = fresh[q] /\ Unforced(q) /\ CapInv(q)
        BY <1>0, <2>1 DEF Frame, Others, UnforcedInv, IInv, ProcInv
      <4>2. ~Current(q)' /\ (Exchanged(q)' <=> Exchanged(q)) /\ pc[q] # "abort_record"
        BY <2>2, <4>1 DEF Current, Exchanged, Aborting
      <4>3. ~(pc[q] = "drop_record" /\ fresh[q])
        BY <2>2, <4>1 DEF CapInv, CompleteSteps
      <4>4. Kept(dir[q]) => Kept(dir[q])'
        BY <2>1, <4>1 DEF Kept
      <4> QED
        BY <4>1, <4>2, <4>3, <4>4 DEF Unforced
    <3>4. DeliveredStaysReady' /\ RecordOutlivesRoot'
      BY <2>1, <2>2 DEF UnforcedInv, DeliveredStaysReady, RecordOutlivesRoot
    <3> QED
      BY <3>2, <3>3, <3>4 DEF UnforcedInv
  <2>4. CASE Exit(p, "error") /\ UNCHANGED root /\ UNCHANGED tomb
    BY <1>0, <2>1, <2>4, UnforcedExit
  <2> QED
    BY <1>4, <2>3, <2>4 DEF Mkdir
<1>5. CASE Materializing(p)
  BY <1>5, UnforcedReplace DEF Materializing, Replacing, After
<1>6. CASE Build(p)
  <2>1. UNCHANGED <<rec, root, tomb, delivered, condemned, op, cap, fresh>> /\ pc[p] = "build"
    BY <1>6 DEF Build, txnVars, histVars
  <2>2. fresh[p]
    BY <1>0, <2>1 DEF Unforced, Current
  <2>3. ASSUME NEW to \in {"recheck", "abort"}, Goto(p, to) PROVE UnforcedInv'
    <3>1. pc'[p] = to /\ txn'[p] = "none" /\ to \in Locations
      BY <1>0, <2>3, GotoMoves DEF Moved, CreateSteps
    <3> QED
      BY <1>0, <2>1, <2>2, <3>1, UnforcedGoto
  <2>4. CASE Exit(p, "recovery")
    BY <1>0, <2>1, <2>4, UnforcedExit
  <2> QED
    BY <1>6, <2>3, <2>4 DEF Build
<1>7. CASE CommitReady(p)
  <2>1. CASE Check(p, "recheck", fresh[p] /\ root = dir[p], "ready", "recovery")
    BY <1>0, <2>1, UnforcedCheck DEF CreateSteps
  <2>2. CASE ReplaceRecord(p, "ready", Record("Ready", dir[p]), "deliver")
    BY <2>2, UnforcedReplace DEF Replacing, After
  <2> QED
    BY <1>7, <2>1, <2>2 DEF CommitReady
<1>8. CASE Deliver(p)
  <2>1. /\ UNCHANGED <<rec, root, tomb, condemned, op, fresh>> /\ pc[p] = "deliver"
        /\ delivered' = delivered \cup {dir[p]} /\ Exit(p, "ok")
    BY <1>8 DEF Deliver, diskVars, txnVars
  <2>2. Kept(dir[p])
    BY <1>0, <2>1 DEF Unforced
  <2> QED
    BY <1>0, <2>1, <2>2, UnforcedReturn
<1>9. CASE AbortCreate(p)
  <2>0. UNCHANGED <<delivered, condemned, op>> /\ pc[p] \in Aborting
    BY <1>9 DEF AbortCreate, Check, ClearTree, DropRecord, histVars, Aborting
  <2>1. fresh[p]
    BY <1>0, <2>0 DEF Unforced, Current
  <2>2. CASE Check(p, "abort", fresh[p], "abort_tree", "recovery")
    BY <1>0, <2>1, <2>2, UnforcedCheck DEF CreateSteps
  <2>3. CASE ClearTree(p, "abort_tree", root = dir[p], "abort_rest")
    <3>1. UNCHANGED <<rec, root, tomb, cap, fresh>>
      BY <2>3 DEF ClearTree, txnVars
    <3>2. CASE Goto(p, "abort_rest")
      <4>1. pc'[p] = "abort_rest" /\ txn'[p] = "none" /\ "abort_rest" \in Locations
        BY <1>0, <3>2, GotoMoves DEF Moved, CreateSteps
      <4> QED
        BY <1>0, <2>0, <2>1, <3>1, <4>1, UnforcedGoto
    <3>3. CASE Exit(p, "recovery")
      BY <1>0, <2>0, <3>1, <3>3, UnforcedExit
    <3> QED
      BY <2>3, <3>2, <3>3 DEF ClearTree
  <2>4. CASE pc[p] = "abort_rest"
    <3>0. /\ IF root = dir[p] THEN root' = NoRoot /\ Goto(p, "abort_record")
                              ELSE Exit(p, "recovery") /\ UNCHANGED root
          /\ UNCHANGED <<rec, tomb, cap, fresh>>
      BY <1>9, <2>4 DEF AbortCreate, Check, ClearTree, DropRecord, txnVars
    <3>1. CASE root = dir[p]
      <4>1. pc'[p] = "abort_record"
        BY <1>0, <3>0, <3>1, GotoMoves DEF Moved, CreateSteps
      <4>2. dir[p] # NoRoot
        BY <1>0, <2>4, RootAssumption DEF DirInv, Creating
      <4>3. Cleared'
        BY <1>0, <3>0, <3>1, <4>2 DEF TombInv, Cleared
      <4>4. Unforced(p)'
        BY <1>0, <2>0, <2>1, <3>0, <4>1, <4>3 DEF Unforced
      <4> QED
        BY <1>0, <2>0, <3>0, <4>3, <4>4, UnforcedCalm
    <3>2. CASE root # dir[p]
      BY <1>0, <2>0, <3>0, <3>2, UnforcedExit
    <3> QED
      BY <3>1, <3>2
  <2>5. CASE DropRecord(p, "abort_record", "error")
    BY <1>0, <2>5, UnforcedDrop
  <2> QED
    BY <1>9, <2>2, <2>3, <2>4, <2>5 DEF AbortCreate
<1> QED
  BY <1>1, <1>2, <1>3, <1>4, <1>5, <1>6, <1>7, <1>8, <1>9 DEF CreateStep

LEMMA UnforcedLoad ==
  ASSUME IInv, UnforcedInv, NEW p \in Procs,
         LoadForRemove(p) \/ LoadForExec(p) \/ LoadForPublish(p)
  PROVE  UnforcedInv'
<1>1. PICK commands : LoadStep(p, commands)
  BY LoadsWhere
<1>2. /\ TypeOK /\ Frame(p) /\ op[p] # "force"
      /\ UNCHANGED <<rec, root, tomb, delivered, condemned, op>>
  BY <1>1, LoadFrame DEF IInv, LoadStep, diskVars, histVars, UnforcedInv, Unforced
<1>3. ASSUME NEW to \in {"inspect", "lease", "share"}, Loads(p, to) PROVE UnforcedInv'
  <2>1. to \in Locations /\ Goto(p, to) /\ to \notin Delicate
    BY <1>3, LocationFacts
       DEF Loads, CompleteSteps, RemoveSteps, ExecSteps, Delicate, Aborting
  <2>2. pc'[p] = to /\ txn'[p] = "none"
    BY <1>2, <2>1, GotoMoves DEF Moved
  <2>3. \A q \in Procs \ {p} : fresh'[q] = fresh[q]
    BY <1>2, <1>3 DEF Loads, TypeOK
  <2> QED
    BY <1>2, <2>1, <2>2, <2>3, UnforcedGoto
<1>4. ASSUME NEW code \in {"ok", "refused", "error", "recovery"}, Rejects(p, code)
      PROVE  UnforcedInv'
  <2>1. code \in Results /\ Exit(p, code) /\ UNCHANGED fresh
    BY <1>4, LocationFacts DEF Rejects
  <2> QED
    BY <1>2, <2>1, UnforcedExit
<1>5. \/ \E to \in {"inspect", "lease", "share"} : Loads(p, to)
      \/ \E code \in {"ok", "refused", "error", "recovery"} : Rejects(p, code)
  <2>1. CASE LoadForRemove(p)
    BY <1>2, <2>1 DEF LoadForRemove
  <2>2. CASE LoadForExec(p)
    BY <2>2 DEF LoadForExec
  <2>3. CASE LoadForPublish(p)
    BY <2>3 DEF LoadForPublish
  <2> QED
    BY <2>1, <2>2, <2>3
<1> QED
  BY <1>3, <1>4, <1>5

LEMMA UnforcedLease ==
  ASSUME IInv, UnforcedInv, NEW p \in Procs, NEW at, NEW to, TryLease(p, at, to),
         <<at, to>> \in {<<"lease", "revalidate">>, <<"tomb_lease", "tomb_revalidate">>}
  PROVE  UnforcedInv'
<1>0. /\ TypeOK /\ pc[p] = at /\ UNCHANGED <<rec, root, tomb, delivered, condemned, op, fresh>>
      /\ to \in Locations /\ "busy" \in Results /\ to \notin Delicate /\ txn[p] = "none"
  BY LocationFacts
     DEF IInv, TryLease, diskVars, txnVars, histVars, RemoveSteps, CompleteSteps, Delicate,
         Aborting, ProcInv, TmpInv, Replacing
<1>1. Frame(p)
  BY <1>0, TryLeaseFrame
<1>2. CASE pc' = [pc EXCEPT ![p] = to] /\ UNCHANGED txn
  <2>1. pc'[p] = to /\ txn'[p] = "none"
    BY <1>0, <1>2 DEF TypeOK
  <2> QED
    BY <1>0, <1>1, <2>1, UnforcedGoto
<1>3. CASE Exit(p, "busy")
  BY <1>0, <1>1, <1>3, UnforcedExit
<1> QED
  BY <1>2, <1>3 DEF TryLease

LEMMA UnforcedRemove ==
  ASSUME IInv, UnforcedInv, NEW p \in Procs, RemoveStep(p)
  PROVE  UnforcedInv'
<1>0. /\ TypeOK /\ RemoveSteps \cup CompleteSteps \cup PublishSteps \cup {"idle"} \subseteq Locations
      /\ Frame(p) /\ CapInv(p) /\ DirInv(p) /\ TmpInv(p) /\ Unforced(p) /\ TombInv
      /\ {"ok", "busy", "refused", "error", "recovery", "killed"} \subseteq Results
  BY LocationFacts, RemoveFrame DEF IInv, ProcInv, UnforcedInv
<1>1. CASE LoadForRemove(p)
  BY <1>1, UnforcedLoad
<1>2. CASE AcquireLease(p)
  BY <1>2, UnforcedLease DEF AcquireLease
<1>3. CASE Revalidate(p)
  <2>1. pc[p] = "revalidate"
    BY <1>3 DEF Revalidate, Check
  <2>2. cap[p].st = "Ready" /\ op[p] \in {"remove", "publish", "gc"}
    BY <1>0, <2>1 DEF CapInv, Unforced
  <2>3. CASE op[p] = "gc"
    <3>1. PICK code \in Results : Check(p, "revalidate", FALSE, "idle", code)
      BY <1>0, <1>3, <2>3 DEF Revalidate
    <3> QED
      BY <1>0, <3>1, UnforcedCheck
  <2>4. CASE op[p] # "gc"
    <3>1. /\ AfterLease(p) \in Locations
          /\ AfterLease(p) \notin {"remove_prepared", "drop_record", "deliver", "abort_record"}
      BY <1>0, <2>2, <2>4 DEF AfterLease, RemoveSteps, PublishSteps
    <3>2. Check(p, "revalidate", fresh[p] /\ (cap[p].st = "Ready" => Loadable), AfterLease(p),
                "recovery")
      BY <1>3, <2>4 DEF Revalidate
    <3> QED
      BY <1>0, <2>2, <3>1, <3>2, UnforcedCheck
  <2> QED
    BY <2>3, <2>4
<1>4. CASE DiscardCheck(p)
  <2>1. PICK ok : Check(p, "discard", ok, "tombstone", "refused")
    BY <1>4 DEF DiscardCheck
  <2>2. pc[p] = "discard" /\ fresh[p] /\ cap[p].st = "Ready"
    BY <1>0, <2>1 DEF Check, Unforced, Current, TmpInv, Exchanged, Replacing
  <2> QED
    BY <1>0, <2>1, <2>2, UnforcedCheck DEF RemoveSteps
<1>5. CASE TransitionTombstone(p)
  <2>1. CASE ReplaceRecord(p, "tombstone", Record("Tombstoned", cap[p].root), "release")
    BY <2>1, UnforcedReplace DEF Replacing, After
  <2>2. CASE /\ pc[p] = "release" /\ pc' = [pc EXCEPT ![p] = "inspect"]
             /\ UNCHANGED <<rec, diskVars, op, txn, txnVars, histVars>>
    <3>1. pc'[p] = "inspect" /\ txn'[p] = "none" /\ "inspect" \in Locations
      BY <1>0, <2>2 DEF TypeOK, TmpInv, Replacing, CompleteSteps
    <3> QED
      BY <1>0, <2>2, <3>1, UnforcedGoto DEF diskVars, txnVars, histVars, Delicate, Aborting
  <2> QED
    BY <1>5, <2>1, <2>2 DEF TransitionTombstone
<1>6. CASE RemovePrepared(p)
  BY <1>0, <1>6 DEF RemovePrepared, DropRecord, Unforced
<1>7. CASE Inspect(p)
  <2>1. UNCHANGED <<rec, root, tomb, delivered, condemned, op, fresh>>
    BY <1>7 DEF Inspect, diskVars, txnVars, histVars
  <2>2. ASSUME NEW to \in {"tomb_lease", "drop_record"}, Goto(p, to),
               to = "drop_record" => Cleared
        PROVE  UnforcedInv'
    <3>1. pc'[p] = to /\ txn'[p] = "none" /\ to \in Locations
      BY <1>0, <2>2, GotoMoves DEF Moved, CompleteSteps
    <3>2. to \notin Delicate \/ to = "drop_record"
      BY DEF Delicate, Aborting
    <3> QED
      BY <1>0, <2>1, <2>2, <3>1, <3>2, UnforcedGoto
  <2>3. CASE Exit(p, "recovery")
    BY <1>0, <2>1, <2>3, UnforcedExit
  <2> QED
    BY <1>7, <2>2, <2>3 DEF Inspect, Cleared
<1>8. CASE TryLease(p, "tomb_lease", "tomb_revalidate")
  BY <1>8, UnforcedLease
<1>9. CASE \/ Check(p, "tomb_revalidate", fresh[p], "promote", "recovery")
           \/ Check(p, "tomb_recheck", fresh[p], "delete", "recovery")
  BY <1>0, <1>9, UnforcedCheck DEF CompleteSteps, Delicate, Aborting
<1>10. CASE Promote(p) \/ ClearTree(p, "delete", tomb = dir[p], "delete_rest") \/ DeleteRest(p)
  <2>1. /\ pc[p] \in {"promote", "delete", "delete_rest"}
        /\ UNCHANGED <<rec, delivered, condemned, op, cap, fresh>>
    BY <1>10 DEF Promote, ClearTree, DeleteRest, txnVars, histVars
  <2>2. dir[p] # NoRoot
    BY <2>1, TombHolder, RootAssumption
  <2>3. Cleared => Cleared'
    BY <1>10, <2>2 DEF Cleared, Promote, ClearTree, DeleteRest, AtRoot
  <2>4. CASE Exit(p, "recovery")
    <3>1. pc'[p] = "idle"
      BY <1>0, <2>4, ExitMoves DEF Moved
    <3>2. Unforced(p)'
      BY <1>0, <2>1, <3>1, UnforcedPlain DEF Unforced, Delicate, Aborting
    <3> QED
      BY <1>0, <2>1, <2>3, <3>2, UnforcedCalm
  <2>5. CASE Goto(p, "tomb_recheck") \/ Goto(p, "delete_rest")
    <3>1. pc'[p] \in {"tomb_recheck", "delete_rest"}
      BY <1>0, <2>5, GotoMoves DEF Moved, CompleteSteps
    <3>2. Unforced(p)'
      BY <1>0, <2>1, <3>1, UnforcedPlain DEF Unforced, Delicate, Aborting
    <3> QED
      BY <1>0, <2>1, <2>3, <3>2, UnforcedCalm
  <2>6. CASE DeleteRest(p) /\ tomb = dir[p]
    <3>1. Goto(p, "drop_record") /\ tomb' = NoRoot /\ root' = root
      BY <2>6 DEF DeleteRest
    <3>2. pc'[p] = "drop_record"
      BY <1>0, <3>1, GotoMoves DEF Moved, CompleteSteps
    <3>3. Cleared'
      BY <1>0, <2>2, <2>6, <3>1 DEF Cleared, TombInv
    <3>4. Unforced(p)'
      BY <1>0, <2>1, <3>2, <3>3 DEF Unforced, Current, Aborting
    <3> QED
      BY <1>0, <2>1, <2>3, <3>4, UnforcedCalm
  <2> QED
    BY <1>10, <2>4, <2>5, <2>6 DEF Promote, ClearTree, DeleteRest
<1>11. CASE DropRecord(p, "drop_record", "ok")
  BY <1>0, <1>11, UnforcedDrop
<1> QED
  BY <1>1, <1>2, <1>3, <1>4, <1>5, <1>6, <1>7, <1>8, <1>9, <1>10, <1>11
     DEF RemoveStep, CompleteTombstone

LEMMA UnforcedOther ==
  ASSUME IInv, UnforcedInv, NEW p \in Procs, ExecStep(p) \/ PublishStep(p) \/ GcStep(p)
  PROVE  UnforcedInv'
<1>0. /\ TypeOK /\ Frame(p)
      /\ ExecSteps \cup PublishSteps \cup GcSteps \cup {"idle", "inspect", "lease"} \subseteq Locations
      /\ {"ok", "busy", "refused", "error", "recovery", "killed"} \subseteq Results
  BY LocationFacts, OtherFrame DEF IInv, RemoveSteps, CompleteSteps
<1>1. CASE LoadForExec(p) \/ LoadForPublish(p)
  BY <1>1, UnforcedLoad
<1>2. CASE ShareRevalidate(p) \/ Wait(p) \/ PublishStops(p) \/ Recensus(p)
  BY <1>0, <1>2, UnforcedCheck
     DEF ShareRevalidate, Wait, PublishStops, Recensus, ExecSteps, GcSteps, Delicate, Aborting
<1>3. CASE PublishSession(p)
  BY <1>0, <1>3, UnforcedReplace, UnforcedCheck DEF PublishSession, Replacing, After
<1>4. CASE Spawn(p) \/ Census(p) \/ Sweep(p) \/ GcDispatch(p)
  <2>1. UNCHANGED <<rec, root, tomb, delivered, condemned, op>>
    BY <1>4 DEF Spawn, Census, Sweep, GcDispatch, diskVars, histVars
  <2>2. \A q \in Procs \ {p} : fresh'[q] = fresh[q]
    BY <1>0, <1>4 DEF Spawn, Census, Sweep, GcDispatch, txnVars, TypeOK
  <2>3. \/ \E to \in {"wait", "recensus", "dispatch", "inspect", "lease"} : Goto(p, to)
        \/ \E code \in {"ok", "recovery"} : Exit(p, code)
    BY <1>4 DEF Spawn, Census, Sweep, GcDispatch
  <2>4. ASSUME NEW to \in {"wait", "recensus", "dispatch", "inspect", "lease"}, Goto(p, to)
        PROVE  UnforcedInv'
    <3>1. to \in Locations /\ to \notin Delicate
      BY <1>0 DEF ExecSteps, GcSteps, Delicate, Aborting
    <3>2. pc'[p] = to /\ txn'[p] = "none"
      BY <1>0, <2>4, <3>1, GotoMoves DEF Moved
    <3> QED
      BY <1>0, <2>1, <2>2, <3>1, <3>2, UnforcedGoto
  <2> QED
    BY <1>0, <2>1, <2>2, <2>3, <2>4, UnforcedExit
<1> QED
  BY <1>1, <1>2, <1>3, <1>4 DEF ExecStep, PublishStep, GcStep

LEMMA UnforcedMargin ==
  ASSUME "force" \notin Ops, IInv, UnforcedInv, NEW p \in Procs,
         (\E o \in Ops : Start(p, o)) \/ LockHome(p) \/ Share(p) \/ ChildExits(p) \/ Crash(p)
  PROVE  UnforcedInv'
<1>0. TypeOK /\ Frame(p) /\ HoldInv(p) /\ Unforced(p)
  BY MarginFrame DEF IInv, ProcInv, UnforcedInv
<1>1. UNCHANGED <<rec, root, tomb, delivered, condemned>>
  BY DEF Start, LockHome, Share, ChildExits, Crash, diskVars, histVars
<1>2. Cleared => Cleared'
  BY <1>1 DEF Cleared
<1>3. \A q \in Procs \ {p} : fresh'[q] = fresh[q]
  BY <1>0 DEF Start, LockHome, Share, ChildExits, Crash, txnVars, TypeOK
<1>4. op'[p] # "force"
  BY <1>0 DEF Start, LockHome, Share, ChildExits, Crash, TypeOK, Unforced
<1>5. CASE Crash(p)
  <2>1. pc'[p] = "idle"
    BY <1>0, <1>5, ExitMoves, LocationFacts DEF Crash, Moved
  <2>2. Unforced(p)'
    BY <1>4, <2>1, UnforcedPlain DEF Delicate, Aborting
  <2> QED
    BY <1>0, <1>1, <1>2, <1>3, <2>2, UnforcedCalm
<1>6. CASE ~Crash(p)
  <2>1. pc'[p] \in {"home", "load", "census", "lookup", "share_revalidate", "idle", "wait"}
    BY <1>0, <1>6, OpsAssumption
       DEF Start, LockHome, Share, ChildExits, HoldInv, TypeOK, Entry, Commands
  <2>2. Unforced(p)'
    BY <1>4, <2>1, UnforcedPlain DEF Delicate, Aborting
  <2> QED
    BY <1>0, <1>1, <1>2, <1>3, <2>2, UnforcedCalm
<1> QED
  BY <1>5, <1>6

LEMMA UnforcedStutter ==
  ASSUME UnforcedInv, UNCHANGED vars
  PROVE  UnforcedInv'
<1>1. \A p \in Procs : Unforced(p)'
  <2> SUFFICES ASSUME NEW p \in Procs PROVE Unforced(p)'
    OBVIOUS
  <2>1. /\ (Current(p)' <=> Current(p)) /\ (Exchanged(p)' <=> Exchanged(p))
        /\ (Cleared' <=> Cleared) /\ (Kept(dir[p])' <=> Kept(dir[p]))
    BY DEF vars, Current, Exchanged, Cleared, Kept
  <2> QED
    BY <2>1 DEF vars, UnforcedInv, Unforced
<1>2. DeliveredStaysReady' /\ RecordOutlivesRoot'
  BY DEF vars, UnforcedInv, DeliveredStaysReady, RecordOutlivesRoot
<1> QED
  BY <1>1, <1>2 DEF UnforcedInv

LEMMA UnforcedNext ==
  ASSUME "force" \notin Ops, IInv, UnforcedInv, [Next]_vars
  PROVE  UnforcedInv'
<1>1. ASSUME NEW p \in Procs, Step(p) PROVE UnforcedInv'
  BY <1>1, UnforcedCreate, UnforcedRemove, UnforcedOther DEF Step
<1> QED
  BY <1>1, UnforcedMargin, UnforcedStutter DEF Next

LEMMA UnforcedInit == Init => UnforcedInv
<1>1. Init => \A p \in Procs : Unforced(p)
  BY DEF Init, Unforced, Current, Aborting
<1>2. Init => DeliveredStaysReady /\ RecordOutlivesRoot
  BY DEF Init, DeliveredStaysReady, RecordOutlivesRoot
<1> QED
  BY <1>1, <1>2 DEF UnforcedInv

\* When no removal is forced, the process that is about to replace or remove the
\* record, or to take the tree away, holds the record that is on disk.
THEOREM Undisturbed ==
  ASSUME "force" \notin Ops
  PROVE  Spec => []UnforcedInv
<1>1. IInv /\ UnforcedInv /\ [Next]_vars => UnforcedInv'
  BY UnforcedNext
<1> QED
  BY <1>1, Invariance, UnforcedInit, PTL DEF Spec

\* No command but a forced removal takes away the Ready record of a session whose
\* create has returned, other than by a tombstone for it.
THEOREM StaysReady ==
  ASSUME "force" \notin Ops
  PROVE  Spec => []DeliveredStaysReady
<1>1. UnforcedInv => DeliveredStaysReady
  BY DEF UnforcedInv
<1> QED
  BY <1>1, Undisturbed, PTL

\* No command but a forced removal takes the record away while there is a tree
\* that it accounts for.
THEOREM RecordOutlives ==
  ASSUME "force" \notin Ops
  PROVE  Spec => []RecordOutlivesRoot
<1>1. UnforcedInv => RecordOutlivesRoot
  BY DEF UnforcedInv
<1> QED
  BY <1>1, Undisturbed, PTL

(***************************************************************************)
(* SessionLifecycle implements SessionPromise, forced removals included.   *)
(* What the invariants above do not say, and the answers rest on: which    *)
(* command can be where; what is at the two names is what there is; and    *)
(* when a record goes, nothing that was delivered is left.                 *)
(***************************************************************************)
Standing == {"building", "complete", "partial"}
Unmade   == {"home", "lookup", "prepare", "link", "mkdir"}

PlaceInv == \A i \in Roots : content[i] \in Standing <=> i \in {root, tomb}
BareInv  == rec = NoRecord \/ (\E p \in Procs : Bare(p)) => root \notin delivered

Served(p) ==
  /\ pc[p] = "home" => op[p] \in {"create", "gc"}
  /\ pc[p] \in CreateSteps => op[p] = "create"
  /\ pc[p] \in {"tombstone", "release", "remove_prepared"} => op[p] \in {"remove", "force"}
  /\ pc[p] \in CompleteSteps => op[p] \in {"remove", "force", "gc"}
  /\ pc[p] \in ExecSteps => op[p] = "exec"
  /\ pc[p] \in PublishSteps => op[p] = "publish"
  /\ pc[p] \in Unmade /\ op[p] = "create" => dir[p] = NoRoot
  /\ pc[p] \in Unbuilt => dir[p] \notin delivered
  /\ op[p] = "remove" /\ pc[p] \in {"discard", "tombstone"} /\ ~Exchanged(p) =>
       root = dir[p] /\ content[dir[p]] = "complete"

ServedInv == PlaceInv /\ BareInv /\ \A p \in Procs : Served(p)

Advances == Promise!Next \/ UNCHANGED Promise!vars

\* Nothing that was delivered is left when there is nothing at the names that was.
LEMMA NothingLeft ==
  ASSUME IInv, PlaceInv, tomb = NoRoot, root \notin delivered
  PROVE  \A i \in delivered : Trees[i] = "gone"
<1> SUFFICES ASSUME NEW i \in delivered PROVE Trees[i] = "gone"
  OBVIOUS
<1>1. i \in Roots /\ i # tomb /\ i # root /\ content[i] \in Contents
  BY RootAssumption DEF IInv, TypeOK
<1>2. content[i] # "unused"
  BY <1>1 DEF IInv, UnusedInv
<1>3. content[i] = "gone"
  BY <1>1, <1>2 DEF PlaceInv, Standing, Contents
<1> QED
  BY <1>1, <1>3 DEF Trees, TreeOf

\* How the abstract state moves with the concrete one.
LEMMA TreesMove ==
  ASSUME TypeOK
  PROVE  /\ content' = content => Trees' = Trees
         /\ \A i \in Roots, c \in Contents :
              content' = [content EXCEPT ![i] = c] => Trees' = [Trees EXCEPT ![i] = TreeOf(c)]
BY DEF TypeOK, Trees

LEMMA ExitShows ==
  ASSUME TypeOK, NEW p \in Procs, NEW code \in Results, Exit(p, code), Frame(p), pc[p] # "idle",
         op' = op
  PROVE  /\ Job[p] = op[p] /\ Job[p] # "none"
         /\ Job' = [Job EXCEPT ![p] = "none"] /\ Own' = [Own EXCEPT ![p] = NoRoot]
         /\ Progress[p] = Began(p) /\ Progress' = [Progress EXCEPT ![p] = "nothing"]
         /\ Answer' = [Answer EXCEPT ![p] = IF code \in Alarms THEN "failed" ELSE code]
<1>1. pc'[p] = "idle" /\ \A q \in Procs \ {p} : /\ pc'[q] = pc[q] /\ txn'[q] = txn[q]
                                                  /\ dir'[q] = dir[q]
  BY ExitMoves DEF Moved, Frame, Others
<1>2. Job[p] = op[p] /\ Job[p] # "none" /\ Progress[p] = Began(p)
  BY DEF Job, Progress, TypeOK, Commands
<1>3. Job' = [Job EXCEPT ![p] = "none"]
  BY <1>1 DEF Job
<1>4. Own' = [Own EXCEPT ![p] = NoRoot]
  BY <1>1 DEF Own
<1>5. Progress' = [Progress EXCEPT ![p] = "nothing"]
  <2>1. \A q \in Procs \ {p} : Began(q)' = Began(q)
    BY <1>1 DEF Began
  <2> QED
    BY <1>1, <2>1 DEF Progress
<1>6. result' = [result EXCEPT ![p] = code] /\ result \in [Procs -> Results]
  BY DEF Exit, TypeOK
<1>7. Answer' = [Answer EXCEPT ![p] = IF code \in Alarms THEN "failed" ELSE code]
  BY <1>6 DEF Answer, Alarms
<1> QED
  BY <1>2, <1>3, <1>4, <1>5, <1>7

LEMMA StepShows ==
  ASSUME TypeOK, NEW p \in Procs, Frame(p), pc[p] # "idle", pc'[p] # "idle",
         UNCHANGED <<op, result>>
  PROVE  /\ Job[p] = op[p] /\ UNCHANGED <<Job, Answer>>
         /\ Own[p] = (IF op[p] = "create" THEN dir[p] ELSE NoRoot)
         /\ Own' = [Own EXCEPT ![p] = IF op[p] = "create" THEN dir'[p] ELSE NoRoot]
         /\ (op[p] = "create" => dir'[p] = dir[p]) => Own' = Own
         /\ Progress[p] = Began(p) /\ Progress' = [Progress EXCEPT ![p] = Began(p)']
         /\ Began(p)' = Began(p) => Progress' = Progress
<1>1. \A q \in Procs \ {p} : pc'[q] = pc[q] /\ txn'[q] = txn[q] /\ dir'[q] = dir[q]
  BY DEF Frame, Others
<1>2. Job[p] = op[p] /\ Progress[p] = Began(p)
  BY DEF Job, Progress
<1>3. Job' = Job
  BY <1>1 DEF Job
<1>4. /\ Own[p] = (IF op[p] = "create" THEN dir[p] ELSE NoRoot)
      /\ Own' = [Own EXCEPT ![p] = IF op[p] = "create" THEN dir'[p] ELSE NoRoot]
      /\ (op[p] = "create" => dir'[p] = dir[p]) => Own' = Own
  BY <1>1 DEF Own
<1>5. Answer' = Answer
  BY DEF Answer
<1>6. Progress' = [Progress EXCEPT ![p] = Began(p)']
  <2>1. \A q \in Procs \ {p} : Began(q)' = Began(q)
    BY <1>1 DEF Began
  <2> QED
    BY <1>1, <2>1 DEF Progress
<1>7. Began(p)' = Began(p) => Progress' = Progress
  BY <1>2, <1>6 DEF Progress
<1> QED
  BY <1>2, <1>3, <1>4, <1>5, <1>6, <1>7

(***************************************************************************)
(* Steps that leave the trees alone.                                       *)
(***************************************************************************)
LEMMA ServedCalm ==
  ASSUME IInv, ServedInv, NEW p \in Procs, Frame(p), UNCHANGED <<root, tomb, content, delivered>>,
         rec' = NoRecord \/ Bare(p)' => rec = NoRecord \/ Bare(p) \/ root = NoRoot,
         Served(p)'
  PROVE  ServedInv'
<1>1. PlaceInv'
  BY DEF ServedInv, PlaceInv
<1>2. ASSUME NEW q \in Procs \ {p}
      PROVE  Served(q)' /\ (Bare(q)' => Bare(q))
  <2>1. /\ pc'[q] = pc[q] /\ op'[q] = op[q] /\ txn'[q] = txn[q] /\ dir'[q] = dir[q]
        /\ fresh'[q] => fresh[q]
    BY DEF Frame, Others
  <2>2. Exchanged(q)' <=> Exchanged(q)
    BY <2>1 DEF Exchanged
  <2> QED
    BY <2>1, <2>2 DEF ServedInv, Served, Bare
<1>3. BareInv'
  <2>1. root # NoRoot \/ root \notin delivered
    BY RootAssumption DEF IInv, TypeOK
  <2> QED
    BY <1>2, <2>1 DEF ServedInv, BareInv
<1> QED
  BY <1>1, <1>2, <1>3 DEF ServedInv

\* A process that has exited serves nobody.
LEMMA ExitServed ==
  ASSUME NEW p \in Procs, pc'[p] = "idle"
  PROVE  Served(p)' /\ ~Bare(p)'
BY DEF Served, Bare, CreateSteps, CompleteSteps, ExecSteps, PublishSteps, Unmade, Unbuilt

\* Which answers of a call that delivers nothing keep the promise ...
Worth(p, code) ==
  \/ code \in Alarms
  \/ code = "refused" /\ Began(p) = "nothing"
  \/ code = "busy" /\ Began(p) # "changed"
  \/ code = "ok" /\ op[p] \in {"publish", "gc"}
  \/ code = "ok" /\ op[p] = "exec" /\ Began(p) = "changed" /\ child[p] = NoRoot
  \/ code = "ok" /\ op[p] \in {"remove", "force"} /\ tomb = NoRoot /\ root \notin delivered

\* ... and which steps of it show, and how: it goes too far to be refused.
Further(p) ==
  \/ Began(p)' = Began(p)
  \/ /\ op[p] \in {"remove", "force", "gc", "publish"}
     /\ Began(p)' = "changed" \/ (Began(p) = "nothing" /\ Began(p)' = "begun")

LEMMA Returns ==
  ASSUME IInv, ServedInv, NEW p \in Procs, Frame(p), pc[p] # "idle", NEW code \in Results,
         Exit(p, code), UNCHANGED <<root, tomb, content, child, op, delivered, condemned>>,
         rec' = NoRecord => rec = NoRecord \/ Bare(p),
         Worth(p, code)
  PROVE  ServedInv' /\ Advances
<1>0. TypeOK /\ pc'[p] = "idle" /\ PlaceInv
  BY ExitMoves DEF IInv, Moved, ServedInv
<1>1. ServedInv'
  BY <1>0, ExitServed, ServedCalm
<1> SUFFICES Advances
  BY <1>1
<1>2. /\ Job[p] = op[p] /\ Job[p] # "none"
      /\ Job' = [Job EXCEPT ![p] = "none"] /\ Own' = [Own EXCEPT ![p] = NoRoot]
      /\ Progress[p] = Began(p) /\ Progress' = [Progress EXCEPT ![p] = "nothing"]
      /\ Answer' = [Answer EXCEPT ![p] = IF code \in Alarms THEN "failed" ELSE code]
      /\ Trees' = Trees
  BY <1>0, ExitShows, TreesMove
<1>3. Promise!Return(p, IF code \in Alarms THEN "failed" ELSE code)
  BY <1>2 DEF Promise!Return, Promise!Did
<1>4. CASE code \in Alarms
  BY <1>3, <1>4 DEF Advances, Promise!Next, Promise!Failed
<1>5. CASE code = "refused" /\ Began(p) = "nothing"
  BY <1>2, <1>3, <1>5 DEF Alarms, Advances, Promise!Next, Promise!Refused
<1>6. CASE code = "busy" /\ Began(p) # "changed"
  BY <1>2, <1>3, <1>6 DEF Alarms, Advances, Promise!Next, Promise!Busy
<1>7. CASE code = "ok" /\ op[p] \in {"publish", "gc"}
  BY <1>2, <1>3, <1>7 DEF Alarms, Advances, Promise!Next, Promise!Done
<1>8. CASE code = "ok" /\ op[p] = "exec" /\ Began(p) = "changed" /\ child[p] = NoRoot
  BY <1>2, <1>3, <1>8 DEF Alarms, Advances, Promise!Next, Promise!Ran
<1>9. CASE code = "ok" /\ op[p] \in {"remove", "force"} /\ tomb = NoRoot /\ root \notin delivered
  <2>1. \A i \in delivered : Trees[i] = "gone"
    BY <1>0, <1>9, NothingLeft
  <2> QED
    BY <1>2, <1>3, <1>9, <2>1 DEF Alarms, Advances, Promise!Next, Promise!Removed
<1> QED
  BY <1>4, <1>5, <1>6, <1>7, <1>8, <1>9 DEF Worth

\* A call goes on, and nobody sees it, or it has gone too far to be refused.
LEMMA GoesOn ==
  ASSUME IInv, ServedInv, NEW p \in Procs, Frame(p), pc[p] # "idle", pc'[p] # "idle",
         UNCHANGED <<root, tomb, content, child, op, result, delivered, condemned>>,
         op[p] = "create" => dir'[p] = dir[p],
         rec' = NoRecord \/ Bare(p)' => rec = NoRecord \/ Bare(p) \/ root = NoRoot,
         Served(p)',
         Further(p)
  PROVE  ServedInv' /\ Advances
<1>0. TypeOK
  BY DEF IInv
<1>1. ServedInv'
  BY ServedCalm
<1> SUFFICES Advances
  BY <1>1
<1>2. /\ Job[p] = op[p] /\ UNCHANGED <<Job, Own, Answer, Trees>>
      /\ Progress[p] = Began(p) /\ Progress' = [Progress EXCEPT ![p] = Began(p)']
      /\ Began(p)' = Began(p) => Progress' = Progress
  BY <1>0, StepShows, TreesMove
<1>3. CASE Began(p)' = Began(p)
  BY <1>2, <1>3 DEF Advances, Promise!vars
<1>4. CASE /\ op[p] \in {"remove", "force", "gc", "publish"}
           /\ Began(p)' = "changed" \/ (Began(p) = "nothing" /\ Began(p)' = "begun")
  <2>1. Promise!Proceed(p)
    BY <1>2, <1>4 DEF Promise!Proceed, Promise!Did, Promise!trees
  <2> QED
    BY <2>1 DEF Advances, Promise!Next
<1> QED
  BY <1>3, <1>4 DEF Further

\* The same for a step that ends in Goto.
LEMMA GoesTo ==
  ASSUME IInv, ServedInv, NEW p \in Procs, Frame(p), pc[p] # "idle", NEW to \in Locations,
         Goto(p, to), to # "idle",
         UNCHANGED <<root, tomb, content, child, op, delivered, condemned>>,
         op[p] = "create" => dir'[p] = dir[p],
         rec' = NoRecord \/ Bare(p)' => rec = NoRecord \/ Bare(p) \/ root = NoRoot,
         pc'[p] = to /\ txn'[p] = "none" =>
           Served(p)' /\ Further(p)
  PROVE  ServedInv' /\ Advances
<1>1. pc'[p] = to /\ txn'[p] = "none" /\ result' = result
  BY GotoMoves DEF IInv, Moved, Goto
<1> QED
  BY <1>1, GoesOn

LEMMA Checks ==
  ASSUME IInv, ServedInv, NEW p \in Procs, NEW at, NEW ok, NEW to \in Locations,
         NEW code \in Results, Check(p, at, ok, to, code), at # "idle",
         ~ok => Worth(p, code),
         ok /\ pc[p] = at /\ pc'[p] = to /\ txn'[p] = "none" /\ Same(p) =>
           to # "idle" /\ Served(p)' /\ ~Bare(p)' /\ Further(p)
  PROVE  ServedInv' /\ Advances
<1>1. TypeOK /\ Frame(p) /\ Same(p) /\ pc[p] = at
  BY CheckFrame DEF IInv, Check, Same, diskVars, txnVars, histVars
<1>2. CASE ok
  <2>1. pc'[p] = to /\ txn'[p] = "none" /\ result' = result
    BY <1>1, <1>2, GotoMoves DEF Check, Moved, Goto
  <2> QED
    BY <1>1, <1>2, <2>1, GoesOn DEF Same
<1>3. CASE ~ok
  BY <1>1, <1>3, Returns DEF Check, Same
<1> QED
  BY <1>2, <1>3


(***************************************************************************)
(* A record transaction: only the exchange that puts a tombstone in place  *)
(* shows, and what it condemns has no program in it.                       *)
(***************************************************************************)
\* Who holds a lease on a root is alone with it.
LEMMA LeasedAlone ==
  ASSUME IInv, NEW p \in Procs, pc[p] \in Leased
  PROVE  /\ dir[p] \in Roots /\ cap[p].root = dir[p] /\ content[dir[p]] # "unused"
         /\ \A q \in Procs : child[q] # dir[p]
<1>1. TypeOK /\ LockInv /\ UnusedInv /\ DirInv(p) /\ ex[dir[p]] = {p}
  BY DEF IInv, ProcInv, HoldInv
<1>2. dir[p] \in Roots /\ cap[p].root = dir[p] /\ content[dir[p]] # "unused"
  BY <1>1 DEF DirInv, UnusedInv
<1>3. sh[dir[p]] = {}
  BY <1>1, <1>2 DEF LockInv
<1>4. ASSUME NEW q \in Procs, child[q] = dir[p] PROVE FALSE
  <2>1. child[q] # NoRoot
    BY <1>2, <1>4, RootAssumption
  <2> QED
    BY <1>3, <1>4, <2>1 DEF IInv, ProcInv, HoldInv
<1> QED
  BY <1>2, <1>4

LEMMA CondemnPromise ==
  ASSUME IInv, ServedInv, NEW p \in Procs, Frame(p), pc[p] = "tombstone", ~Exchanged(p),
         pc'[p] = "tombstone", Exchanged(p)',
         UNCHANGED <<content, child, op, dir, result, delivered>>,
         condemned' = condemned \cup {dir[p]}
  PROVE  Advances
<1>1. /\ TypeOK /\ Served(p) /\ dir[p] \in Roots /\ content[dir[p]] # "unused"
      /\ \A q \in Procs : child[q] # dir[p]
  BY LeasedAlone DEF IInv, ServedInv, Leased
<1>2. /\ op[p] = "force" \/ (op[p] = "remove" /\ content[dir[p]] = "complete")
  BY <1>1 DEF Served
<1>3. Began(p) = "nothing" /\ Began(p)' = "begun"
  BY <1>2 DEF Began, CompleteSteps, Exchanged
<1>4. /\ Job[p] = op[p] /\ UNCHANGED <<Job, Own, Answer, Trees>>
      /\ Progress' = [Progress EXCEPT ![p] = "begun"]
  BY <1>1, <1>3, StepShows, TreesMove
<1>5. /\ Trees[dir[p]] # "none"
      /\ content[dir[p]] = "complete" => Trees[dir[p]] = "whole"
  BY <1>1 DEF Trees, TreeOf, TypeOK, Contents
<1>6. Promise!Condemn(p, dir[p])
  BY <1>1, <1>2, <1>4, <1>5 DEF Promise!Condemn, Promise!Did, Promise!Unused
<1> QED
  BY <1>1, <1>6 DEF Advances, Promise!Next

LEMMA ReplacePromise ==
  ASSUME IInv, ServedInv, NEW p \in Procs, NEW at \in Replacing, NEW new,
         ReplaceRecord(p, at, new, After[at]), pc[p] = at => new = New(p)
  PROVE  ServedInv' /\ Advances
<1>0. /\ TypeOK /\ pc[p] = at /\ TmpInv(p) /\ DirInv(p) /\ Served(p) /\ "recovery" \in Results
      /\ UNCHANGED <<root, tomb, content, child, op, dir, delivered>> /\ new = New(p)
      /\ {"written", "compared", "exchanged"} \subseteq TxnPhases
      /\ After[at] \in Locations /\ at # "idle" /\ After[at] # "idle" /\ "recovery" \in Alarms
  BY LocationFacts
     DEF IInv, ProcInv, ServedInv, ReplaceRecord, diskVars, TxnPhases, After, Replacing,
         CreateSteps, RemoveSteps, PublishSteps, Alarms
<1>1. Frame(p)
  BY <1>0, ReplaceFrame
<1>2. ASSUME Exit(p, "recovery"), UNCHANGED <<rec, condemned>> PROVE ServedInv' /\ Advances
  BY <1>0, <1>1, <1>2, Returns DEF Worth
<1>3. ASSUME NEW phase \in {"written", "compared"}, Within(p, phase), ~Exchanged(p),
             UNCHANGED <<rec, condemned>>
      PROVE  ServedInv' /\ Advances
  <2>1. pc' = pc /\ txn'[p] = phase /\ result' = result /\ ~Exchanged(p)'
    BY <1>0, <1>3, WithinStays DEF Stayed, Within, Exchanged
  <2>2. Served(p)' /\ (Bare(p)' => Bare(p)) /\ Began(p)' = Began(p)
    BY <1>0, <1>3, <2>1 DEF Served, Bare, Began, Replacing, Exchanged
  <2> QED
    BY <1>0, <1>1, <1>3, <2>1, <2>2, GoesOn DEF Further
<1>4. CASE TxnWrite(p, new) \/ TxnCompare(p)
  BY <1>2, <1>3, <1>4 DEF TxnWrite, TxnCompare, Exchanged
<1>5. CASE TxnExchange(p)
  <2>1. CASE UNCHANGED <<rec, condemned>> /\ Exit(p, "recovery")
    BY <1>2, <2>1
  <2>2. CASE /\ Within(p, "exchanged") /\ rec' = tmp[p] /\ tmp[p] # NoRecord
             /\ condemned' = IF rec'.st = "Tombstoned" THEN condemned \cup {rec'.root}
                             ELSE condemned
    <3>1. /\ pc' = pc /\ txn'[p] = "exchanged" /\ result' = result /\ Exchanged(p)'
          /\ ~Exchanged(p) /\ txn[p] = "compared"
      BY <1>0, <1>5, <2>2, WithinStays DEF Stayed, Within, Exchanged, TxnExchange
    <3>2. rec' = New(p) /\ rec' # NoRecord
      BY <1>0, <2>2, <3>1 DEF TmpInv
    <3>3. Served(p)' /\ ~Bare(p)'
      BY <1>0, <3>1 DEF Served, Bare, Replacing, Exchanged
    <3>4. CASE at = "tombstone"
      <4>1. condemned' = condemned \cup {dir[p]}
        BY <1>0, <2>2, <3>2, <3>4, NewRoot DEF DirInv, Leased
      <4>2. Advances
        BY <1>0, <1>1, <3>1, <3>4, <4>1, CondemnPromise
      <4> QED
        BY <1>0, <1>1, <3>2, <3>3, <4>2, ServedCalm
    <3>5. CASE at # "tombstone"
      <4>1. condemned' = condemned
        BY <1>0, <2>2, <3>2, <3>5, NewRoot
      <4>2. Began(p)' = Began(p)
        BY <1>0, <3>1, <3>5 DEF Began
      <4> QED
        BY <1>0, <1>1, <3>1, <3>2, <3>3, <4>1, <4>2, GoesOn DEF Further
    <3> QED
      BY <3>4, <3>5
  <2> QED
    BY <1>5, <2>1, <2>2 DEF TxnExchange
<1>6. CASE TxnCheck(p, After[at])
  <2>1. CASE Goto(p, After[at]) /\ Exchanged(p) /\ UNCHANGED <<rec, condemned>>
    <3>1. ASSUME pc'[p] = After[at], txn'[p] = "none" PROVE Served(p)' /\ ~Bare(p)'
      BY <1>0, <2>1, <3>1
      DEF Served, Bare, After, Replacing, CreateSteps, CompleteSteps, ExecSteps, PublishSteps,
          Unmade, Unbuilt
    <3>2. ASSUME pc'[p] = After[at], txn'[p] = "none" PROVE Further(p)
      BY <1>0, <2>1, <3>2
      DEF Further, Began, Served, DirInv, Exchanged, After, Replacing, CreateSteps, CompleteSteps,
          PublishSteps, Creating
    <3> QED
      <4>1. pc'[p] = After[at] /\ txn'[p] = "none"
        BY <1>0, <2>1, GotoMoves DEF Moved
      <4> QED
        BY <1>0, <1>1, <2>1, <3>1, <3>2, <4>1, GoesTo
  <2> QED
    BY <1>2, <1>6, <2>1 DEF TxnCheck, Exchanged
<1> QED
  BY <1>4, <1>5, <1>6 DEF ReplaceRecord


(***************************************************************************)
(* create.                                                                 *)
(***************************************************************************)
\* A create delivers: a tree that is whole, or that has been condemned since.
LEMMA CreatedPromise ==
  ASSUME IInv, ServedInv, NEW p \in Procs, Frame(p), pc[p] \in {"lookup", "deliver"},
         Exit(p, "ok"), NEW i \in Roots,
         UNCHANGED <<rec, root, tomb, content, child, op, condemned>>,
         delivered' = delivered \cup {i}, dir[p] \in {i, NoRoot},
         content[i] = "complete" \/ (dir[p] = i /\ i \in condemned),
         (rec # NoRecord /\ rec.root = i) \/ cap[p].root = i
  PROVE  ServedInv' /\ Advances
<1>0. /\ TypeOK /\ PlaceInv /\ BareInv /\ op[p] = "create" /\ pc'[p] = "idle" /\ "ok" \in Results
      /\ pc[p] # "idle"
  BY ExitMoves, LocationFacts DEF IInv, ServedInv, Served, Moved, CreateSteps
<1>1. ASSUME NEW q \in Procs
      PROVE  Served(q)' /\ (Bare(q)' => Bare(q))
  <2>1. CASE q = p
    BY <1>0, <2>1, ExitServed
  <2>2. CASE q # p
    <3>1. /\ pc'[q] = pc[q] /\ op'[q] = op[q] /\ txn'[q] = txn[q] /\ dir'[q] = dir[q]
          /\ fresh'[q] => fresh[q]
      BY <2>2 DEF Frame, Others
    <3>2. pc[q] \notin Unbuilt
      BY <2>2, HomeExcludes DEF CreateSteps, Unbuilt
    <3> QED
      BY <3>1, <3>2 DEF ServedInv, Served, Bare, Exchanged
  <2> QED
    BY <2>1, <2>2
<1>2. rec = NoRecord \/ (\E q \in Procs : Bare(q)) => root # i
  <2>1. rec = NoRecord \/ (\E q \in Procs : Bare(q)) => Quiet
    BY UsersOf DEF IInv, DiskInv
  <2> QED
    BY <2>1, RootAssumption, RecordFacts DEF Quiet
<1>3. ServedInv'
  BY <1>0, <1>1, <1>2 DEF ServedInv, PlaceInv, BareInv
<1>4. /\ Job[p] = "create" /\ Job' = [Job EXCEPT ![p] = "none"] /\ Own' = [Own EXCEPT ![p] = NoRoot]
      /\ Progress' = [Progress EXCEPT ![p] = "nothing"] /\ Answer' = [Answer EXCEPT ![p] = "ok"]
      /\ Trees' = Trees
  BY <1>0, ExitShows, TreesMove DEF Alarms
<1>5. Own[p] = dir[p] /\ (content[i] = "complete" => Trees[i] = "whole")
  BY <1>0 DEF Own, Trees, TreeOf
<1>6. Promise!Created(p, i)
  BY <1>4, <1>5 DEF Promise!Created, Promise!Return, Promise!Did
<1> QED
  BY <1>3, <1>6 DEF Advances, Promise!Next

LEMMA LookupPromise ==
  ASSUME IInv, ServedInv, NEW p \in Procs, Lookup(p)
  PROVE  ServedInv' /\ Advances
<1>0. /\ TypeOK /\ Served(p) /\ Frame(p) /\ pc[p] = "lookup" /\ "prepare" \in Locations
      /\ UNCHANGED <<rec, root, tomb, content, child, op, dir, condemned>>
      /\ {"ok", "refused", "recovery", "error"} \subseteq Results
  BY CreateFrame, LookupMoves, LocationFacts DEF IInv, ServedInv, CreateStep, CreateSteps
<1>1. op[p] = "create" /\ dir[p] = NoRoot
  BY <1>0 DEF Served, CreateSteps, Unmade
<1>2. CASE Goto(p, "prepare") /\ delivered' = delivered
  <2>1. ASSUME pc'[p] = "prepare" PROVE Served(p)' /\ ~Bare(p)' /\ Began(p)' = Began(p)
    BY <1>0, <1>1, <2>1
    DEF Served, Bare, Began, CreateSteps, CompleteSteps, ExecSteps, PublishSteps, Unbuilt
  <2>2. pc'[p] = "prepare"
    BY <1>0, <1>2, GotoMoves DEF Moved
  <2> QED
    BY <1>0, <1>2, <2>1, <2>2, GoesTo, RootAssumption DEF Further
<1>3. ASSUME NEW code \in {"refused", "recovery", "error"}, Exit(p, code), delivered' = delivered
      PROVE  ServedInv' /\ Advances
  <2>1. Worth(p, code)
    BY <1>0, <1>1 DEF Worth, Alarms, Began, CompleteSteps
  <2> QED
    BY <1>0, <1>3, <2>1, Returns
<1>4. CASE Exit(p, "ok") /\ Loadable /\ delivered' = delivered \cup {rec.root}
  <2>1. rec.root \in Roots /\ content[rec.root] = "complete" /\ rec # NoRecord
    BY <1>0, <1>4, RecordKinds, RecordFacts DEF Loadable, TypeOK
  <2> QED
    BY <1>0, <1>1, <1>4, <2>1, CreatedPromise
<1> QED
  BY <1>2, <1>3, <1>4, LookupMoves

LEMMA DeliverPromise ==
  ASSUME IInv, ServedInv, NEW p \in Procs, Deliver(p)
  PROVE  ServedInv' /\ Advances
<1>1. /\ Frame(p) /\ pc[p] = "deliver" /\ Exit(p, "ok") /\ delivered' = delivered \cup {dir[p]}
      /\ UNCHANGED <<rec, root, tomb, content, child, op, condemned>>
  BY CreateFrame DEF CreateStep, Deliver, diskVars
<1>2. dir[p] \in Roots /\ cap[p].root = dir[p]
  BY <1>1 DEF IInv, ProcInv, DirInv, Creating
<1>3. content[dir[p]] = "complete" \/ dir[p] \in condemned
  BY <1>1 DEF IInv, ProcInv, TreeInv, Built
<1> QED
  BY <1>1, <1>2, <1>3, CreatedPromise


\* The steps of create that change no tree.
LEMMA PreparePromise ==
  ASSUME IInv, ServedInv, NEW p \in Procs, Prepare(p) \/ Link(p)
  PROVE  ServedInv' /\ Advances
<1>0. /\ TypeOK /\ Served(p) /\ TmpInv(p) /\ Frame(p) /\ pc[p] \in {"prepare", "link"}
      /\ {"link", "mkdir"} \subseteq Locations /\ "error" \in Results
      /\ UNCHANGED <<root, tomb, content, child, op, dir, delivered, condemned>>
  BY CreateFrame, LocationFacts
     DEF IInv, ProcInv, ServedInv, CreateStep, CreateSteps, Prepare, Link, diskVars, histVars
<1>1. op[p] = "create" /\ dir[p] = NoRoot
  BY <1>0 DEF Served, CreateSteps, Unmade
<1>2. rec' = rec \/ (rec = NoRecord /\ rec' = tmp[p] /\ tmp[p] = Record("Prepared", NoRoot))
  BY <1>0 DEF Prepare, Link, TmpInv
<1>3. ASSUME NEW to \in {"link", "mkdir"}, Goto(p, to), rec = NoRecord
      PROVE  ServedInv' /\ Advances
  <2>1. ASSUME pc'[p] = to PROVE Served(p)' /\ Began(p)' = Began(p)
    BY <1>0, <1>1, <2>1
    DEF Served, Began, CreateSteps, CompleteSteps, ExecSteps, PublishSteps, Unbuilt
  <2>2. pc'[p] = to
    BY <1>0, <1>3, GotoMoves DEF Moved
  <2> QED
    BY <1>0, <1>3, <2>1, <2>2, GoesTo DEF Further
<1>4. CASE Exit(p, "error") /\ rec' = rec
  BY <1>0, <1>4, Returns DEF Worth, Alarms
<1> QED
  BY <1>0, <1>1, <1>2, <1>3, <1>4 DEF Prepare, Link

LEMMA CommitPromise ==
  ASSUME IInv, ServedInv, NEW p \in Procs, Materializing(p) \/ CommitReady(p)
  PROVE  ServedInv' /\ Advances
<1>1. CASE Materializing(p)
  <2>1. pc[p] = "mat" => New(p) = Record("Materializing", dir[p])
    BY DEF New
  <2> QED
    BY <1>1, <2>1, ReplacePromise DEF Materializing, Replacing, After
<1>2. CASE ReplaceRecord(p, "ready", Record("Ready", dir[p]), "deliver")
  <2>1. pc[p] = "ready" => New(p) = Record("Ready", dir[p])
    BY DEF New
  <2> QED
    BY <1>2, <2>1, ReplacePromise DEF Replacing, After
<1>3. CASE Check(p, "recheck", fresh[p] /\ root = dir[p], "ready", "recovery")
  <2>1. "ready" \in Locations /\ "recovery" \in Results
    BY LocationFacts DEF CreateSteps
  <2>2. ASSUME pc[p] = "recheck", pc'[p] = "ready", Same(p)
        PROVE  Served(p)' /\ ~Bare(p)' /\ Began(p)' = Began(p)
    BY <2>2 DEF ServedInv, Served, Bare, Began, Same, CreateSteps, CompleteSteps, ExecSteps,
                PublishSteps, Unmade, Unbuilt
  <2> QED
    BY <1>3, <2>1, <2>2, Checks DEF Worth, Alarms, Further
<1> QED
  BY <1>1, <1>2, <1>3 DEF CommitReady

(***************************************************************************)
(* Steps that change a tree or the names.                                  *)
(***************************************************************************)
\* What is to be shown of them: that the new tree is at a name, and that no process is
\* disturbed that relies on one.
LEMMA ServedTree ==
  ASSUME IInv, ServedInv, NEW p \in Procs, Frame(p), UNCHANGED <<rec, delivered>>,
         PlaceInv', root' \notin delivered \/ root' = root,
         Bare(p)' => Bare(p) \/ root' \notin delivered,
         \A q \in Procs \ {p} :
           op[q] = "remove" /\ pc[q] \in {"discard", "tombstone"} /\ ~Exchanged(q)
             => root' = dir[q] /\ content'[dir[q]] = "complete",
         Served(p)'
  PROVE  ServedInv'
<1>1. ASSUME NEW q \in Procs \ {p}
      PROVE  Served(q)' /\ (Bare(q)' => Bare(q))
  <2>1. /\ pc'[q] = pc[q] /\ op'[q] = op[q] /\ txn'[q] = txn[q] /\ dir'[q] = dir[q]
        /\ fresh'[q] => fresh[q]
    BY DEF Frame, Others
  <2>2. Exchanged(q)' <=> Exchanged(q)
    BY <2>1 DEF Exchanged
  <2> QED
    BY <2>1, <2>2 DEF ServedInv, Served, Bare
<1>2. BareInv'
  BY <1>1 DEF ServedInv, BareInv
<1> QED
  BY <1>1, <1>2 DEF ServedInv

\* A removal that is about to condemn a tree is not where another one is at work.
LEMMA RemoverAlone ==
  ASSUME IInv, ServedInv, NEW p \in Procs, NEW q \in Procs \ {p},
         op[q] = "remove", pc[q] \in {"discard", "tombstone"}, ~Exchanged(q)
  PROVE  /\ root = dir[q] /\ content[dir[q]] = "complete" /\ tomb = NoRoot /\ dir[q] \in Roots
         /\ pc[p] \in Unbuilt \cup Leased => dir[p] # dir[q]
<1>1. root = dir[q] /\ content[dir[q]] = "complete"
  BY DEF ServedInv, Served
<1>2. dir[q] \in Roots /\ ex[dir[q]] = {q}
  BY LeasedAlone DEF IInv, ProcInv, HoldInv, Leased
<1>3. tomb = NoRoot
  BY <1>1, <1>2, RootAssumption DEF IInv, TombInv
<1>4. pc[p] \in Leased => dir[p] # dir[q]
  BY <1>2 DEF IInv, ProcInv, HoldInv
<1>5. pc[p] \in Unbuilt => dir[p] # dir[q]
  BY <1>1 DEF IInv, ProcInv, TreeInv
<1> QED
  BY <1>1, <1>2, <1>3, <1>4, <1>5


\* A step of a process removes entries of a tree, or the rest of it.
LEMMA BreakPromise ==
  ASSUME IInv, NEW p \in Procs, Frame(p), pc[p] # "idle", pc'[p] # "idle", dir[p] \in Roots,
         UNCHANGED <<child, op, dir, result, delivered, condemned>>,
         NEW c \in {"partial", "gone"}, content' = [content EXCEPT ![dir[p]] = c],
         content[dir[p]] \in Standing, \A q \in Procs : child[q] # dir[p],
         \/ op[p] = "create" /\ dir[p] \notin delivered
         \/ op[p] \in {"remove", "force", "gc"} /\ dir[p] \in condemned,
         Began(p)' = "changed"
  PROVE  Advances
<1>0. TypeOK /\ c \in Contents
  BY DEF IInv, Contents
<1>1. /\ Job[p] = op[p] /\ UNCHANGED <<Job, Own, Answer>>
      /\ Own[p] = (IF op[p] = "create" THEN dir[p] ELSE NoRoot)
      /\ Progress' = [Progress EXCEPT ![p] = "changed"]
  BY <1>0, StepShows
<1>2. Trees' = [Trees EXCEPT ![dir[p]] = TreeOf(c)] /\ TreeOf(c) \in {"broken", "gone"}
  BY <1>0, TreesMove DEF TreeOf
<1>3. Trees[dir[p]] \in {"building", "whole", "broken"}
  BY DEF Trees, TreeOf, Standing
<1>4. Promise!Break(p, dir[p])
  BY <1>1, <1>2, <1>3
  DEF Promise!Break, Promise!MayBreak, Promise!Live, Promise!Unused, Promise!Did
<1> QED
  BY <1>4 DEF Advances, Promise!Next

LEMMA MkdirPromise ==
  ASSUME IInv, ServedInv, NEW p \in Procs, Mkdir(p)
  PROVE  ServedInv' /\ Advances
<1>0. /\ TypeOK /\ Served(p) /\ Frame(p) /\ pc[p] = "mkdir" /\ "mat" \in Locations /\ PlaceInv
      /\ UNCHANGED <<rec, tomb, child, op, delivered, condemned>> /\ "error" \in Results
      /\ Bare(p) /\ tomb = NoRoot
  BY CreateFrame, UsersOf, LocationFacts
     DEF IInv, ServedInv, CreateStep, CreateSteps, Mkdir, histVars, Bare, Quiet
<1>1. op[p] = "create" /\ dir[p] = NoRoot
  BY <1>0 DEF Served, CreateSteps, Unmade
<1>2. ASSUME NEW i \in Roots, root = NoRoot, content[i] = "unused", root' = i,
             content' = [content EXCEPT ![i] = "building"], dir' = [dir EXCEPT ![p] = i],
             Goto(p, "mat")
      PROVE  ServedInv' /\ Advances
  <2>1. pc'[p] = "mat" /\ result' = result /\ dir'[p] = i
    BY <1>0, <1>2, GotoMoves DEF Moved, Goto, TypeOK
  <2>2. \A j \in Roots : content[j] \notin Standing
    BY <1>0, <1>2, RootAssumption DEF PlaceInv
  <2>3. i \notin delivered
    BY <1>2 DEF IInv, UnusedInv
  <2>4. ServedInv'
    <3>1. Served(p)'
      BY <1>0, <1>1, <2>1, <2>3
      DEF Served, CreateSteps, CompleteSteps, ExecSteps, PublishSteps, Unmade
    <3>2. PlaceInv'
      BY <1>0, <1>2, <2>2, RootAssumption DEF PlaceInv, Standing, TypeOK
    <3>3. \A q \in Procs \ {p} :
            ~(op[q] = "remove" /\ pc[q] \in {"discard", "tombstone"} /\ ~Exchanged(q))
      BY <1>2, RemoverAlone, RootAssumption
    <3> QED
      BY <1>0, <1>2, <2>3, <3>1, <3>2, <3>3, ServedTree
  <2>5. /\ Job[p] = "create" /\ UNCHANGED <<Job, Answer>> /\ Own[p] = NoRoot
        /\ Own' = [Own EXCEPT ![p] = i] /\ Progress' = [Progress EXCEPT ![p] = "changed"]
    <3>1. Began(p)' = "changed"
      BY <1>0, <1>1, <1>2, <2>1, RootAssumption DEF Began
    <3> QED
      BY <1>0, <1>1, <2>1, <3>1, StepShows
  <2>6. Trees' = [Trees EXCEPT ![i] = "building"]
    BY <1>0, <1>2, TreesMove DEF Contents, TreeOf
  <2>7. Trees[i] = "none" /\ \A j \in Roots : Trees[j] \notin {"building", "whole", "broken"}
    BY <1>0, <1>2, <2>2 DEF Trees, TreeOf, Standing, TypeOK, Contents
  <2>8. Promise!Make(p, i)
    BY <1>0, <2>5, <2>6, <2>7 DEF Promise!Make, Promise!Live, Promise!Did
  <2> QED
    BY <2>4, <2>8 DEF Advances, Promise!Next
<1>3. CASE Exit(p, "error") /\ UNCHANGED <<root, content, dir>>
  BY <1>0, <1>3, Returns DEF Worth, Alarms
<1> QED
  BY <1>2, <1>3 DEF Mkdir

LEMMA BuildPromise ==
  ASSUME IInv, ServedInv, NEW p \in Procs, Build(p)
  PROVE  ServedInv' /\ Advances
<1>0. /\ TypeOK /\ Served(p) /\ Frame(p) /\ pc[p] = "build" /\ PlaceInv /\ "recovery" \in Results
      /\ UNCHANGED <<rec, root, tomb, child, op, dir, delivered, condemned>>
      /\ {"recheck", "abort"} \subseteq Locations /\ dir[p] \in Roots
  BY CreateFrame, LocationFacts
     DEF IInv, ProcInv, DirInv, Creating, ServedInv, CreateStep, CreateSteps, Build, histVars
<1>1. op[p] = "create" /\ dir[p] # NoRoot
  BY <1>0, RootAssumption DEF Served, CreateSteps
<1>2. CASE /\ root = dir[p] /\ content[dir[p]] = "building"
           /\ content' = [content EXCEPT ![dir[p]] = "complete"] /\ Goto(p, "recheck")
  <2>1. pc'[p] = "recheck" /\ result' = result
    BY <1>0, <1>2, GotoMoves DEF Moved, Goto
  <2>2. ServedInv'
    <3>1. Served(p)' /\ ~Bare(p)'
      BY <1>0, <1>1, <2>1
      DEF Served, Bare, CreateSteps, CompleteSteps, ExecSteps, PublishSteps, Unmade, Unbuilt
    <3>2. PlaceInv'
      BY <1>0, <1>2 DEF PlaceInv, Standing, TypeOK
    <3>3. \A q \in Procs \ {p} :
            ~(op[q] = "remove" /\ pc[q] \in {"discard", "tombstone"} /\ ~Exchanged(q))
      BY <1>2, RemoverAlone
    <3> QED
      BY <1>0, <3>1, <3>2, <3>3, ServedTree
  <2>3. /\ Job[p] = "create" /\ UNCHANGED <<Job, Own, Answer, Progress>> /\ Own[p] = dir[p]
    <3>1. Began(p) = "changed" /\ Began(p)' = "changed"
      BY <1>0, <1>1, <2>1 DEF Began
    <3> QED
      BY <1>0, <1>1, <2>1, <3>1, StepShows
  <2>4. Trees' = [Trees EXCEPT ![dir[p]] = "whole"] /\ Trees[dir[p]] = "building"
    BY <1>0, <1>2, TreesMove DEF Contents, TreeOf, Trees
  <2>5. Promise!Complete(p)
    BY <1>1, <1>0, <2>3, <2>4 DEF Promise!Complete
  <2> QED
    BY <2>2, <2>5 DEF Advances, Promise!Next
<1>3. CASE Goto(p, "abort") /\ UNCHANGED content
  <2>1. ASSUME pc'[p] = "abort" PROVE Served(p)' /\ ~Bare(p)' /\ Began(p)' = Began(p)
    BY <1>0, <1>1, <2>1
    DEF Served, Bare, Began, CreateSteps, CompleteSteps, ExecSteps, PublishSteps, Unmade, Unbuilt
  <2>2. pc'[p] = "abort" /\ result' = result
    BY <1>0, <1>3, GotoMoves DEF Moved, Goto
  <2>3. Served(p)' /\ ~Bare(p)' /\ Began(p)' = Began(p)
    BY <2>1, <2>2
  <2> QED
    BY <1>0, <1>3, <2>2, <2>3, GoesOn, RecordFacts DEF Further
<1>4. CASE Exit(p, "recovery") /\ UNCHANGED content
  BY <1>0, <1>4, Returns DEF Worth, Alarms
<1> QED
  BY <1>2, <1>3, <1>4 DEF Build


\* The record goes: whoever removes it has seen to it that nothing delivered is left.
LEMMA DropPromise ==
  ASSUME IInv, ServedInv, NEW p \in Procs, NEW at, NEW code \in Results, DropRecord(p, at, code),
         at # "idle", pc[p] = at /\ fresh[p] => Bare(p),
         code \in Alarms \/ (code = "ok" /\ op[p] \in {"remove", "force", "gc"})
  PROVE  ServedInv' /\ Advances
<1>0. /\ TypeOK /\ Frame(p) /\ pc[p] = at /\ "recovery" \in Results \cap Alarms
      /\ UNCHANGED <<root, tomb, content, child, op, delivered, condemned>>
  BY DropFrame, LocationFacts DEF IInv, DropRecord, diskVars, histVars, Alarms
<1>1. CASE fresh[p]
  <2>1. tomb = NoRoot /\ root \notin delivered
    BY <1>0, <1>1, UsersOf DEF Quiet, ServedInv, BareInv
  <2>2. Worth(p, code)
    BY <2>1 DEF Worth
  <2> QED
    BY <1>0, <1>1, <2>2, Returns DEF DropRecord
<1>2. CASE ~fresh[p]
  BY <1>0, <1>2, Returns DEF DropRecord, Worth
<1> QED
  BY <1>1, <1>2

LEMMA AbortPromise ==
  ASSUME IInv, ServedInv, NEW p \in Procs, AbortCreate(p)
  PROVE  ServedInv' /\ Advances
<1>0. /\ TypeOK /\ Served(p) /\ Frame(p) /\ PlaceInv /\ TombInv /\ TreeInv(p) /\ pc[p] \in Aborting
      /\ {"recovery", "error"} \subseteq Results \cap Alarms
      /\ {"abort_tree", "abort_rest", "abort_record"} \subseteq Locations
      /\ dir[p] \in Roots
  BY CreateFrame, LocationFacts
     DEF IInv, ProcInv, DirInv, Creating, ServedInv, CreateStep, CreateSteps, Aborting, Alarms,
         AbortCreate, Check, ClearTree, DropRecord
<1>1. /\ op[p] = "create" /\ dir[p] # NoRoot
      /\ pc[p] \in Unbuilt => content[dir[p]] # "complete" /\ dir[p] \notin delivered
  BY <1>0, RootAssumption DEF Served, CreateSteps, Aborting, TreeInv
<1>2. CASE Check(p, "abort", fresh[p], "abort_tree", "recovery")
  <2>1. ASSUME pc[p] = "abort", pc'[p] = "abort_tree", Same(p)
        PROVE  Served(p)' /\ ~Bare(p)' /\ Began(p)' = Began(p)
    BY <1>0, <1>1, <2>1
    DEF Served, Bare, Began, Same, CreateSteps, CompleteSteps, ExecSteps, PublishSteps, Unmade,
        Unbuilt
  <2> QED
    BY <1>0, <1>2, <2>1, Checks DEF Worth, Further
<1>3. CASE DropRecord(p, "abort_record", "error")
  BY <1>0, <1>3, DropPromise DEF Bare
<1>4. ASSUME NEW to \in {"abort_rest", "abort_record"}, NEW c \in {"partial", "gone"}, Goto(p, to),
             root = dir[p], content' = [content EXCEPT ![dir[p]] = c], pc[p] \in Unbuilt,
             UNCHANGED <<rec, tomb, child, op, dir, delivered, condemned>>,
             (c = "partial" /\ root' = root /\ to = "abort_rest") \/ (c = "gone" /\ root' = NoRoot)
      PROVE  ServedInv' /\ Advances
  <2>1. pc'[p] = to /\ result' = result
    BY <1>0, <1>4, GotoMoves DEF Moved, Goto
  <2>2. content[dir[p]] \in Standing /\ tomb = NoRoot
    BY <1>0, <1>1, <1>4 DEF PlaceInv, TombInv
  <2>3. \A q \in Procs : child[q] # dir[p]
    BY <1>1, <1>4, UsersOf
  <2>4. Began(p)' = "changed"
    BY <1>1, <1>4 DEF Began
  <2>5. Served(p)' /\ (Bare(p)' => to = "abort_record")
    BY <1>0, <1>1, <1>4, <2>1
    DEF Served, Bare, CreateSteps, CompleteSteps, ExecSteps, PublishSteps, Unmade, Unbuilt
  <2>6. PlaceInv'
    BY <1>0, <1>4, <2>2, RootAssumption DEF PlaceInv, Standing, TypeOK
  <2>7. \A q \in Procs \ {p} :
          ~(op[q] = "remove" /\ pc[q] \in {"discard", "tombstone"} /\ ~Exchanged(q))
    BY <1>4, RemoverAlone
  <2>8. NoRoot \notin delivered
    BY <1>0, RootAssumption DEF TypeOK
  <2>9. ServedInv'
    BY <1>0, <1>4, <2>5, <2>6, <2>7, <2>8, ServedTree
  <2>10. pc[p] # "idle" /\ pc'[p] # "idle"
    BY <1>4, <2>1 DEF Unbuilt
  <2>11. Advances
    BY <1>0, <1>1, <1>4, <2>1, <2>2, <2>3, <2>4, <2>10, BreakPromise
  <2> QED
    BY <2>9, <2>11
<1>5. CASE ClearTree(p, "abort_tree", root = dir[p], "abort_rest")
  <2>1. pc[p] = "abort_tree" /\ UNCHANGED <<rec, root, tomb, child, op, dir, delivered, condemned>>
    BY <1>5 DEF ClearTree, histVars
  <2>2. CASE root = dir[p]
    BY <1>4, <1>5, <2>1, <2>2 DEF ClearTree, Unbuilt
  <2>3. CASE root # dir[p]
    BY <1>0, <1>5, <2>1, <2>3, Returns DEF ClearTree, Worth
  <2> QED
    BY <2>2, <2>3
<1>6. CASE /\ pc[p] = "abort_rest"
           /\ UNCHANGED <<rec, tomb, child, op, dir, delivered, condemned>>
           /\ IF root = dir[p]
                THEN /\ content' = [content EXCEPT ![dir[p]] = "gone"]
                     /\ root' = NoRoot
                     /\ Goto(p, "abort_record")
                ELSE Exit(p, "recovery") /\ UNCHANGED <<content, root>>
  <2>1. CASE root = dir[p]
    BY <1>4, <1>6, <2>1 DEF Unbuilt
  <2>2. CASE root # dir[p]
    BY <1>0, <1>6, <2>2, Returns DEF Worth
  <2> QED
    BY <2>1, <2>2
<1> QED
  BY <1>2, <1>3, <1>5, <1>6 DEF AbortCreate, histVars

LEMMA CreatePromise ==
  ASSUME IInv, ServedInv, NEW p \in Procs, CreateStep(p)
  PROVE  ServedInv' /\ Advances
BY LookupPromise, PreparePromise, MkdirPromise, CommitPromise, BuildPromise, DeliverPromise,
   AbortPromise
   DEF CreateStep


(***************************************************************************)
(* remove, and what it shares with exec, publish and gc.                   *)
(***************************************************************************)
LEMMA LoadPromise ==
  ASSUME IInv, ServedInv, NEW p \in Procs,
         LoadForRemove(p) \/ LoadForExec(p) \/ LoadForPublish(p)
  PROVE  ServedInv' /\ Advances
<1>0. /\ TypeOK /\ Frame(p) /\ pc[p] = "load" /\ op[p] \in {"remove", "force", "exec", "publish"}
      /\ UNCHANGED <<rec, root, tomb, content, child, op, delivered, condemned>>
      /\ {"ok", "refused", "error", "recovery"} \subseteq Results
      /\ {"inspect", "lease", "remove_prepared", "share"} \subseteq Locations
      /\ {"error", "recovery"} \subseteq Alarms
      /\ op[p] = "exec" <=> LoadForExec(p)
  BY LoadFrame, LocationFacts
     DEF IInv, LoadForRemove, LoadForExec, LoadForPublish, LoadStep, diskVars, histVars, Alarms,
         CompleteSteps, RemoveSteps, ExecSteps
<1>1. Began(p) = "nothing" /\ NoRoot \notin delivered
  BY <1>0, RootAssumption DEF Began, CompleteSteps, TypeOK
<1>2. \/ \E to \in {"inspect", "lease", "remove_prepared", "share"} :
           /\ Loads(p, to)
           /\ to = "share" <=> op[p] = "exec"
           /\ to \in {"inspect", "remove_prepared"} => op[p] \in {"remove", "force"}
           /\ to = "remove_prepared" => root = NoRoot
      \/ \E code \in {"ok", "refused", "error", "recovery"} :
           /\ Rejects(p, code)
           /\ code = "ok" => op[p] \in {"remove", "force"} /\ root = NoRoot /\ tomb = NoRoot
  BY <1>0 DEF LoadForRemove, LoadForExec, LoadForPublish, LoadStep
<1>3. ASSUME NEW to \in {"inspect", "lease", "remove_prepared", "share"}, Loads(p, to),
             to = "share" <=> op[p] = "exec",
             to \in {"inspect", "remove_prepared"} => op[p] \in {"remove", "force"},
             to = "remove_prepared" => root = NoRoot
      PROVE  ServedInv' /\ Advances
  <2>1. pc'[p] = to /\ txn'[p] = "none" /\ result' = result
    BY <1>0, <1>3, GotoMoves DEF Loads, Moved, Goto
  <2>2. Served(p)' /\ (Bare(p)' => root = NoRoot)
    BY <1>0, <1>3, <2>1
    DEF Served, Bare, CreateSteps, CompleteSteps, ExecSteps, PublishSteps, Unmade, Unbuilt
  <2>3. Further(p)
    BY <1>0, <1>1, <1>3, <2>1 DEF Further, Began, CompleteSteps
  <2> QED
    BY <1>0, <2>1, <2>2, <2>3, GoesOn
<1>4. ASSUME NEW code \in {"ok", "refused", "error", "recovery"}, Rejects(p, code),
             code = "ok" => op[p] \in {"remove", "force"} /\ root = NoRoot /\ tomb = NoRoot
      PROVE  ServedInv' /\ Advances
  <2>1. Worth(p, code)
    BY <1>0, <1>1, <1>4 DEF Worth
  <2> QED
    BY <1>0, <1>4, <2>1, Returns DEF Rejects
<1> QED
  BY <1>2, <1>3, <1>4

LEMMA LeasePromise ==
  ASSUME IInv, ServedInv, NEW p \in Procs,
         TryLease(p, "lease", "revalidate") \/ TryLease(p, "tomb_lease", "tomb_revalidate")
  PROVE  ServedInv' /\ Advances
<1>0. /\ TypeOK /\ CapInv(p) /\ Served(p) /\ pc[p] \in {"lease", "tomb_lease"} /\ "busy" \in Results
      /\ {"revalidate", "tomb_revalidate"} \subseteq Locations
      /\ UNCHANGED <<rec, root, tomb, content, child, op, dir, delivered, condemned>>
  BY LocationFacts DEF IInv, ProcInv, ServedInv, TryLease, RemoveSteps, CompleteSteps, diskVars,
                       histVars
<1>1. Frame(p)
  BY <1>0, TryLeaseFrame
<1>2. op[p] # "create"
  BY <1>0 DEF CapInv, Served, CompleteSteps
<1>3. CASE /\ pc' = [pc EXCEPT ![p] = IF pc[p] = "lease" THEN "revalidate" ELSE "tomb_revalidate"]
           /\ result' = result
  <2>1. pc'[p] = IF pc[p] = "lease" THEN "revalidate" ELSE "tomb_revalidate"
    BY <1>0, <1>3 DEF TypeOK
  <2>2. Served(p)' /\ ~Bare(p)' /\ Began(p)' = Began(p)
    BY <1>0, <1>2, <2>1
    DEF Served, Bare, Began, CreateSteps, CompleteSteps, ExecSteps, PublishSteps, Unmade, Unbuilt
  <2> QED
    BY <1>0, <1>1, <1>3, <2>1, <2>2, GoesOn, RecordFacts DEF Further
<1>4. CASE Exit(p, "busy")
  <2>1. Worth(p, "busy")
    BY <1>0, <1>2 DEF Worth, Began
  <2> QED
    BY <1>0, <1>1, <1>4, <2>1, Returns
<1> QED
  BY <1>3, <1>4 DEF TryLease

LEMMA RevalidatePromise ==
  ASSUME IInv, ServedInv, NEW p \in Procs, Revalidate(p) \/ DiscardCheck(p)
  PROVE  ServedInv' /\ Advances
<1>0. /\ TypeOK /\ CapInv(p) /\ DirInv(p) /\ Served(p)
      /\ {"discard", "tombstone", "journal", "settle", "idle"} \subseteq Locations
      /\ {"ok", "refused", "recovery"} \subseteq Results
  BY LocationFacts DEF IInv, ProcInv, ServedInv, RemoveSteps, PublishSteps
<1>1. CASE DiscardCheck(p)
  <2>1. PICK ok : Check(p, "discard", ok, "tombstone", "refused")
    BY <1>1 DEF DiscardCheck
  <2>2. pc[p] = "discard" /\ op[p] = "remove"
    BY <1>0, <2>1 DEF Check, CapInv
  <2>3. Worth(p, "refused")
    BY <2>2 DEF Worth, Began, CompleteSteps
  <2>4. ASSUME pc'[p] = "tombstone", txn'[p] = "none", Same(p)
        PROVE  Served(p)' /\ ~Bare(p)' /\ Began(p)' = Began(p)
    <3>1. root = dir[p] /\ content[dir[p]] = "complete"
      BY <1>0, <2>2, RemoverAlone DEF Served, IInv, ProcInv, TmpInv, Exchanged, Replacing
    <3> QED
      BY <1>0, <2>2, <2>4, <3>1
      DEF Served, Bare, Began, Same, CreateSteps, CompleteSteps, ExecSteps, PublishSteps, Unmade,
          Unbuilt
  <2> QED
    BY <1>0, <2>1, <2>3, <2>4, Checks DEF Further
<1>2. CASE Revalidate(p)
  <2>1. pc[p] = "revalidate"
    BY <1>2 DEF Revalidate, Check
  <2>2. op[p] = "force" \/ (op[p] \in {"remove", "publish", "gc"} /\ cap[p].st = "Ready")
    BY <1>0, <2>1 DEF CapInv
  <2>3. CASE op[p] = "gc"
    <3>1. PICK code \in {"ok", "recovery"} : Check(p, "revalidate", FALSE, "idle", code)
      BY <1>2, <2>3 DEF Revalidate
    <3>2. Worth(p, code)
      BY <2>3 DEF Worth, Alarms
    <3> QED
      BY <1>0, <3>1, <3>2, Checks
  <2>4. CASE op[p] # "gc"
    <3> DEFINE ok == fresh[p] /\ (cap[p].st = "Ready" => Loadable)
    <3>1. Check(p, "revalidate", ok, AfterLease(p), "recovery")
      BY <1>2, <2>4 DEF Revalidate
    <3>2. /\ op[p] = "publish" => AfterLease(p) \in {"settle", "journal"}
          /\ op[p] = "remove" => AfterLease(p) = "discard"
          /\ op[p] = "force" => AfterLease(p) = "tombstone"
      BY DEF AfterLease
    <3>3. ok /\ op[p] = "remove" => root = dir[p] /\ content[dir[p]] = "complete"
      BY <1>0, <2>1, <2>2 DEF CapInv, DirInv, Leased, Loadable
    <3>4. ASSUME ok, pc'[p] = AfterLease(p), txn'[p] = "none", Same(p)
          PROVE  Served(p)' /\ ~Bare(p)' /\ Further(p)
      <4>1. UNCHANGED <<op, dir, root, content>> /\ Began(p) = "nothing"
        BY <2>1, <2>2 , <3>4 DEF Same, Began, CompleteSteps
      <4>2. pc'[p] \in {"settle", "journal", "discard", "tombstone"}
        BY <2>2, <2>4, <3>2, <3>4
      <4>3. Served(p)' /\ ~Bare(p)'
        BY <2>2, <2>4, <3>2, <3>3, <3>4, <4>1, <4>2
        DEF Served, Bare, CreateSteps, CompleteSteps, ExecSteps, PublishSteps, Unmade, Unbuilt
      <4>4. Further(p)
        BY <2>2, <2>4, <3>2, <3>4, <4>1, <4>2 DEF Further, Began, CompleteSteps
      <4> QED
        BY <4>3, <4>4
    <3>5. AfterLease(p) \in Locations /\ AfterLease(p) # "idle"
      BY <1>0, <2>2, <2>4, <3>2
    <3>6. Worth(p, "recovery")
      BY DEF Worth, Alarms
    <3> HIDE DEF ok
    <3> QED
      BY <1>0, <3>1, <3>4, <3>5, <3>6, Checks
  <2> QED
    BY <2>3, <2>4
<1> QED
  BY <1>1, <1>2

LEMMA TombstonePromise ==
  ASSUME IInv, ServedInv, NEW p \in Procs, TransitionTombstone(p) \/ RemovePrepared(p)
  PROVE  ServedInv' /\ Advances
<1>1. CASE ReplaceRecord(p, "tombstone", Record("Tombstoned", cap[p].root), "release")
  <2>1. pc[p] = "tombstone" => New(p) = Record("Tombstoned", cap[p].root)
    BY DEF New
  <2> QED
    BY <1>1, <2>1, ReplacePromise DEF Replacing, After
<1>2. CASE /\ pc[p] = "release" /\ pc' = [pc EXCEPT ![p] = "inspect"]
           /\ UNCHANGED <<rec, diskVars, child, op, dir, result, histVars>> /\ TransitionTombstone(p)
  <2>1. Frame(p) /\ pc'[p] = "inspect" /\ op[p] \in {"remove", "force"}
    BY <1>2, RemoveFrame DEF RemoveStep, IInv, TypeOK, ServedInv, Served
  <2>2. Served(p)' /\ ~Bare(p)' /\ Began(p)' = Began(p)
    BY <1>2, <2>1 DEF Served, Bare, Began, CreateSteps, CompleteSteps, ExecSteps, PublishSteps,
                      Unmade, Unbuilt
  <2> QED
    BY <1>2, <2>1, <2>2, GoesOn DEF diskVars, histVars, Further
<1>3. CASE RemovePrepared(p)
  <2>1. pc[p] = "remove_prepared" => op[p] \in {"remove", "force"}
    BY DEF ServedInv, Served
  <2>2. pc[p] = "remove_prepared"
    BY <1>3 DEF RemovePrepared, DropRecord
  <2> QED
    BY <1>3, <2>1, <2>2, DropPromise, LocationFacts DEF RemovePrepared, Bare
<1> QED
  BY <1>1, <1>2, <1>3 DEF TransitionTombstone


LEMMA CompletePromise ==
  ASSUME IInv, ServedInv, NEW p \in Procs, CompleteTombstone(p)
  PROVE  ServedInv' /\ Advances
<1>0. /\ TypeOK /\ Served(p) /\ Frame(p) /\ PlaceInv /\ TombInv
      /\ {"recovery", "ok"} \subseteq Results /\ "recovery" \in Alarms
      /\ {"tomb_lease", "promote", "tomb_recheck", "delete", "delete_rest", "drop_record"}
           \subseteq Locations
      /\ NoRoot \notin delivered
  BY RemoveFrame, LocationFacts, RootAssumption
     DEF IInv, TypeOK, ServedInv, RemoveStep, CompleteSteps, Alarms
<1>1. pc[p] \in CompleteSteps => op[p] \in {"remove", "force", "gc"}
  BY <1>0 DEF Served
<1>2. CASE TryLease(p, "tomb_lease", "tomb_revalidate")
  BY <1>2, LeasePromise
<1>3. CASE DropRecord(p, "drop_record", "ok")
  BY <1>0, <1>1, <1>3, DropPromise DEF DropRecord, Bare, CompleteSteps
<1>4. ASSUME NEW at, NEW to, Check(p, at, fresh[p], to, "recovery"),
             (at = "tomb_revalidate" /\ to = "promote") \/ (at = "tomb_recheck" /\ to = "delete")
      PROVE  ServedInv' /\ Advances
  <2>1. ASSUME pc[p] = at, pc'[p] = to, Same(p)
        PROVE  Served(p)' /\ ~Bare(p)' /\ Began(p)' = Began(p)
    BY <1>1, <1>4, <2>1 DEF Served, Bare, Began, Same, CreateSteps, CompleteSteps, ExecSteps,
                            PublishSteps, Unmade, Unbuilt
  <2> QED
    BY <1>0, <1>4, <2>1, Checks DEF Worth, Further
\* The process goes on, or gives up, without a change to any tree.
<1>5. ASSUME NEW to \in {"tomb_lease", "drop_record", "tomb_recheck"}, Goto(p, to),
             pc[p] \in {"inspect", "promote"},
             UNCHANGED <<rec, root, tomb, content, child, op, delivered, condemned>>,
             to = "drop_record" => root = NoRoot
      PROVE  ServedInv' /\ Advances
  <2>1. pc'[p] = to /\ result' = result /\ op[p] \in {"remove", "force", "gc"}
    BY <1>0, <1>1, <1>5, GotoMoves DEF Moved, Goto, CompleteSteps
  <2>2. Served(p)' /\ (Bare(p)' => root = NoRoot)
    BY <1>5, <2>1
    DEF Served, Bare, CreateSteps, CompleteSteps, ExecSteps, PublishSteps, Unmade, Unbuilt
  <2>3. Further(p)
    BY <1>5, <2>1 DEF Further, Began, CompleteSteps
  <2> QED
    BY <1>0, <1>5, <2>1, <2>2, <2>3, GoesOn
<1>6. ASSUME Exit(p, "recovery"), pc[p] # "idle",
             UNCHANGED <<rec, root, tomb, content, child, op, delivered, condemned>>
      PROVE  ServedInv' /\ Advances
  BY <1>0, <1>6, Returns DEF Worth
<1>7. CASE Inspect(p)
  BY <1>5, <1>6, <1>7 DEF Inspect, diskVars, histVars
<1>8. CASE Promote(p)
  <2>1. /\ pc[p] = "promote" /\ dir[p] \in Roots /\ op[p] \in {"remove", "force", "gc"}
        /\ UNCHANGED <<rec, content, child, op, dir, delivered, condemned>>
    BY <1>1, <1>8, TombHolder DEF Promote, histVars, CompleteSteps
  <2>2. CASE AtRoot(dir[p]) /\ root' = NoRoot /\ tomb' = dir[p] /\ Goto(p, "tomb_recheck")
    <3>1. pc'[p] = "tomb_recheck" /\ result' = result
      BY <1>0, <2>2, GotoMoves DEF Moved, Goto
    <3>2. Served(p)' /\ ~Bare(p)' /\ Began(p)' = Began(p)
      BY <2>1, <3>1 DEF Served, Bare, Began, CreateSteps, CompleteSteps, ExecSteps, PublishSteps,
                        Unmade, Unbuilt
    <3>3. PlaceInv'
      BY <1>0, <2>1, <2>2 DEF PlaceInv, AtRoot
    <3>4. \A q \in Procs \ {p} :
            ~(op[q] = "remove" /\ pc[q] \in {"discard", "tombstone"} /\ ~Exchanged(q))
      BY <2>1, <2>2, RemoverAlone DEF AtRoot, Leased
    <3>5. ServedInv'
      BY <1>0, <2>1, <2>2, <3>2, <3>3, <3>4, ServedTree
    <3>6. UNCHANGED <<Job, Own, Answer, Progress, Trees>>
      BY <1>0, <2>1, <3>1, <3>2, StepShows, TreesMove
    <3> QED
      BY <2>1, <3>5, <3>6 DEF Advances, Promise!vars
  <2>3. CASE Goto(p, "tomb_recheck") /\ UNCHANGED <<root, tomb>>
    BY <1>5, <2>1, <2>3
  <2>4. CASE Exit(p, "recovery") /\ UNCHANGED <<root, tomb>>
    BY <1>6, <2>1, <2>4
  <2> QED
    BY <1>8, <2>2, <2>3, <2>4 DEF Promote
<1>9. ASSUME NEW to \in {"delete_rest", "drop_record"}, NEW c \in {"partial", "gone"}, Goto(p, to),
             tomb = dir[p], content' = [content EXCEPT ![dir[p]] = c],
             pc[p] \in {"delete", "delete_rest"},
             UNCHANGED <<rec, root, child, op, dir, delivered, condemned>>,
             (c = "partial" /\ tomb' = tomb /\ to = "delete_rest") \/ (c = "gone" /\ tomb' = NoRoot)
      PROVE  ServedInv' /\ Advances
  <2>1. pc'[p] = to /\ result' = result /\ pc[p] # "idle" /\ to # "idle"
    BY <1>0, <1>9, GotoMoves DEF Moved, Goto
  <2>2. /\ dir[p] \in Roots /\ dir[p] \in condemned /\ root = NoRoot
        /\ op[p] \in {"remove", "force", "gc"} /\ content[dir[p]] \in Standing
        /\ \A q \in Procs : child[q] # dir[p]
    BY <1>0, <1>1, <1>9, TombHolder, LeasedAlone, RootAssumption
       DEF TombInv, PlaceInv, CompleteSteps
  <2>3. Served(p)' /\ Began(p)' = "changed"
    BY <1>9, <2>1, <2>2 DEF Served, Began, CreateSteps, CompleteSteps, ExecSteps, PublishSteps,
                            Unmade, Unbuilt
  <2>4. PlaceInv'
    BY <1>0, <1>9, <2>2, RootAssumption DEF PlaceInv, Standing, TypeOK
  <2>5. \A q \in Procs \ {p} :
          ~(op[q] = "remove" /\ pc[q] \in {"discard", "tombstone"} /\ ~Exchanged(q))
    BY <1>9, <2>2, RemoverAlone, RootAssumption
  <2>6. ServedInv'
    BY <1>0, <1>9, <2>2, <2>3, <2>4, <2>5, ServedTree
  <2>7. Advances
    BY <1>0, <1>9, <2>1, <2>2, <2>3, BreakPromise
  <2> QED
    BY <2>6, <2>7
<1>10. CASE ClearTree(p, "delete", tomb = dir[p], "delete_rest")
  <2>1. pc[p] = "delete" /\ UNCHANGED <<rec, root, tomb, child, op, dir, delivered, condemned>>
    BY <1>10 DEF ClearTree, histVars
  <2>2. CASE tomb = dir[p]
    BY <1>9, <1>10, <2>1, <2>2 DEF ClearTree
  <2>3. CASE tomb # dir[p]
    BY <1>6, <1>10, <2>1, <2>3 DEF ClearTree
  <2> QED
    BY <2>2, <2>3
<1>11. CASE DeleteRest(p)
  <2>1. pc[p] = "delete_rest" /\ UNCHANGED <<rec, root, child, op, dir, delivered, condemned>>
    BY <1>11 DEF DeleteRest, histVars
  <2>2. CASE tomb = dir[p]
    BY <1>9, <1>11, <2>1, <2>2 DEF DeleteRest
  <2>3. CASE tomb # dir[p]
    BY <1>6, <1>11, <2>1, <2>3 DEF DeleteRest
  <2> QED
    BY <2>2, <2>3
<1> QED
  BY <1>2, <1>3, <1>4, <1>7, <1>8, <1>10, <1>11 DEF CompleteTombstone


(***************************************************************************)
(* exec, publish and gc.                                                   *)
(***************************************************************************)
LEMMA SpawnPromise ==
  ASSUME IInv, ServedInv, NEW p \in Procs, Spawn(p)
  PROVE  ServedInv' /\ Advances
<1>0. /\ TypeOK /\ Served(p) /\ Frame(p) /\ pc[p] = "spawn" /\ "wait" \in Locations
      /\ child' = [child EXCEPT ![p] = dir[p]] /\ Goto(p, "wait") /\ HoldInv(p)
      /\ UNCHANGED <<rec, root, tomb, content, op, dir, delivered, condemned>>
  BY OtherFrame, LocationFacts
     DEF IInv, ProcInv, ServedInv, ExecStep, ExecSteps, Spawn, diskVars, histVars
<1>1. /\ op[p] = "exec" /\ child[p] = NoRoot /\ dir[p] \in Roots /\ content[dir[p]] = "complete"
  BY <1>0, UsersOf DEF Served, HoldInv, ExecSteps
<1>2. pc'[p] = "wait" /\ result' = result
  BY <1>0, GotoMoves DEF Moved, Goto
<1>3. Served(p)' /\ ~Bare(p)' /\ Began(p)' = "changed"
  BY <1>0, <1>1, <1>2
  DEF Served, Bare, Began, CreateSteps, CompleteSteps, ExecSteps, PublishSteps, Unmade, Unbuilt
<1>4. ServedInv'
  BY <1>0, <1>3, RecordFacts, ServedCalm
<1>5. /\ Job[p] = "exec" /\ UNCHANGED <<Job, Own, Answer, Trees>>
      /\ Progress' = [Progress EXCEPT ![p] = "changed"]
  BY <1>0, <1>1, <1>2, <1>3, StepShows, TreesMove
<1>6. Trees[dir[p]] = "whole"
  BY <1>1 DEF Trees, TreeOf
<1>7. Promise!Enter(p, dir[p])
  BY <1>0, <1>1, <1>5, <1>6 DEF Promise!Enter, Promise!Did, Promise!trees
<1> QED
  BY <1>1, <1>4, <1>7 DEF Advances, Promise!Next

LEMMA ExecPromise ==
  ASSUME IInv, ServedInv, NEW p \in Procs, ExecStep(p)
  PROVE  ServedInv' /\ Advances
<1>0. /\ Served(p) /\ {"spawn", "idle"} \subseteq Locations /\ {"ok", "recovery"} \subseteq Results
  BY LocationFacts DEF ServedInv, ExecSteps
<1>1. CASE ShareRevalidate(p)
  <2>1. ASSUME pc[p] = "share_revalidate", pc'[p] = "spawn", Same(p)
        PROVE  Served(p)' /\ ~Bare(p)' /\ Began(p)' = Began(p)
    BY <1>0, <2>1 DEF Served, Bare, Began, Same, CreateSteps, CompleteSteps, ExecSteps,
                      PublishSteps, Unmade, Unbuilt
  <2> QED
    BY <1>0, <1>1, <2>1, Checks DEF ShareRevalidate, Worth, Alarms, Further
<1>2. CASE Wait(p)
  <2>1. pc[p] = "wait" /\ child[p] = NoRoot /\ op[p] = "exec"
    BY <1>0, <1>2 DEF Wait, Check, Served, ExecSteps
  <2>2. Worth(p, "ok")
    BY <2>1 DEF Worth, Began
  <2> QED
    BY <1>0, <1>2, <2>2, Checks DEF Wait
<1> QED
  BY <1>1, <1>2, LoadPromise, SpawnPromise DEF ExecStep

LEMMA PublishPromise ==
  ASSUME IInv, ServedInv, NEW p \in Procs, PublishStep(p)
  PROVE  ServedInv' /\ Advances
<1>0. /\ Served(p) /\ "idle" \in Locations /\ {"ok", "error"} \subseteq Results
      /\ pc[p] = "journal" => New(p) = Busy(p, TRUE)
      /\ pc[p] = "settle" => New(p) = Busy(p, FALSE)
  BY LocationFacts DEF ServedInv, New
<1>1. CASE \/ ReplaceRecord(p, "journal", Busy(p, TRUE), "settle")
           \/ ReplaceRecord(p, "settle", Busy(p, FALSE), "published")
  BY <1>0, <1>1, ReplacePromise DEF Replacing, After
<1>2. CASE Check(p, "published", FALSE, "idle", "ok")
  <2>1. Worth(p, "ok")
    BY <1>0, <1>2 DEF Worth, Check, Served, PublishSteps
  <2> QED
    BY <1>0, <1>2, <2>1, Checks
<1>3. CASE PublishStops(p)
  BY <1>0, <1>3, Checks DEF PublishStops, Worth, Alarms
<1> QED
  BY <1>1, <1>2, <1>3, LoadPromise DEF PublishStep, PublishSession

LEMMA GcPromise ==
  ASSUME IInv, ServedInv, NEW p \in Procs, GcStep(p)
  PROVE  ServedInv' /\ Advances
<1>0. /\ TypeOK /\ Frame(p) /\ pc[p] \in GcSteps /\ op[p] = "gc"
      /\ UNCHANGED <<rec, root, tomb, content, child, op, delivered, condemned>>
      /\ {"recensus", "sweep", "dispatch", "inspect", "lease"} \subseteq Locations
      /\ {"ok", "recovery"} \subseteq Results
  <2>1. pc[p] \in GcSteps /\ UNCHANGED <<rec, root, tomb, content, child, op, delivered, condemned>>
    BY DEF GcStep, Census, Recensus, Sweep, GcDispatch, Check, GcSteps, diskVars, histVars
  <2> QED
    BY <2>1, OtherFrame, LocationFacts
       DEF IInv, ProcInv, CapInv, GcSteps, RemoveSteps, CompleteSteps
<1>1. \/ \E to \in {"recensus", "sweep", "dispatch", "inspect", "lease"} : Goto(p, to)
      \/ \E code \in {"ok", "recovery"} : Exit(p, code)
  BY DEF GcStep, Census, Recensus, Sweep, GcDispatch, Check
<1>2. ASSUME NEW to \in {"recensus", "sweep", "dispatch", "inspect", "lease"}, Goto(p, to)
      PROVE  ServedInv' /\ Advances
  <2>1. pc'[p] = to /\ result' = result
    BY <1>0, <1>2, GotoMoves DEF Moved, Goto
  <2>2. Served(p)' /\ ~Bare(p)' /\ Further(p)
    BY <1>0, <2>1 DEF Served, Bare, Further, Began, GcSteps, CreateSteps, CompleteSteps, ExecSteps,
                      PublishSteps, Unmade, Unbuilt
  <2> QED
    BY <1>0, <2>1, <2>2, GoesOn DEF GcSteps
<1>3. ASSUME NEW code \in {"ok", "recovery"}, Exit(p, code) PROVE ServedInv' /\ Advances
  BY <1>0, <1>3, Returns DEF Worth, Alarms, GcSteps
<1> QED
  BY <1>1, <1>2, <1>3


(***************************************************************************)
(* Calls, waits, ends of programs and kills; and the theorem.              *)
(***************************************************************************)
LEMMA StartPromise ==
  ASSUME IInv, ServedInv, NEW p \in Procs, NEW o \in Ops, Start(p, o)
  PROVE  ServedInv' /\ Advances
<1>0. /\ TypeOK /\ Frame(p) /\ o \in Commands /\ pc[p] = "idle" /\ child[p] = NoRoot
      /\ UNCHANGED <<rec, root, tomb, content, child, delivered, condemned>>
  BY MarginFrame, OpsAssumption DEF IInv, Start, diskVars, histVars
<1>1. /\ pc'[p] = Entry[o] /\ op'[p] = o /\ dir'[p] = NoRoot /\ result'[p] = "none"
      /\ result' = [result EXCEPT ![p] = "none"]
  BY <1>0 DEF Start, TypeOK
<1>2. pc'[p] = IF o \in {"create", "gc"} THEN "home" ELSE "load"
  BY <1>0, <1>1 DEF Entry, Commands
<1>3. Served(p)' /\ ~Bare(p)' /\ Began(p)' = "nothing"
  BY <1>0, <1>1, <1>2
  DEF Served, Bare, Began, CreateSteps, CompleteSteps, ExecSteps, PublishSteps, Unmade, Unbuilt
<1>4. ServedInv'
  BY <1>0, <1>3, RecordFacts, ServedCalm
<1>5. \A q \in Procs \ {p} : /\ pc'[q] = pc[q] /\ txn'[q] = txn[q] /\ dir'[q] = dir[q]
                             /\ op'[q] = op[q] /\ Began(q)' = Began(q)
  <2>1. \A q \in Procs \ {p} : /\ pc'[q] = pc[q] /\ txn'[q] = txn[q] /\ dir'[q] = dir[q]
                               /\ op'[q] = op[q]
    BY <1>0 DEF Frame, Others
  <2> QED
    BY <2>1 DEF Began
<1>6. Job[p] = "none" /\ Job' = [Job EXCEPT ![p] = o]
  BY <1>0, <1>1, <1>2, <1>5 DEF Job
<1>7. Own' = Own
  BY <1>0, <1>1, <1>2, <1>5 DEF Own
<1>8. Progress' = Progress
  BY <1>0, <1>1, <1>2, <1>3, <1>5 DEF Progress
<1>9. Answer' = [Answer EXCEPT ![p] = "none"]
  BY <1>0, <1>1 DEF Answer, TypeOK
<1>10. Promise!Call(p, o)
  BY <1>0, <1>6, <1>7, <1>8, <1>9, TreesMove DEF Promise!Call, Promise!trees
<1> QED
  BY <1>0, <1>4, <1>10 DEF Advances, Promise!Next, Promise!Commands, Commands

LEMMA MarginPromise ==
  ASSUME IInv, ServedInv, NEW p \in Procs,
         (\E o \in Ops : Start(p, o)) \/ LockHome(p) \/ Share(p) \/ ChildExits(p) \/ Crash(p)
  PROVE  ServedInv' /\ Advances
<1>0. TypeOK /\ Frame(p) /\ Served(p)
  BY MarginFrame DEF IInv, ServedInv
<1>1. CASE LockHome(p) \/ Share(p)
  <2>1. /\ UNCHANGED <<rec, root, tomb, content, child, op, dir, result, delivered, condemned>>
        /\ \/ pc[p] = "home" /\ pc'[p] = (IF op[p] = "gc" THEN "census" ELSE "lookup")
           \/ pc[p] = "share" /\ pc'[p] = "share_revalidate"
    BY <1>0, <1>1 DEF LockHome, Share, TypeOK, diskVars, histVars
  <2>2. Served(p)' /\ ~Bare(p)' /\ Began(p)' = Began(p)
    BY <1>0, <2>1 DEF Served, Bare, Began, CreateSteps, CompleteSteps, ExecSteps, PublishSteps,
                      Unmade, Unbuilt
  <2> QED
    BY <1>0, <2>1, <2>2, GoesOn, RecordFacts DEF Further
<1>2. CASE ChildExits(p)
  <2>1. /\ UNCHANGED <<rec, root, tomb, content, pc, op, txn, dir, fresh, result>>
        /\ UNCHANGED <<delivered, condemned>>
        /\ child[p] # NoRoot /\ child' = [child EXCEPT ![p] = NoRoot]
    BY <1>2 DEF ChildExits, diskVars, txnVars, histVars
  <2>2. Served(p)' /\ (Bare(p)' => Bare(p))
    BY <1>0, <2>1 DEF Served, Bare, Exchanged
  <2>3. ServedInv'
    BY <1>0, <2>1, <2>2, ServedCalm
  <2>4. UNCHANGED <<Trees, Job, Own, Progress, Answer>>
    BY <2>1 DEF Trees, Job, Own, Progress, Answer, Began
  <2>5. Promise!Leave(p)
    BY <2>1, <2>4 DEF Promise!Leave, Promise!trees
  <2> QED
    BY <2>3, <2>5 DEF Advances, Promise!Next
<1>3. CASE Crash(p)
  BY <1>0, <1>3, Returns, LocationFacts DEF Crash, diskVars, histVars, Worth, Alarms
<1> QED
  BY <1>1, <1>2, <1>3, StartPromise

LEMMA StillPromise ==
  ASSUME ServedInv, UNCHANGED vars
  PROVE  ServedInv' /\ Advances
<1>1. \A p \in Procs : Served(p)' /\ (Bare(p)' <=> Bare(p)) /\ Began(p)' = Began(p)
  BY DEF ServedInv, Served, Bare, Began, Exchanged, vars
<1>2. ServedInv'
  BY <1>1 DEF ServedInv, PlaceInv, BareInv, vars
<1>3. UNCHANGED <<Trees, Job, Own, Progress, Answer>>
  BY <1>1 DEF Trees, Job, Own, Progress, Answer, vars
<1> QED
  BY <1>2, <1>3 DEF Advances, Promise!vars, vars

LEMMA NextPromise == IInv /\ ServedInv /\ [Next]_vars => ServedInv' /\ Advances
<1>1. ASSUME IInv, ServedInv, NEW p \in Procs, Step(p) PROVE ServedInv' /\ Advances
  BY <1>1, CreatePromise, LoadPromise, LeasePromise, RevalidatePromise, TombstonePromise,
     CompletePromise, ExecPromise, PublishPromise, GcPromise
  DEF Step, RemoveStep, AcquireLease
<1> QED
  BY <1>1, MarginPromise, StillPromise DEF Next

LEMMA InitPromise == Init => ServedInv /\ Promise!Init
<1> SUFFICES ASSUME Init PROVE ServedInv /\ Promise!Init
  OBVIOUS
<1>1. ServedInv
  <2>1. \A p \in Procs : Served(p) /\ ~Bare(p)
    BY DEF Init, Served, Bare, CreateSteps, CompleteSteps, ExecSteps, PublishSteps, Unmade, Unbuilt
  <2> QED
    BY <2>1, RootAssumption DEF Init, ServedInv, PlaceInv, BareInv, Standing
<1>2. Trees = [i \in Roots |-> "none"]
  BY DEF Init, Trees, TreeOf
<1>3. /\ Job = [p \in Procs |-> "none"] /\ Own = [p \in Procs |-> NoRoot]
      /\ Progress = [p \in Procs |-> "nothing"] /\ Answer = [p \in Procs |-> "none"]
  BY DEF Init, Job, Own, Progress, Answer
<1> QED
  BY <1>1, <1>2, <1>3 DEF Init, Promise!Init

\* What the answers rest on holds whatever the commands, forced removals included.
THEOREM Serving == Spec => []ServedInv
BY NextPromise, InitPromise, Invariance, PTL DEF Spec

\* SessionLifecycle implements SessionPromise: whatever commands run side by side, are
\* killed or force a removal, a tree only goes on behalf of a create that has not
\* delivered it or of a removal that has condemned it, and never with a program in it; a
\* create that reports success delivers a whole tree, a removal that does leaves nothing
\* delivered behind, a refused call has done nothing and a busy one has touched no tree.
THEOREM Refinement == Spec => Promised
<1>1. IInv /\ ServedInv /\ [Next]_vars => [Promise!Next]_(Promise!vars)
  BY NextPromise DEF Advances
<1>2. Init => Promise!Init
  BY InitPromise
<1> QED
  BY <1>1, <1>2, Invariance, Serving, PTL DEF Spec, Promised, Promise!Spec
=============================================================================
