---------------------- MODULE TemplateLifecycleProofs ----------------------
(***************************************************************************)
(* Theorems about TemplateLifecycle, for any processes, templates,         *)
(* directories, sessions and faults, with roots that have to be unsealed   *)
(* to be renamed and without.                                              *)
(***************************************************************************)
EXTENDS TemplateLifecycle, TLAPS

(***************************************************************************)
(* The inductive invariant.  One process at a time works on templates: the *)
(* holder of HOME.  The record it goes by is the record on disk, and its   *)
(* place tells what it has found or made of the tree.                      *)
(***************************************************************************)
Resting  == {"idle", "home"}
Seeking  == {"acquire", "census", "sweep", "next"}
Working  == Locations \ (Resting \cup Seeking)
Writing  == {"prepare", "materializing", "publishing", "ready", "tombstone"}
Retiring == {"retire", "inspect_retired", "retired_lease", "inspect", "tomb_lease", "tomb_reach",
             "gone_reach", "untomb", "promote", "recheck", "clear", "cleared", "drop"}
Swept    == GcSteps \ {"census", "sweep"}

HomeInv ==
  /\ \A p \in home : home = {p}
  /\ \A p \in Procs : p \in home <=> pc[p] \notin Resting

\* A directory has one name, and one that has a name is in use.
NamesInv ==
  \A k \in Keys : \A n \in Names : ~Vacant(k, n) =>
    /\ content[at[k][n]] # "unused"
    /\ \A j \in Keys \ {k} : \A m \in Names : at[j][m] # at[k][n]

Gone(k)      == \A n \in Names : Vacant(k, n)
Exchanged(p) == txn[p] = "exchanged"

\* What is known of the record and the tree at each place.
PlaceInv(p) ==
  LET k == key[p]  d == cap[p].dir
  IN  /\ pc[p] = "prepare" => cap[p] = Absent /\ ~Exchanged(p)
      /\ pc[p] = "advance" => cap[p].st = "Prepared"
      /\ pc[p] = "materializing" =>
           IF Exchanged(p) THEN cap[p].st = "Materializing"
           ELSE cap[p].st = "Prepared" /\ ~Vacant(k, "building")
      /\ pc[p] \in {"fill", "finish", "seal"} => cap[p].st = "Materializing"
      /\ pc[p] = "seal" => content[d] = "complete"
      /\ pc[p] = "publishing" =>
           IF Exchanged(p) THEN cap[p].st = "Publishing"
           ELSE cap[p].st = "Materializing" /\ Sealed(d)
      /\ pc[p] \in {"publish", "unseal", "rename", "reseal"} => cap[p].st = "Publishing"
      /\ pc[p] \in {"unseal", "rename"} => Only(k, "building", d)
      /\ pc[p] = "reseal" => Only(k, "root", d)
      /\ pc[p] = "ready" =>
           IF Exchanged(p) THEN cap[p].st = "Ready"
           ELSE cap[p].st = "Publishing" /\ Only(k, "root", d) /\ Sealed(d)
      /\ pc[p] \in {"share", "session", "lease", "reach"} => cap[p].st = "Ready"
      /\ pc[p] = "tombstone" =>
           IF Exchanged(p) THEN cap[p].st = "Tombstoned"
           ELSE cap[p].st = "Ready" /\ ~Reachable(k)
      /\ pc[p] \in Retiring => cap[p].st = "Tombstoned"
      /\ pc[p] \in {"tomb_lease", "retired_lease", "tomb_reach", "untomb", "promote"} =>
           (Only(k, "root", d) \/ Only(k, "tombstone", d)) /\ Condemned(d)
      /\ pc[p] \in {"recheck", "clear", "cleared"} => Only(k, "tombstone", d)
      /\ pc[p] \in {"gone_reach", "drop"} => Gone(k)

WorkInv(p) ==
  /\ pc[p] \in Resting => txn[p] = "none" /\ lease[p] = NoDir
  /\ pc[p] = "acquire" \/ (pc[p] = "home" /\ op[p] = "create") => key[p] \in Keys
  /\ pc[p] \in Working => key[p] \in Keys /\ rec[key[p]] = cap[p]

\* What it has written in a record transaction.
New(p) ==
  CASE pc[p] = "prepare" -> Payload("Prepared", p, NoDir)
    [] pc[p] = "materializing" -> Payload("Materializing", cap[p].by, at[key[p]]["building"])
    [] pc[p] = "publishing" -> Payload("Publishing", cap[p].by, cap[p].dir)
    [] pc[p] = "ready" -> Payload("Ready", NoProc, cap[p].dir)
    [] pc[p] = "tombstone" -> Payload("Tombstoned", NoProc, cap[p].dir)
TxnInv(p) ==
  /\ txn[p] # "none" => pc[p] \in Writing /\ tmp[p] # NoTmp
  /\ txn[p] = "written" => tmp[p].new = New(p)

\* What gc has dealt with.
Settled(p, k) == rec[k] = Absent \/ (rec[k].st = "Ready" /\ k \in needed[p])
GcInv(p) ==
  /\ pc[p] \in Swept =>
       /\ \A q \in Procs \ {p} : tmp[q] = NoTmp
       /\ txn[p] = "none" => tmp[p] = NoTmp
  /\ pc[p] \in GcSteps \ {"census"} =>
       /\ \A k \in Keys : Reachable(k) => k \in needed[p]
       /\ \A k \in todo[p] : rec[k].st \in {"Ready", "Tombstoned"}
       /\ \A k \in Keys : k \in todo[p] \/ Settled(p, k) \/ (pc[p] \in Working /\ k = key[p])
       /\ pc[p] \in Working => key[p] \notin todo[p]

ProcInv(p) == WorkInv(p) /\ PlaceInv(p) /\ TxnInv(p) /\ GcInv(p)

IInv ==
  /\ TypeOK /\ HomeInv /\ NamesInv /\ RecordDescribesTree /\ SessionTemplateWhole
  /\ \A p \in Procs : ProcInv(p)

(***************************************************************************)
(* Lemmas about payloads and names.                                        *)
(***************************************************************************)
LEMMA PayloadFacts ==
  /\ \A st, by, dir : /\ Payload(st, by, dir).st = st /\ Payload(st, by, dir).by = by
                      /\ Payload(st, by, dir).dir = dir
  /\ Absent \in Payloads /\ Absent.st = "Absent" /\ Absent.by = NoProc /\ Absent.dir = NoDir
  /\ \A q \in Procs : Payload("Prepared", q, NoDir) \in Payloads
  /\ \A q \in Procs : \A d \in Dirs :
       /\ Payload("Materializing", q, d) \in Payloads /\ Payload("Publishing", q, d) \in Payloads
  /\ \A d \in Dirs : /\ Payload("Ready", NoProc, d) \in Payloads
                     /\ Payload("Tombstoned", NoProc, d) \in Payloads
BY DEF Payload, Absent, Payloads

LEMMA PayloadKinds ==
  ASSUME NEW r \in Payloads
  PROVE  /\ r.st \in {"Absent", "Prepared", "Materializing", "Publishing", "Ready", "Tombstoned"}
         /\ r.st = "Absent" <=> r = Absent
         /\ r.st \in {"Prepared", "Materializing", "Publishing"} => r.by \in Procs
         /\ r.st \in {"Materializing", "Publishing", "Ready", "Tombstoned"} =>
              r.dir \in Dirs /\ r.dir # NoDir
         /\ r.st = "Ready" => r = Payload("Ready", NoProc, r.dir)
<1>1. CASE r = Absent
  BY <1>1 DEF Absent, Payload
<1>2. CASE r \in [st : {"Prepared"}, by : Procs, dir : {NoDir}]
  BY <1>2 DEF Absent, Payload
<1>3. CASE r \in [st : {"Materializing", "Publishing"}, by : Procs, dir : Dirs]
  BY <1>3, NoneAssumption DEF Absent, Payload
<1>4. CASE r \in [st : {"Ready", "Tombstoned"}, by : {NoProc}, dir : Dirs]
  BY <1>4, NoneAssumption DEF Absent, Payload
<1> QED
  BY <1>1, <1>2, <1>3, <1>4 DEF Payloads

LEMMA OneName ==
  ASSUME NEW f \in [Names -> Dirs \cup {NoDir}], NEW n \in Names, NEW d
  PROVE  (d # NoDir /\ f = [m \in Names |-> IF m = n THEN d ELSE NoDir]) <=>
           (d # NoDir /\ f[n] = d /\ \A m \in Names \ {n} : f[m] = NoDir)
OBVIOUS

LEMMA OnlyIs ==
  ASSUME TypeOK, NEW k \in Keys, NEW n \in Names, NEW d
  PROVE  Only(k, n, d) <=> d # NoDir /\ at[k][n] = d /\ \A m \in Names \ {n} : Vacant(k, m)
BY OneName DEF TypeOK, Only, Vacant

LEMMA OnlyIsNext ==
  ASSUME TypeOK', NEW k \in Keys, NEW n \in Names, NEW d
  PROVE  (d # NoDir /\ at'[k] = [m \in Names |-> IF m = n THEN d ELSE NoDir]) <=>
           (d # NoDir /\ at'[k][n] = d /\ \A m \in Names \ {n} : at'[k][m] = NoDir)
BY OneName DEF TypeOK

(***************************************************************************)
(* What a step leaves in order: the tree of every template ...             *)
(***************************************************************************)
Described(k) ==
  LET d == rec[k].dir  b == at[k]["building"]
  IN  \/ rec[k] = Absent /\ Gone(k)
      \/ /\ rec[k].st = "Prepared" /\ Vacant(k, "root") /\ Vacant(k, "tombstone")
         /\ ~Vacant(k, "building") => content[b] = "empty" /\ mode[b] = "private"
      \/ rec[k].st = "Materializing" /\ Only(k, "building", d)
      \/ /\ rec[k].st = "Publishing" /\ Publishable(d)
         /\ Only(k, "building", d) \/ Only(k, "root", d)
      \/ rec[k].st = "Ready" /\ Only(k, "root", d) /\ Sealed(d)
      \/ /\ rec[k].st = "Tombstoned"
         /\ \/ Gone(k)
            \/ Only(k, "root", d) /\ content[d] = "complete"
            \/ Only(k, "tombstone", d) /\ Condemned(d)

Whole(s) ==
  session[s] # NoSession =>
    LET k == session[s].key  d == session[s].dir
    IN  rec[k] = Payload("Ready", NoProc, d) /\ Only(k, "root", d) /\ Sealed(d)

LEMMA Parts ==
  /\ RecordDescribesTree <=> \A k \in Keys : Described(k)
  /\ SessionTemplateWhole <=> \A s \in Sessions : Whole(s)
BY DEF RecordDescribesTree, Described, Gone, SessionTemplateWhole, Whole

LEMMA PartsNext ==
  /\ RecordDescribesTree' <=> \A k \in Keys : Described(k)'
  /\ SessionTemplateWhole' <=> \A s \in Sessions : Whole(s)'
BY DEF RecordDescribesTree, Described, Gone, SessionTemplateWhole, Whole

\* A template whose record and names are as they were, and the directories there.
LEMMA DescribedStays ==
  ASSUME TypeOK, NEW k \in Keys, Described(k), rec'[k] = rec[k], at'[k] = at[k],
         \A n \in Names : ~Vacant(k, n) =>
           content'[at[k][n]] = content[at[k][n]] /\ mode'[at[k][n]] = mode[at[k][n]]
  PROVE  Described(k)'
<1>1. \A n \in Names : Vacant(k, n)' <=> Vacant(k, n)
  BY DEF Vacant
<1>2. \A n \in Names : \A d : (d # NoDir /\ at'[k] = [m \in Names |-> IF m = n THEN d ELSE NoDir])
                                <=> Only(k, n, d)
  BY DEF Only
<1>3. \A n \in Names : \A d : Only(k, n, d) => content'[d] = content[d] /\ mode'[d] = mode[d]
  BY OnlyIs DEF Vacant
<1> QED
  BY <1>1, <1>2, <1>3
     DEF Described, Gone, Only, Sealed, Publishable, Condemned, Names, Vacant

LEMMA WholeStays ==
  ASSUME TypeOK, NEW s \in Sessions, Whole(s), session'[s] \in {session[s], NoSession},
         session[s] # NoSession =>
           LET k == session[s].key
           IN  /\ rec'[k] = rec[k] /\ at'[k] = at[k]
               /\ \A n \in Names : ~Vacant(k, n) =>
                    content'[at[k][n]] = content[at[k][n]] /\ mode'[at[k][n]] = mode[at[k][n]]
  PROVE  Whole(s)'
<1> SUFFICES ASSUME session'[s] # NoSession PROVE Whole(s)'
  BY DEF Whole
<1>1. session'[s] = session[s] /\ session[s].key \in Keys
  BY DEF TypeOK
<1>2. \A n \in Names : \A d : Only(session[s].key, n, d) => content'[d] = content[d] /\ mode'[d] = mode[d]
  BY <1>1, OnlyIs DEF Vacant
<1> QED
  BY <1>1, <1>2 DEF Whole, Only, Sealed, Names

LEMMA Unreached ==
  ASSUME TypeOK, SessionTemplateWhole, NEW k \in Keys, rec[k].st # "Ready"
  PROVE  ~Reachable(k)
<1> SUFFICES ASSUME NEW s \in Sessions, session[s].key = k PROVE FALSE
  BY DEF Reachable
<1>1. session[s] # NoSession
  BY NoneAssumption DEF NoSession
<1>2. rec[k].st = "Ready"
  BY <1>1, PayloadFacts, Parts DEF Whole
<1> QED
  BY <1>2

LEMMA SessionKey ==
  ASSUME TypeOK, NEW s \in Sessions, session[s] # NoSession
  PROVE  session[s].key \in Keys /\ Reachable(session[s].key)
BY DEF TypeOK, Reachable

\* The tree of template k is changed, in directory d.
LEMMA TreeMoves ==
  ASSUME TypeOK, TypeOK', NamesInv, RecordDescribesTree, SessionTemplateWhole,
         NEW k \in Keys, NEW d \in Dirs, UNCHANGED <<rec, session>>,
         \A j \in Keys \ {k} : at'[j] = at[j] /\ \A n \in Names : at[j][n] # d,
         \A e \in Dirs \ {d} : content'[e] = content[e] /\ mode'[e] = mode[e],
         \A n \in Names : at'[k][n] # NoDir => at'[k][n] = d /\ content'[d] # "unused",
         ~Reachable(k), Described(k)'
  PROVE  NamesInv' /\ RecordDescribesTree' /\ SessionTemplateWhole'
<1>1. \A j \in Keys \ {k} : \A n \in Names : ~Vacant(j, n) =>
        /\ at[j][n] \in Dirs \ {d}
        /\ content'[at[j][n]] = content[at[j][n]] /\ mode'[at[j][n]] = mode[at[j][n]]
  BY DEF TypeOK, Vacant
<1>2. NamesInv'
  <2>1. ASSUME NEW j \in Keys, NEW n \in Names, at'[j][n] # NoDir
        PROVE  /\ content'[at'[j][n]] # "unused"
               /\ \A i \in Keys \ {j} : \A m \in Names : at'[i][m] # at'[j][n]
    <3>1. CASE j = k
      BY <2>1, <3>1
    <3>2. CASE j # k
      <4>1. at'[j][n] = at[j][n] /\ ~Vacant(j, n) /\ at[j][n] # d
        BY <2>1, <3>2 DEF Vacant
      <4>2. \A m \in Names : at'[k][m] # at[j][n]
        BY <2>1, <4>1
      <4> QED
        BY <1>1, <3>2, <4>1, <4>2 DEF NamesInv
    <3> QED
      BY <3>1, <3>2
  <2> QED
    BY <2>1 DEF NamesInv, Vacant
<1>3. \A j \in Keys : Described(j)'
  BY <1>1, DescribedStays, Parts
<1>4. ASSUME NEW s \in Sessions PROVE Whole(s)'
  <2>1. session[s] # NoSession => session[s].key \in Keys \ {k}
    BY SessionKey
  <2> QED
    BY <1>1, <2>1, WholeStays, Parts
<1> QED
  BY <1>2, <1>3, <1>4, PartsNext

\* The record of template k is changed.
LEMMA RecordMoves ==
  ASSUME TypeOK, NamesInv, RecordDescribesTree, SessionTemplateWhole,
         NEW k \in Keys, UNCHANGED <<at, content, mode, session>>,
         \A j \in Keys \ {k} : rec'[j] = rec[j],
         ~Reachable(k), Described(k)'
  PROVE  NamesInv' /\ RecordDescribesTree' /\ SessionTemplateWhole'
<1>1. NamesInv'
  BY DEF NamesInv, Vacant
<1>2. \A j \in Keys : Described(j)'
  BY DescribedStays, Parts
<1>3. ASSUME NEW s \in Sessions PROVE Whole(s)'
  <2>1. session[s] # NoSession => session[s].key \in Keys \ {k}
    BY SessionKey
  <2> QED
    BY <2>1, WholeStays, Parts
<1> QED
  BY <1>1, <1>2, <1>3, PartsNext

\* Neither is, and sessions only go.
LEMMA DiskStays ==
  ASSUME TypeOK, NamesInv, RecordDescribesTree, SessionTemplateWhole,
         UNCHANGED <<rec, at, content, mode>>,
         \A s \in Sessions : session'[s] \in {session[s], NoSession}
  PROVE  NamesInv' /\ RecordDescribesTree' /\ SessionTemplateWhole'
<1>1. NamesInv'
  BY DEF NamesInv, Vacant
<1>2. \A j \in Keys : Described(j)'
  BY DescribedStays, Parts
<1>3. \A s \in Sessions : Whole(s)'
  BY WholeStays, SessionKey, Parts
<1> QED
  BY <1>1, <1>2, <1>3, PartsNext

(***************************************************************************)
(* ... and every process but the one that holds HOME.                      *)
(***************************************************************************)
Turn(p) ==
  /\ \A q \in Procs \ {p} : /\ pc'[q] = pc[q] /\ op'[q] = op[q] /\ key'[q] = key[q]
                            /\ txn'[q] = txn[q] /\ lease'[q] = lease[q]
  /\ home' = IF pc'[p] = "idle" THEN home \ {p} ELSE home
  /\ pc'[p] # "home"

LEMMA RestProc ==
  ASSUME NEW p \in Procs, pc'[p] \in Resting, txn'[p] = "none", lease'[p] = NoDir,
         pc'[p] = "home" /\ op'[p] = "create" => key'[p] \in Keys
  PROVE  ProcInv(p)'
<1>1. WorkInv(p)'
  BY DEF WorkInv, Resting, Working
<1>2. PlaceInv(p)'
  BY DEF PlaceInv, Resting, Retiring
<1>3. TxnInv(p)' /\ GcInv(p)'
  BY DEF TxnInv, GcInv, Swept, GcSteps, Resting
<1> QED
  BY <1>1, <1>2, <1>3 DEF ProcInv

LEMMA Alone ==
  ASSUME IInv, NEW p \in Procs, pc[p] \notin Resting
  PROVE  home = {p} /\ \A q \in Procs \ {p} : pc[q] \in Resting /\ lease[q] = NoDir
BY DEF IInv, HomeInv, ProcInv, WorkInv

LEMMA TurnStep ==
  ASSUME IInv, NEW p \in Procs, pc[p] \notin Resting, Turn(p), TypeOK',
         NamesInv' /\ RecordDescribesTree' /\ SessionTemplateWhole', ProcInv(p)'
  PROVE  IInv'
<1>1. home = {p} /\ \A q \in Procs \ {p} : pc[q] \in Resting
  BY Alone
<1>2. HomeInv'
  BY <1>1 DEF HomeInv, Turn, Resting
<1>3. ASSUME NEW q \in Procs \ {p} PROVE ProcInv(q)'
  <2>1. WorkInv(q) /\ pc[q] \in Resting
    BY <1>1 DEF IInv, ProcInv
  <2> QED
    BY <2>1, RestProc DEF WorkInv, Turn, Resting
<1> QED
  BY <1>2, <1>3 DEF IInv

(***************************************************************************)
(* Control.                                                                *)
(***************************************************************************)
LEMMA PlaceNames ==
  /\ CreateSteps \cup GcSteps \cup Resting = Locations
  /\ \A to \in CreateSteps \cup GcSteps : to \notin Resting /\ to \in Locations
  /\ Writing \subseteq Working /\ Retiring \subseteq Swept /\ Retiring \subseteq Working
BY DEF Locations, Resting, CreateSteps, GcSteps, Writing, Working, Seeking, Retiring, Swept

ControlOK ==
  /\ home \subseteq Procs /\ lease \in [Procs -> Dirs \cup {NoDir}]
  /\ pc \in [Procs -> Locations] /\ txn \in [Procs -> TxnPhases]
  /\ result \in [Procs -> Results]

LEMMA GotoMoves ==
  ASSUME TypeOK, NEW p \in Procs, NEW to \in CreateSteps \cup GcSteps, Goto(p, to)
  PROVE  /\ ControlOK' /\ pc'[p] = to /\ txn'[p] = "none" /\ UNCHANGED <<home, lease, result>>
         /\ \A q \in Procs \ {p} : pc'[q] = pc[q] /\ txn'[q] = txn[q]
         /\ op' = op /\ (\A q \in Procs \ {p} : key'[q] = key[q]) => Turn(p)
<1>1. to \in Locations /\ to \notin Resting
  BY PlaceNames
<1>2. pc'[p] = to /\ txn'[p] = "none" /\ \A q \in Procs \ {p} : pc'[q] = pc[q] /\ txn'[q] = txn[q]
  BY DEF TypeOK, Goto
<1>3. ControlOK'
  BY <1>1 DEF TypeOK, ControlOK, Goto, TxnPhases
<1> QED
  BY <1>1, <1>2, <1>3 DEF Goto, Turn, Resting

LEMMA ExitMoves ==
  ASSUME TypeOK, NEW p \in Procs, NEW code \in Results, Exit(p, code)
  PROVE  /\ ControlOK' /\ pc'[p] = "idle" /\ txn'[p] = "none" /\ lease'[p] = NoDir
         /\ result'[p] = code
         /\ op' = op /\ (\A q \in Procs \ {p} : key'[q] = key[q]) => Turn(p)
<1>1. ControlOK'
  BY DEF TypeOK, ControlOK, Exit, Locations, TxnPhases
<1>2. /\ pc'[p] = "idle" /\ txn'[p] = "none" /\ lease'[p] = NoDir /\ result'[p] = code
      /\ \A q \in Procs \ {p} : pc'[q] = pc[q] /\ txn'[q] = txn[q] /\ lease'[q] = lease[q]
  BY DEF TypeOK, Exit
<1> QED
  BY <1>1, <1>2 DEF Turn, Exit

LEMMA WithinMoves ==
  ASSUME TypeOK, NEW p \in Procs, NEW phase \in TxnPhases, Within(p, phase)
  PROVE  /\ ControlOK' /\ pc' = pc /\ txn'[p] = phase /\ UNCHANGED <<home, lease, result>>
         /\ pc[p] \notin Resting /\ op' = op /\ key' = key => Turn(p)
BY DEF TypeOK, ControlOK, Within, Turn, Resting

DataOK ==
  /\ rec \in [Keys -> Payloads]
  /\ at \in [Keys -> [Names -> Dirs \cup {NoDir}]]
  /\ content \in [Dirs -> Contents] /\ mode \in [Dirs -> Modes]
  /\ session \in [Sessions -> {NoSession} \cup [key : Keys, dir : Dirs]]
  /\ op \in [Procs -> {"create", "gc"}]
  /\ key \in [Procs -> Keys \cup {NoKey}] /\ {todo, needed} \subseteq [Procs -> SUBSET Keys]
  /\ cap \in [Procs -> Payloads]
  /\ tmp \in [Procs -> {NoTmp} \cup [key : Keys, new : Payloads \cup {Torn}]]
  /\ faults \in 0..MaxFaults

LEMMA TypeParts == (TypeOK <=> ControlOK /\ DataOK) /\ (TypeOK' <=> ControlOK' /\ DataOK')
BY DEF TypeOK, ControlOK, DataOK

LEMMA FaultType ==
  ASSUME TypeOK, Fault
  PROVE  faults' \in 0..MaxFaults
BY BoundAssumption DEF TypeOK, Fault

\* The command ends.
LEMMA ExitStep ==
  ASSUME IInv, NEW p \in Procs, pc[p] \notin Resting, NEW code \in Results, Exit(p, code),
         op' = op, \A q \in Procs \ {p} : key'[q] = key[q], DataOK',
         NamesInv' /\ RecordDescribesTree' /\ SessionTemplateWhole'
  PROVE  IInv'
<1>1. TypeOK
  BY DEF IInv
<1>2. ControlOK' /\ Turn(p) /\ pc'[p] = "idle" /\ txn'[p] = "none" /\ lease'[p] = NoDir
  BY <1>1, ExitMoves
<1>3. ProcInv(p)'
  BY <1>2, RestProc DEF Resting
<1> QED
  BY <1>2, <1>3, TypeParts, TurnStep

\* The command goes on, and nothing but its place changes.
LEMMA PlaceMoves ==
  ASSUME IInv, NEW p \in Procs, pc[p] \in Working, txn[p] = "none",
         pc'[p] \in Working, txn'[p] = "none", pc'[p] \in GcSteps => pc[p] \in GcSteps,
         UNCHANGED <<rec, session, op, procVars, cap, tmp>>, PlaceInv(p)'
  PROVE  ProcInv(p)'
<1>1. ProcInv(p)
  BY DEF IInv
<1>2. WorkInv(p)' /\ TxnInv(p)'
  BY <1>1 DEF ProcInv, WorkInv, TxnInv, Working, Resting, Seeking, procVars
<1>3. pc'[p] \in GcSteps => pc[p] \in Swept /\ pc[p] \in GcSteps \ {"census"}
  BY DEF Working, Seeking, Swept
<1>4. GcInv(p)'
  BY <1>1, <1>3 DEF ProcInv, GcInv, procVars, Reachable, Settled, Swept
<1> QED
  BY <1>1, <1>2, <1>4 DEF ProcInv

LEMMA WorkingOn ==
  ASSUME NEW x \in Working
  PROVE  x \in CreateSteps \cup GcSteps /\ x \notin Resting
BY DEF Working, Locations, Seeking, Resting

\* A step that changes no file.
LEMMA GoOn ==
  ASSUME IInv, NEW p \in Procs, pc[p] \in Working, txn[p] = "none",
         pc'[p] \in Working, txn'[p] = "none", pc'[p] \in GcSteps => pc[p] \in GcSteps,
         UNCHANGED <<rec, diskVars, session, op, procVars, cap, tmp, faults>>,
         ControlOK', Turn(p), PlaceInv(p)'
  PROVE  IInv'
<1>1. ProcInv(p)'
  BY PlaceMoves
<1>2. NamesInv' /\ RecordDescribesTree' /\ SessionTemplateWhole'
  BY DiskStays DEF IInv, diskVars
<1>3. TypeOK'
  BY TypeParts DEF IInv, DataOK, diskVars, procVars
<1> QED
  BY <1>1, <1>2, <1>3, WorkingOn, TurnStep

LEMMA GoesOn ==
  ASSUME IInv, NEW p \in Procs, pc[p] \in Working, txn[p] = "none", NEW to \in Working,
         Goto(p, to), to \in GcSteps => pc[p] \in GcSteps,
         UNCHANGED <<rec, diskVars, session, op, procVars, cap, tmp, faults>>, PlaceInv(p)'
  PROVE  IInv'
<1>1. TypeOK
  BY DEF IInv
<1>2. ControlOK' /\ pc'[p] = to /\ txn'[p] = "none" /\ Turn(p)
  BY <1>1, WorkingOn, GotoMoves DEF procVars
<1> QED
  BY <1>2, GoOn

\* A command that ends without another change.
LEMMA Ends ==
  ASSUME IInv, NEW p \in Procs, pc[p] \notin Resting, NEW code \in Results, Exit(p, code),
         UNCHANGED <<rec, diskVars, session, op, procVars, cap, tmp>>, faults' \in 0..MaxFaults
  PROVE  IInv'
<1>1. NamesInv' /\ RecordDescribesTree' /\ SessionTemplateWhole'
  BY DiskStays DEF IInv, diskVars
<1>2. DataOK'
  BY DEF IInv, TypeOK, DataOK, diskVars, procVars
<1> QED
  BY <1>1, <1>2, ExitStep DEF procVars

(***************************************************************************)
(* Record transactions.                                                    *)
(***************************************************************************)
WriteFrame == UNCHANGED <<diskVars, session, op, procVars>>

LEMMA WritingFacts ==
  ASSUME IInv, NEW p \in Procs, pc[p] \in Writing
  PROVE  /\ TypeOK /\ ProcInv(p) /\ pc[p] \notin Resting /\ pc[p] \in Working
         /\ key[p] \in Keys /\ rec[key[p]] = cap[p] /\ cap[p] \in Payloads
BY PlaceNames, WorkingOn DEF IInv, ProcInv, WorkInv, TypeOK

LEMMA TmpTypes ==
  ASSUME TypeOK, NEW p \in Procs
  PROVE  /\ tmp[p] # NoTmp => tmp[p].key \in Keys /\ tmp[p].new \in Payloads \cup {Torn}
         /\ \A x \in Payloads \cup {Torn} : tmp[p] # NoTmp =>
              [tmp[p] EXCEPT !.new = x] \in [key : Keys, new : Payloads \cup {Torn}]
BY DEF TypeOK

\* In the middle of a transaction nothing but the temporary is written.
LEMMA TxnMoves ==
  ASSUME IInv, NEW p \in Procs, pc[p] \in Writing, WriteFrame, UNCHANGED <<rec, cap, faults>>,
         NEW phase \in {"torn", "written"}, Within(p, phase),
         NEW t \in [key : Keys, new : Payloads \cup {Torn}], tmp' = [tmp EXCEPT ![p] = t],
         txn[p] # "exchanged", phase = "written" => t.new = New(p)
  PROVE  IInv'
<1>1. /\ TypeOK /\ ProcInv(p) /\ pc[p] \notin Resting /\ pc[p] \in Working
      /\ key[p] \in Keys /\ rec[key[p]] = cap[p]
  BY WritingFacts
<1>2. ControlOK' /\ pc' = pc /\ txn'[p] = phase /\ UNCHANGED <<home, lease, result>> /\ Turn(p)
  BY <1>1, WithinMoves DEF TxnPhases, WriteFrame, procVars
<1>3. NamesInv' /\ RecordDescribesTree' /\ SessionTemplateWhole'
  BY DiskStays DEF IInv, WriteFrame, diskVars
<1>4. t # NoTmp
  BY NoneAssumption DEF NoTmp
<1>5. DataOK'
  BY <1>1 DEF TypeOK, DataOK, WriteFrame, diskVars, procVars
<1>6. WorkInv(p)'
  BY <1>1, <1>2 DEF ProcInv, WorkInv, WriteFrame, procVars, Working
<1>7. PlaceInv(p)'
  BY <1>1, <1>2 DEF ProcInv, PlaceInv, Exchanged, WriteFrame, procVars, diskVars, Vacant, Only,
     Sealed, Condemned, Gone, Reachable
<1>8. TxnInv(p)'
  <2>1. tmp'[p] = t
    BY <1>1 DEF TypeOK
  <2>2. New(p)' = New(p)
    BY <1>2 DEF New, WriteFrame, procVars, diskVars
  <2> QED
    BY <1>2, <1>4, <2>1, <2>2 DEF TxnInv
<1>9. GcInv(p)'
  <2>1. \A q \in Procs \ {p} : tmp'[q] = tmp[q]
    BY <1>1 DEF TypeOK
  <2> QED
    BY <1>1, <1>2, <2>1 DEF ProcInv, GcInv, WriteFrame, procVars, Reachable, Settled
<1> QED
  BY <1>1, <1>2, <1>3, <1>5, <1>6, <1>7, <1>8, <1>9, TypeParts, TurnStep DEF ProcInv

LEMMA TxnBegins ==
  ASSUME IInv, NEW p \in Procs, pc[p] \in Writing, NEW new \in Payloads, new = New(p),
         TxnBegin(p, new), UNCHANGED <<rec, cap, faults>>, WriteFrame
  PROVE  IInv'
<1>1. /\ TypeOK /\ ProcInv(p) /\ pc[p] \notin Resting
      /\ key[p] \in Keys /\ rec[key[p]] = cap[p]
  BY WritingFacts
<1>2. CASE txn[p] = "none"
  <2>1. tmp' = [tmp EXCEPT ![p] = [key |-> key[p], new |-> Torn]] /\ Within(p, "torn")
    BY <1>1, <1>2 DEF TxnBegin
  <2>2. [key |-> key[p], new |-> Torn] \in [key : Keys, new : Payloads \cup {Torn}]
    BY <1>1
  <2> QED
    BY <1>2, <2>1, <2>2, TxnMoves
<1>3. CASE txn[p] = "torn"
  <2> DEFINE t == [tmp[p] EXCEPT !.new = new]
  <2>1. tmp' = [tmp EXCEPT ![p] = t] /\ Within(p, "written")
    BY <1>3 DEF TxnBegin
  <2>2. tmp[p] # NoTmp
    BY <1>1, <1>3 DEF ProcInv, TxnInv
  <2>3. t \in [key : Keys, new : Payloads \cup {Torn}]
    BY <1>1, <2>2, TmpTypes
  <2>4. t.new = new
    BY <1>1, <2>2 DEF TypeOK
  <2> HIDE DEF t
  <2> QED
    BY <1>3, <2>1, <2>3, <2>4, TxnMoves
<1> QED
  BY <1>2, <1>3 DEF TxnBegin

\* A transaction that fails leaves the record as it was.
LEMMA TxnFails ==
  ASSUME IInv, NEW p \in Procs, pc[p] \in Writing, WriteFrame, UNCHANGED <<rec, cap>>,
         faults' \in 0..MaxFaults, tmp' = [tmp EXCEPT ![p] = NoTmp], Exit(p, "failed")
  PROVE  IInv'
<1>1. TypeOK /\ pc[p] \notin Resting
  BY WritingFacts
<1>2. NamesInv' /\ RecordDescribesTree' /\ SessionTemplateWhole'
  BY DiskStays DEF IInv, WriteFrame, diskVars
<1>3. DataOK'
  BY <1>1 DEF TypeOK, DataOK, WriteFrame, diskVars, procVars
<1> QED
  BY <1>1, <1>2, <1>3, ExitStep DEF Results, WriteFrame, procVars

\* The record and the temporary change places, or the record is the first one.
LEMMA TxnCommits ==
  ASSUME IInv, NEW p \in Procs, pc[p] \in Writing, NEW to \in Working \ Writing,
         to \notin GcSteps \/ pc[p] \in GcSteps,
         txn[p] = "written", TxnCommit(p, to), UNCHANGED faults, WriteFrame,
         New(p) \in Payloads, ~Reachable(key[p]),
         \A k \in Keys : k = key[p] /\ rec' = [rec EXCEPT ![k] = New(p)] => Described(k)',
         rec' = [rec EXCEPT ![key[p]] = New(p)] /\ cap'[p] = New(p)
           /\ (IF cap[p] = Absent THEN pc'[p] = to /\ txn'[p] = "none"
               ELSE pc'[p] = pc[p] /\ txn'[p] = "exchanged") => PlaceInv(p)'
  PROVE  IInv'
<1>1. /\ TypeOK /\ ProcInv(p) /\ pc[p] \notin Resting /\ pc[p] \in Working
      /\ key[p] \in Keys /\ rec[key[p]] = cap[p] /\ cap[p] \in Payloads
  BY WritingFacts
<1>2. tmp[p].new = New(p) /\ tmp[p] # NoTmp
  BY <1>1 DEF ProcInv, TxnInv
<1>3. rec' = [rec EXCEPT ![key[p]] = New(p)] /\ cap' = [cap EXCEPT ![p] = New(p)]
  BY <1>1, <1>2 DEF TxnCommit
<1>4. /\ rec' \in [Keys -> Payloads] /\ rec'[key[p]] = New(p)
      /\ cap' \in [Procs -> Payloads] /\ cap'[p] = New(p)
      /\ \A j \in Keys \ {key[p]} : rec'[j] = rec[j]
  BY <1>1, <1>3 DEF TypeOK
<1>5. NamesInv' /\ RecordDescribesTree' /\ SessionTemplateWhole'
  <2> PICK k \in Keys : k = key[p]
    BY <1>1
  <2>1. Described(k)' /\ ~Reachable(k)
    BY <1>3
  <2>2. UNCHANGED <<at, content, mode, session>>
    BY DEF WriteFrame, diskVars
  <2>3. NamesInv /\ RecordDescribesTree /\ SessionTemplateWhole
    BY DEF IInv
  <2> QED
    BY <1>1, <1>4, <2>1, <2>2, <2>3, RecordMoves
<1>6. GcSteps \cap Working \subseteq Swept
  BY DEF Working, Seeking, Swept
<1>7. /\ \A k \in Keys : Reachable(k)' <=> Reachable(k)
      /\ key' = key /\ todo' = todo /\ needed' = needed
  BY DEF WriteFrame, procVars, Reachable
<1>10. pc[p] \in GcSteps \ {"census"} =>
         /\ \A k \in Keys : k \in todo[p] \/ Settled(p, k)' \/ k = key[p]
         /\ \A k \in todo[p] : rec'[k].st \in {"Ready", "Tombstoned"}
  <2> SUFFICES ASSUME pc[p] \in GcSteps \ {"census"}
               PROVE  /\ \A k \in Keys : k \in todo[p] \/ Settled(p, k)' \/ k = key[p]
                      /\ \A k \in todo[p] : rec'[k].st \in {"Ready", "Tombstoned"}
    OBVIOUS
  <2>1. GcInv(p) /\ todo[p] \subseteq Keys
    BY <1>1 DEF ProcInv, TypeOK
  <2>2. \A k \in Keys : k \in todo[p] \/ Settled(p, k)' \/ k = key[p]
    BY <1>4, <1>7, <2>1 DEF GcInv, Settled
  <2>3. \A k \in todo[p] : rec'[k].st \in {"Ready", "Tombstoned"}
    BY <1>1, <1>4, <2>1 DEF GcInv
  <2> QED
    BY <2>2, <2>3
<1>8. CASE cap[p] = Absent
  <2>1. tmp' = [tmp EXCEPT ![p] = NoTmp] /\ Goto(p, to)
    BY <1>1, <1>8 DEF TxnCommit
  <2>2. ControlOK' /\ pc'[p] = to /\ txn'[p] = "none" /\ Turn(p)
    BY <1>1, <1>7, <2>1, WorkingOn, GotoMoves DEF WriteFrame
  <2>3. DataOK'
    BY <1>1, <1>4, <2>1 DEF TypeOK, DataOK, WriteFrame, diskVars, procVars
  <2>4. PlaceInv(p)'
    BY <1>3, <1>4, <1>8, <2>2
  <2>5. WorkInv(p)' /\ TxnInv(p)'
    BY <1>1, <1>4, <1>7, <2>2 DEF WorkInv, TxnInv, Working, Resting, Seeking
  <2>6. tmp'[p] = NoTmp /\ \A q \in Procs \ {p} : tmp'[q] = tmp[q]
    BY <1>1, <2>1 DEF TypeOK
  <2>7. GcInv(p)'
    <3>1. /\ pc'[p] \in Swept => pc[p] \in Swept
          /\ pc'[p] \in GcSteps => pc[p] \in GcSteps \ {"census"}
      BY <1>1, <1>6, <2>2 DEF Swept
    <3> QED
      BY <1>1, <1>7, <1>10, <2>2, <2>6, <3>1 DEF ProcInv, GcInv
  <2> QED
    BY <1>1, <1>5, <2>2, <2>3, <2>4, <2>5, <2>7, TypeParts, TurnStep DEF ProcInv
<1>9. CASE cap[p] # Absent
  <2> DEFINE t == [tmp[p] EXCEPT !.new = rec[key[p]]]
  <2>1. tmp' = [tmp EXCEPT ![p] = t] /\ Within(p, "exchanged")
    BY <1>1, <1>9 DEF TxnCommit
  <2>2. ControlOK' /\ pc' = pc /\ txn'[p] = "exchanged" /\ Turn(p)
    BY <1>1, <1>7, <2>1, WithinMoves DEF TxnPhases, WriteFrame
  <2>3. t \in [key : Keys, new : Payloads \cup {Torn}] /\ t # NoTmp
    <3>1. t \in [key : Keys, new : Payloads \cup {Torn}]
      BY <1>1, <1>2, TmpTypes
    <3> QED
      BY <3>1, NoneAssumption DEF NoTmp
  <2> HIDE DEF t
  <2>4. DataOK'
    BY <1>1, <1>4, <2>1, <2>3 DEF TypeOK, DataOK, WriteFrame, diskVars, procVars
  <2>5. PlaceInv(p)'
    BY <1>3, <1>4, <1>9, <2>2
  <2>6. tmp'[p] = t /\ \A q \in Procs \ {p} : tmp'[q] = tmp[q]
    BY <1>1, <2>1 DEF TypeOK
  <2>7. WorkInv(p)' /\ TxnInv(p)'
    BY <1>1, <1>4, <1>7, <2>2, <2>3, <2>6 DEF WorkInv, TxnInv, Working, Resting, Seeking
  <2>8. GcInv(p)'
    <3>1. GcInv(p) /\ pc'[p] = pc[p]
      BY <1>1, <2>2 DEF ProcInv
    <3>2. pc[p] \in Swept => \A q \in Procs \ {p} : tmp'[q] = NoTmp
      BY <2>6, <3>1 DEF GcInv
    <3> QED
      BY <1>1, <1>7, <1>10, <2>2, <3>1, <3>2 DEF GcInv
  <2> QED
    BY <1>1, <1>5, <2>2, <2>4, <2>5, <2>7, <2>8, TypeParts, TurnStep DEF ProcInv
<1> QED
  BY <1>8, <1>9

\* The displaced record is removed, and the command goes on.
LEMMA TxnEnds ==
  ASSUME IInv, NEW p \in Procs, pc[p] \in Writing, NEW to \in Working \ Writing,
         to \notin GcSteps \/ pc[p] \in GcSteps,
         TxnUnlink(p, to), UNCHANGED <<rec, cap, faults>>, WriteFrame,
         pc'[p] = to /\ txn'[p] = "none" => PlaceInv(p)'
  PROVE  IInv'
<1>1. /\ TypeOK /\ ProcInv(p) /\ pc[p] \notin Resting /\ pc[p] \in Working
      /\ key[p] \in Keys /\ rec[key[p]] = cap[p]
  BY WritingFacts
<1>2. tmp' = [tmp EXCEPT ![p] = NoTmp] /\ Goto(p, to)
  BY DEF TxnUnlink
<1>3. ControlOK' /\ pc'[p] = to /\ txn'[p] = "none" /\ Turn(p)
  BY <1>1, <1>2, WorkingOn, GotoMoves DEF WriteFrame, procVars
<1>4. NamesInv' /\ RecordDescribesTree' /\ SessionTemplateWhole'
  BY DiskStays DEF IInv, WriteFrame, diskVars
<1>5. DataOK'
  BY <1>1, <1>2 DEF TypeOK, DataOK, WriteFrame, diskVars, procVars
<1>6. WorkInv(p)' /\ TxnInv(p)'
  BY <1>1, <1>3 DEF WorkInv, TxnInv, Working, Resting, Seeking, WriteFrame, procVars
<1>7. tmp'[p] = NoTmp /\ \A q \in Procs \ {p} : tmp'[q] = tmp[q]
  BY <1>1, <1>2 DEF TypeOK
<1>8. GcSteps \cap Working \subseteq Swept
  BY DEF Working, Seeking, Swept
<1>9. GcInv(p)'
  BY <1>1, <1>3, <1>7, <1>8 DEF ProcInv, GcInv, Settled, Swept, WriteFrame, procVars, Reachable
<1> QED
  BY <1>1, <1>3, <1>4, <1>5, <1>6, <1>9, TypeParts, TurnStep DEF ProcInv

\* A record transaction from one place to the next.
LEMMA WriteKeeps ==
  ASSUME IInv, NEW p \in Procs, NEW from \in Writing, NEW to \in Working \ Writing,
         to \notin GcSteps \/ from \in GcSteps,
         NEW new \in Payloads, WriteRecord(p, from, new, to), new = New(p),
         txn[p] # "exchanged" => ~Reachable(key[p]),
         \A k \in Keys : k = key[p] /\ ~Exchanged(p) /\ rec' = [rec EXCEPT ![k] = new]
           => Described(k)',
         rec' = [rec EXCEPT ![key[p]] = new] /\ cap'[p] = new /\ WriteFrame
           /\ (IF cap[p] = Absent THEN pc'[p] = to /\ txn'[p] = "none"
               ELSE pc'[p] = from /\ txn'[p] = "exchanged") => PlaceInv(p)',
         txn[p] = "exchanged" /\ UNCHANGED <<rec, cap>> /\ WriteFrame
           /\ pc'[p] = to /\ txn'[p] = "none" => PlaceInv(p)'
  PROVE  IInv'
<1>1. pc[p] = from /\ WriteFrame
  BY DEF WriteRecord, WriteFrame
<1>2. CASE TxnBegin(p, new) /\ UNCHANGED <<rec, cap, faults>>
  BY <1>1, <1>2, TxnBegins
<1>3. CASE TxnCommit(p, to) /\ UNCHANGED faults
  <2>1. txn[p] = "written"
    BY <1>3 DEF TxnCommit
  <2> QED
    BY <1>1, <1>3, <2>1, TxnCommits DEF Exchanged
<1>4. CASE TxnUnlink(p, to) /\ UNCHANGED <<rec, cap, faults>>
  <2>1. txn[p] = "exchanged"
    BY <1>4 DEF TxnUnlink
  <2> QED
    BY <1>1, <1>4, <2>1, TxnEnds
<1>5. CASE TxnAbort(p) /\ UNCHANGED <<rec, cap>>
  <2>1. faults' \in 0..MaxFaults
    BY <1>5, FaultType DEF TxnAbort, IInv
  <2> QED
    BY <1>1, <1>5, <2>1, TxnFails DEF TxnAbort
<1> QED
  BY <1>2, <1>3, <1>4, <1>5 DEF WriteRecord

\* What is on disk when the record of a template is in each state.
LEMMA TreeOf ==
  ASSUME IInv, NEW k \in Keys
  PROVE  LET r == rec[k]
         IN  /\ r \in Payloads
             /\ r.st = "Absent" => Gone(k)
             /\ r.st = "Prepared" =>
                  /\ Vacant(k, "root") /\ Vacant(k, "tombstone")
                  /\ ~Vacant(k, "building") =>
                       content[at[k]["building"]] = "empty" /\ mode[at[k]["building"]] = "private"
             /\ r.st = "Materializing" => Only(k, "building", r.dir)
             /\ r.st = "Publishing" =>
                  Publishable(r.dir) /\ (Only(k, "building", r.dir) \/ Only(k, "root", r.dir))
             /\ r.st = "Ready" => Only(k, "root", r.dir) /\ Sealed(r.dir)
             /\ r.st # "Ready" => ~Reachable(k)
<1>1. TypeOK /\ SessionTemplateWhole /\ rec[k] \in Payloads /\ Described(k)
  BY Parts DEF IInv, TypeOK
<1>2. rec[k] = Absent <=> rec[k].st = "Absent"
  BY <1>1, PayloadKinds
<1>3. rec[k].st # "Ready" => ~Reachable(k)
  BY <1>1, Unreached
<1> QED
  BY <1>1, <1>2, <1>3 DEF Described

LEMMA PrepareKeeps ==
  ASSUME IInv, NEW p \in Procs, Prepare(p)
  PROVE  IInv'
<1> DEFINE new == Payload("Prepared", p, NoDir)
<1>1. pc[p] = "prepare" /\ pc[p] \in Writing
  BY DEF Prepare, WriteRecord, Writing
<1>2. /\ ProcInv(p) /\ key[p] \in Keys /\ rec[key[p]] = cap[p]
      /\ cap[p] = Absent /\ ~Exchanged(p)
  BY <1>1, WritingFacts DEF ProcInv, PlaceInv
<1>3. new \in Payloads /\ new = New(p) /\ new.st = "Prepared"
  BY <1>1, PayloadFacts DEF New
<1>4. Gone(key[p]) /\ ~Reachable(key[p])
  BY <1>2, TreeOf, PayloadFacts
<1>5. ASSUME NEW k \in Keys, k = key[p], rec' = [rec EXCEPT ![k] = new]
      PROVE  Described(k)'
  <2>1. rec'[k] = new /\ at' = at
    BY <1>5 DEF IInv, TypeOK, Prepare, WriteRecord, diskVars
  <2> QED
    BY <1>3, <1>4, <1>5, <2>1 DEF Described, Gone, Vacant, Names
<1>6. pc'[p] = "advance" /\ cap'[p] = new => PlaceInv(p)'
  BY <1>3 DEF PlaceInv, Retiring
<1>7. "advance" \in Working \ Writing /\ "advance" \notin GcSteps /\ "prepare" \in Writing
  BY DEF Working, Writing, Locations, CreateSteps, GcSteps, Resting, Seeking
<1> HIDE DEF new
<1> QED
  BY <1>2, <1>3, <1>4, <1>5, <1>6, <1>7, WriteKeeps DEF Prepare, Exchanged, new

LEMMA MaterializingKeeps ==
  ASSUME IInv, NEW p \in Procs, Materializing(p)
  PROVE  IInv'
<1>1. pc[p] = "materializing" /\ pc[p] \in Writing
  BY DEF Materializing, WriteRecord, Writing
<1>2. /\ TypeOK /\ ProcInv(p) /\ key[p] \in Keys /\ rec[key[p]] = cap[p] /\ cap[p] \in Payloads
      /\ IF Exchanged(p) THEN cap[p].st = "Materializing"
         ELSE cap[p].st = "Prepared" /\ ~Vacant(key[p], "building")
  BY <1>1, WritingFacts DEF ProcInv, PlaceInv
<1>3. PICK d : d = at[key[p]]["building"]
  OBVIOUS
<1>4. d \in Dirs /\ d # NoDir
  <2>1. CASE Exchanged(p)
    BY <1>2, <1>3, <2>1, TreeOf, PayloadKinds, OnlyIs DEF Names
  <2>2. CASE ~Exchanged(p)
    BY <1>2, <1>3, <2>2 DEF Vacant, TypeOK, Names
  <2> QED
    BY <2>1, <2>2
<1>5. PICK new : new = Payload("Materializing", cap[p].by, d)
  OBVIOUS
<1>6. new \in Payloads /\ new = New(p) /\ new.st = "Materializing" /\ new.dir = d
  BY <1>1, <1>2, <1>3, <1>4, <1>5, PayloadFacts, PayloadKinds DEF New
<1>7. ~Reachable(key[p]) /\ cap[p] # Absent
  BY <1>2, TreeOf, PayloadFacts
<1>8. ASSUME NEW k \in Keys, k = key[p], ~Exchanged(p), rec' = [rec EXCEPT ![k] = new]
      PROVE  Described(k)'
  <2>1. rec'[k] = new /\ at' = at
    BY <1>2, <1>8 DEF TypeOK, Materializing, WriteRecord, diskVars
  <2>2. Only(k, "building", d)
    BY <1>2, <1>3, <1>4, <1>8, TreeOf, OnlyIs DEF Names, Vacant
  <2> QED
    BY <1>6, <2>1, <2>2 DEF Described, Only
<1>9. pc'[p] = "materializing" /\ txn'[p] = "exchanged" /\ cap'[p] = new => PlaceInv(p)'
  BY <1>6 DEF PlaceInv, Retiring, Exchanged
<1>10. pc'[p] = "fill" /\ txn[p] = "exchanged" /\ UNCHANGED cap => PlaceInv(p)'
  BY <1>2 DEF PlaceInv, Retiring, Exchanged
<1>11. "fill" \in Working \ Writing /\ "fill" \notin GcSteps /\ "materializing" \in Writing
  BY DEF Working, Writing, Locations, CreateSteps, GcSteps, Resting, Seeking
<1>12. WriteRecord(p, "materializing", new, "fill")
  BY <1>3, <1>5 DEF Materializing
<1> QED
  BY <1>6, <1>7, <1>8, <1>9, <1>10, <1>11, <1>12, WriteKeeps

LEMMA PublishingKeeps ==
  ASSUME IInv, NEW p \in Procs, Publishing(p)
  PROVE  IInv'
<1>1. pc[p] = "publishing" /\ pc[p] \in Writing
  BY DEF Publishing, WriteRecord, Writing
<1>2. /\ TypeOK /\ ProcInv(p) /\ key[p] \in Keys /\ rec[key[p]] = cap[p] /\ cap[p] \in Payloads
      /\ IF Exchanged(p) THEN cap[p].st = "Publishing"
         ELSE cap[p].st = "Materializing" /\ Sealed(cap[p].dir)
  BY <1>1, WritingFacts DEF ProcInv, PlaceInv
<1>3. PICK d : d = cap[p].dir
  OBVIOUS
<1>4. PICK new : new = Payload("Publishing", cap[p].by, d)
  OBVIOUS
<1>5. new \in Payloads /\ new = New(p) /\ new.st = "Publishing" /\ new.dir = d
  BY <1>1, <1>2, <1>3, <1>4, PayloadFacts, PayloadKinds DEF New
<1>6. ~Reachable(key[p]) /\ cap[p] # Absent
  BY <1>2, TreeOf, PayloadFacts
<1>7. ASSUME NEW k \in Keys, k = key[p], ~Exchanged(p), rec' = [rec EXCEPT ![k] = new]
      PROVE  Described(k)'
  <2>1. rec'[k] = new /\ UNCHANGED <<at, content, mode>>
    BY <1>2, <1>7 DEF TypeOK, Publishing, WriteRecord, diskVars
  <2>2. Only(k, "building", d) /\ Sealed(d)
    BY <1>2, <1>3, <1>7, TreeOf
  <2> QED
    BY <1>5, <2>1, <2>2 DEF Described, Only, Sealed, Publishable
<1>8. pc'[p] = "publishing" /\ txn'[p] = "exchanged" /\ cap'[p] = new => PlaceInv(p)'
  BY <1>5 DEF PlaceInv, Retiring, Exchanged
<1>9. pc'[p] = "publish" /\ txn[p] = "exchanged" /\ UNCHANGED cap => PlaceInv(p)'
  BY <1>2 DEF PlaceInv, Retiring, Exchanged
<1>10. "publish" \in Working \ Writing /\ "publish" \notin GcSteps /\ "publishing" \in Writing
  BY DEF Working, Writing, Locations, CreateSteps, GcSteps, Resting, Seeking
<1>11. WriteRecord(p, "publishing", new, "publish")
  BY <1>3, <1>4 DEF Publishing
<1> QED
  BY <1>5, <1>6, <1>7, <1>8, <1>9, <1>10, <1>11, WriteKeeps

LEMMA ReadyKeeps ==
  ASSUME IInv, NEW p \in Procs, Ready(p)
  PROVE  IInv'
<1>1. pc[p] = "ready" /\ pc[p] \in Writing
  BY DEF Ready, WriteRecord, Writing
<1>2. /\ TypeOK /\ ProcInv(p) /\ key[p] \in Keys /\ rec[key[p]] = cap[p] /\ cap[p] \in Payloads
      /\ IF Exchanged(p) THEN cap[p].st = "Ready"
         ELSE cap[p].st = "Publishing" /\ Only(key[p], "root", cap[p].dir) /\ Sealed(cap[p].dir)
  BY <1>1, WritingFacts DEF ProcInv, PlaceInv
<1>3. PICK d : d = cap[p].dir
  OBVIOUS
<1>4. PICK new : new = Payload("Ready", NoProc, d)
  OBVIOUS
<1>5. new \in Payloads /\ new = New(p) /\ new.st = "Ready" /\ new.dir = d
  BY <1>1, <1>2, <1>3, <1>4, PayloadFacts, PayloadKinds DEF New
<1>6. (~Exchanged(p) => ~Reachable(key[p])) /\ cap[p] # Absent
  BY <1>2, TreeOf, PayloadFacts
<1>7. ASSUME NEW k \in Keys, k = key[p], ~Exchanged(p), rec' = [rec EXCEPT ![k] = new]
      PROVE  Described(k)'
  <2>1. rec'[k] = new /\ UNCHANGED <<at, content, mode>>
    BY <1>2, <1>7 DEF TypeOK, Ready, WriteRecord, diskVars
  <2>2. Only(k, "root", d) /\ Sealed(d)
    BY <1>2, <1>3, <1>7
  <2> QED
    BY <1>5, <2>1, <2>2 DEF Described, Only, Sealed
<1>8. pc'[p] = "ready" /\ txn'[p] = "exchanged" /\ cap'[p] = new => PlaceInv(p)'
  BY <1>5 DEF PlaceInv, Retiring, Exchanged
<1>9. pc'[p] = "share" /\ txn[p] = "exchanged" /\ UNCHANGED cap => PlaceInv(p)'
  BY <1>2 DEF PlaceInv, Retiring, Exchanged
<1>10. "share" \in Working \ Writing /\ "share" \notin GcSteps /\ "ready" \in Writing
  BY DEF Working, Writing, Locations, CreateSteps, GcSteps, Resting, Seeking
<1>11. WriteRecord(p, "ready", new, "share")
  BY <1>3, <1>4 DEF Ready
<1> QED
  BY <1>5, <1>6, <1>7, <1>8, <1>9, <1>10, <1>11, WriteKeeps DEF Exchanged

LEMMA TombstoneKeeps ==
  ASSUME IInv, NEW p \in Procs,
         WriteRecord(p, "tombstone", Payload("Tombstoned", NoProc, cap[p].dir), "retire")
  PROVE  IInv'
<1>1. pc[p] = "tombstone" /\ pc[p] \in Writing
  BY DEF WriteRecord, Writing
<1>2. /\ TypeOK /\ ProcInv(p) /\ key[p] \in Keys /\ rec[key[p]] = cap[p] /\ cap[p] \in Payloads
      /\ IF Exchanged(p) THEN cap[p].st = "Tombstoned"
         ELSE cap[p].st = "Ready" /\ ~Reachable(key[p])
  BY <1>1, WritingFacts DEF ProcInv, PlaceInv
<1>3. PICK d : d = cap[p].dir
  OBVIOUS
<1>4. PICK new : new = Payload("Tombstoned", NoProc, d)
  OBVIOUS
<1>5. new \in Payloads /\ new = New(p) /\ new.st = "Tombstoned" /\ new.dir = d
  BY <1>1, <1>2, <1>3, <1>4, PayloadFacts, PayloadKinds DEF New
<1>6. cap[p] # Absent
  BY <1>2, PayloadFacts
<1>7. ASSUME NEW k \in Keys, k = key[p], ~Exchanged(p), rec' = [rec EXCEPT ![k] = new]
      PROVE  Described(k)'
  <2>1. rec'[k] = new /\ UNCHANGED <<at, content, mode>>
    BY <1>2, <1>7 DEF TypeOK, WriteRecord, diskVars
  <2>2. Only(k, "root", d) /\ Sealed(d)
    BY <1>2, <1>3, <1>7, TreeOf
  <2> QED
    BY <1>5, <2>1, <2>2 DEF Described, Only, Sealed
<1>8. pc'[p] = "tombstone" /\ txn'[p] = "exchanged" /\ cap'[p] = new => PlaceInv(p)'
  BY <1>5 DEF PlaceInv, Retiring, Exchanged
<1>9. pc'[p] = "retire" /\ txn[p] = "exchanged" /\ UNCHANGED cap => PlaceInv(p)'
  BY <1>2 DEF PlaceInv, Retiring, Exchanged
<1>10. "retire" \in Working \ Writing /\ "tombstone" \in GcSteps /\ "tombstone" \in Writing
  BY DEF Working, Writing, Locations, CreateSteps, GcSteps, Resting, Seeking
<1>11. WriteRecord(p, "tombstone", new, "retire")
  BY <1>3, <1>4
<1> QED
  BY <1>2, <1>5, <1>6, <1>7, <1>8, <1>9, <1>10, <1>11, WriteKeeps DEF Exchanged

(***************************************************************************)
(* create.                                                                 *)
(***************************************************************************)
LEMMA CreateProc ==
  ASSUME NEW p \in Procs, pc'[p] \in CreateSteps, txn'[p] = "none", key'[p] \in Keys,
         rec'[key'[p]] = cap'[p], PlaceInv(p)'
  PROVE  ProcInv(p)'
<1>1. pc'[p] \notin Resting \cup Swept \cup GcSteps
  BY DEF CreateSteps, GcSteps, Resting, Swept
<1>2. WorkInv(p)' /\ TxnInv(p)' /\ GcInv(p)'
  BY <1>1 DEF WorkInv, TxnInv, GcInv, Resting
<1> QED
  BY <1>2 DEF ProcInv

LEMMA WorkFacts ==
  ASSUME IInv, NEW p \in Procs, pc[p] \in Working
  PROVE  /\ TypeOK /\ ProcInv(p) /\ PlaceInv(p) /\ pc[p] \notin Resting
         /\ key[p] \in Keys /\ rec[key[p]] = cap[p] /\ cap[p] \in Payloads
         /\ pc[p] \notin Writing => txn[p] = "none"
BY WorkingOn DEF IInv, ProcInv, WorkInv, TypeOK, TxnInv

LEMMA CreateNames ==
  /\ CreateSteps \cap Working = CreateSteps \ {"acquire"} /\ CreateSteps \cap GcSteps = {}
  /\ CreateSteps \cap Writing = {"prepare", "materializing", "publishing", "ready"}
BY DEF CreateSteps, GcSteps, Working, Writing, Locations, Resting, Seeking

LEMMA AcquireKeeps ==
  ASSUME IInv, NEW p \in Procs, Acquire(p)
  PROVE  IInv'
<1>1. /\ TypeOK /\ ProcInv(p) /\ pc[p] = "acquire" /\ pc[p] \notin Resting
      /\ key[p] \in Keys /\ rec[key[p]] \in Payloads
  BY DEF IInv, Acquire, ProcInv, WorkInv, Resting, TypeOK
<1>2. /\ cap' = [cap EXCEPT ![p] = rec[key[p]]] /\ cap'[p] = rec[key[p]]
      /\ UNCHANGED <<rec, diskVars, session, op, procVars, tmp, faults>>
  BY <1>1 DEF Acquire, TypeOK
<1>3. NamesInv' /\ RecordDescribesTree' /\ SessionTemplateWhole'
  BY <1>2, DiskStays DEF IInv, diskVars
<1>4. DataOK'
  BY <1>1, <1>2 DEF TypeOK, DataOK, diskVars, procVars
<1>5. CASE Exit(p, "failed")
  BY <1>1, <1>2, <1>3, <1>4, <1>5, ExitStep DEF Results, procVars
<1>6. ASSUME NEW to \in {"prepare", "advance", "publish", "share"}, Goto(p, to),
             pc'[p] = to => PlaceInv(p)'
      PROVE  IInv'
  <2>1. to \in CreateSteps
    BY DEF CreateSteps
  <2>2. ControlOK' /\ pc'[p] = to /\ txn'[p] = "none" /\ Turn(p)
    BY <1>1, <1>2, <1>6, <2>1, GotoMoves DEF procVars
  <2>3. ProcInv(p)'
    BY <1>1, <1>2, <1>6, <2>1, <2>2, CreateProc DEF procVars
  <2> QED
    BY <1>1, <1>3, <1>4, <2>2, <2>3, TypeParts, TurnStep
<1>7. CASE rec[key[p]] = Absent /\ Goto(p, "prepare")
  <2>1. pc'[p] = "prepare" => PlaceInv(p)'
    BY <1>1, <1>2, <1>7 DEF PlaceInv, Retiring, Exchanged, Goto, TypeOK
  <2> QED
    BY <1>6, <1>7, <2>1
<1>8. CASE rec[key[p]].st = "Prepared" /\ Goto(p, "advance")
  <2>1. pc'[p] = "advance" => PlaceInv(p)'
    BY <1>2, <1>8 DEF PlaceInv, Retiring
  <2> QED
    BY <1>6, <1>8, <2>1
<1>9. CASE rec[key[p]].st = "Publishing" /\ Goto(p, "publish")
  <2>1. pc'[p] = "publish" => PlaceInv(p)'
    BY <1>2, <1>9 DEF PlaceInv, Retiring
  <2> QED
    BY <1>6, <1>9, <2>1
<1>10. CASE rec[key[p]].st = "Ready" /\ Goto(p, "share")
  <2>1. pc'[p] = "share" => PlaceInv(p)'
    BY <1>2, <1>10 DEF PlaceInv, Retiring
  <2> QED
    BY <1>6, <1>10, <2>1
<1> QED
  BY <1>5, <1>7, <1>8, <1>9, <1>10 DEF Acquire

\* A tree belongs to one template.
LEMMA OwnTree ==
  ASSUME IInv, NEW k \in Keys, NEW n \in Names, NEW d, Only(k, n, d)
  PROVE  /\ d \in Dirs /\ d # NoDir /\ content[d] # "unused"
         /\ \A j \in Keys \ {k} : \A m \in Names : at[j][m] # d
<1>1. TypeOK /\ NamesInv
  BY DEF IInv
<1>2. d # NoDir /\ at[k][n] = d
  BY <1>1, OnlyIs
<1> QED
  BY <1>1, <1>2 DEF NamesInv, Vacant, TypeOK

\* The tree of a template no session names is changed, or gets another name.
LEMMA OwnTreeMoves ==
  ASSUME IInv, TypeOK', NEW k \in Keys, NEW n \in Names, NEW d, Only(k, n, d),
         UNCHANGED <<rec, session>>, \A j \in Keys \ {k} : at'[j] = at[j],
         \A e \in Dirs \ {d} : content'[e] = content[e] /\ mode'[e] = mode[e],
         \A m \in Names : at'[k][m] # NoDir => at'[k][m] = d /\ content'[d] # "unused",
         ~Reachable(k), Described(k)'
  PROVE  NamesInv' /\ RecordDescribesTree' /\ SessionTemplateWhole'
<1>1. TypeOK /\ NamesInv /\ RecordDescribesTree /\ SessionTemplateWhole
  BY DEF IInv
<1>2. d \in Dirs /\ \A j \in Keys \ {k} : \A m \in Names : at[j][m] # d
  BY OwnTree
<1> QED
  BY <1>1, <1>2, TreeMoves

\* A step of create on its tree.
LEMMA CreateTree ==
  ASSUME IInv, NEW p \in Procs, pc[p] \in Working, NEW to \in CreateSteps \ {"acquire"},
         Goto(p, to), UNCHANGED <<rec, session, op, procVars, cap, tmp, faults>>,
         at' \in [Keys -> [Names -> Dirs \cup {NoDir}]], content' \in [Dirs -> Contents],
         mode' \in [Dirs -> Modes],
         TypeOK' => NamesInv' /\ RecordDescribesTree' /\ SessionTemplateWhole',
         pc'[p] = to => PlaceInv(p)'
  PROVE  IInv'
<1>1. /\ TypeOK /\ ProcInv(p) /\ pc[p] \notin Resting
      /\ key[p] \in Keys /\ rec[key[p]] = cap[p]
  BY WorkFacts
<1>2. ControlOK' /\ pc'[p] = to /\ txn'[p] = "none" /\ Turn(p)
  BY <1>1, GotoMoves DEF procVars
<1>3. DataOK'
  BY <1>1 DEF TypeOK, DataOK, procVars
<1>4. ProcInv(p)'
  BY <1>1, <1>2, CreateProc DEF procVars
<1> QED
  BY <1>1, <1>2, <1>3, <1>4, TypeParts, TurnStep

LEMMA MakeRootKeeps ==
  ASSUME IInv, NEW p \in Procs, MakeRoot(p)
  PROVE  IInv'
<1>1. pc[p] = "advance" /\ pc[p] \in Working /\ pc[p] \notin Writing /\ pc[p] \in CreateSteps
  BY CreateNames DEF MakeRoot, CreateSteps
<1>2. /\ TypeOK /\ PlaceInv(p) /\ pc[p] \notin Resting /\ txn[p] = "none"
      /\ key[p] \in Keys /\ rec[key[p]] = cap[p] /\ cap[p].st = "Prepared"
  BY <1>1, WorkFacts DEF PlaceInv
<1>3. PICK k \in Keys : k = key[p]
  BY <1>2
<1>4. PICK d \in Dirs :
        /\ content[d] = "unused"
        /\ at' = [at EXCEPT ![k]["building"] = d]
        /\ content' = [content EXCEPT ![d] = "empty"]
        /\ mode' = [mode EXCEPT ![d] = "private"]
  BY <1>3 DEF MakeRoot
<1>5. /\ Vacant(k, "building") /\ Vacant(k, "root") /\ Vacant(k, "tombstone")
      /\ rec[k].st = "Prepared" /\ ~Reachable(k)
  BY <1>2, <1>3, TreeOf DEF MakeRoot
<1>6. /\ at' \in [Keys -> [Names -> Dirs \cup {NoDir}]] /\ at'[k]["building"] = d
      /\ at'[k]["root"] = NoDir /\ at'[k]["tombstone"] = NoDir
      /\ \A j \in Keys \ {k} : at'[j] = at[j]
  <2>1. at[k] \in [Names -> Dirs \cup {NoDir}] /\ "building" \in Names /\ "root" \in Names
          /\ "tombstone" \in Names
    BY <1>2 DEF TypeOK, Names
  <2>2. at' = [at EXCEPT ![k] = [at[k] EXCEPT !["building"] = d]]
    BY <1>4
  <2>3. at'[k] = [at[k] EXCEPT !["building"] = d]
    BY <1>2, <2>2 DEF TypeOK
  <2>4. at'[k] \in [Names -> Dirs \cup {NoDir}]
    BY <2>1, <2>3
  <2> QED
    BY <1>2, <1>5, <2>1, <2>2, <2>3, <2>4 DEF TypeOK, Vacant
<1>7. /\ content' \in [Dirs -> Contents] /\ mode' \in [Dirs -> Modes]
      /\ content'[d] = "empty" /\ mode'[d] = "private"
      /\ \A e \in Dirs \ {d} : content'[e] = content[e] /\ mode'[e] = mode[e]
  BY <1>2, <1>4 DEF TypeOK, Contents, Modes
<1>8. \A j \in Keys : \A n \in Names : at[j][n] # d
  BY <1>4, NoneAssumption DEF IInv, NamesInv, Vacant
<1>9. Described(k)'
  BY <1>5, <1>6, <1>7 DEF Described, Vacant, MakeRoot
<1>10. TypeOK'
  BY <1>2, <1>6, <1>7 DEF TypeOK, MakeRoot, procVars
<1>11. NamesInv' /\ RecordDescribesTree' /\ SessionTemplateWhole'
  <2>1. \A n \in Names : at'[k][n] # NoDir => at'[k][n] = d /\ content'[d] # "unused"
    BY <1>6, <1>7 DEF Names
  <2>2. NamesInv /\ RecordDescribesTree /\ SessionTemplateWhole /\ UNCHANGED <<rec, session>>
    BY DEF IInv, MakeRoot
  <2> QED
    BY <1>2, <1>5, <1>6, <1>7, <1>8, <1>9, <1>10, <2>1, <2>2, TreeMoves
<1>12. PlaceInv(p)' /\ Turn(p)
  BY <1>1, <1>2 DEF PlaceInv, Retiring, MakeRoot, Turn, procVars, Resting
<1>13. ProcInv(p)'
  BY <1>1, <1>2, <1>12, CreateProc DEF MakeRoot, procVars
<1> QED
  BY <1>2, <1>10, <1>11, <1>12, <1>13, TurnStep

LEMMA AdvanceKeeps ==
  ASSUME IInv, NEW p \in Procs, Advance(p)
  PROVE  IInv'
<1>1. CASE MakeRoot(p)
  BY <1>1, MakeRootKeeps
<1>2. CASE ~MakeRoot(p)
  <2>1. /\ pc[p] = "advance" /\ ~(Vacant(key[p], "building") /\ Vacant(key[p], "root"))
        /\ UNCHANGED <<rec, diskVars, session, op, procVars, cap, tmp, faults>>
        /\ \/ Vacant(key[p], "root") /\ Goto(p, "materializing")
           \/ Exit(p, "failed")
    BY <1>2 DEF Advance, Check
  <2>2. pc[p] \in Working /\ pc[p] \notin Writing /\ "materializing" \in Working
        /\ "materializing" \notin GcSteps
    BY <2>1, CreateNames DEF CreateSteps
  <2>3. /\ TypeOK /\ PlaceInv(p) /\ pc[p] \notin Resting /\ txn[p] = "none"
        /\ cap[p].st = "Prepared"
    BY <2>1, <2>2, WorkFacts DEF PlaceInv
  <2>4. CASE Vacant(key[p], "root") /\ Goto(p, "materializing")
    <3>1. pc'[p] = "materializing" /\ txn'[p] = "none"
      BY <2>3, <2>4 DEF Goto, TypeOK
    <3>2. PlaceInv(p)'
      BY <2>1, <2>3, <2>4, <3>1 DEF PlaceInv, Retiring, Exchanged, Vacant, diskVars, procVars
    <3> QED
      BY <2>1, <2>2, <2>3, <2>4, <3>2, GoesOn
  <2>5. CASE Exit(p, "failed")
    <3>1. faults' \in 0..MaxFaults
      BY <2>1, <2>3 DEF TypeOK
    <3> QED
      BY <2>1, <2>3, <2>5, <3>1, Ends DEF Results
  <2> QED
    BY <2>1, <2>4, <2>5
<1> QED
  BY <1>1, <1>2

\* Writing a tree that is being materialized does not change what its record says of it.
LEMMA FillTree ==
  ASSUME IInv, TypeOK', NEW p \in Procs, pc[p] \in {"fill", "finish", "seal"},
         UNCHANGED <<rec, at, session>>,
         \A e \in Dirs \ {cap[p].dir} : content'[e] = content[e] /\ mode'[e] = mode[e],
         content'[cap[p].dir] # "unused"
  PROVE  NamesInv' /\ RecordDescribesTree' /\ SessionTemplateWhole'
<1>1. pc[p] \in Working /\ pc[p] \notin Writing
  BY CreateNames DEF CreateSteps
<1>2. PICK k \in Keys : k = key[p]
  BY <1>1, WorkFacts
<1>3. PICK d : d = cap[p].dir
  OBVIOUS
<1>4. rec[k].st = "Materializing" /\ rec[k].dir = d
  BY <1>1, <1>2, <1>3, WorkFacts DEF PlaceInv
<1>5. Only(k, "building", d) /\ ~Reachable(k)
  BY <1>4, TreeOf
<1>6. Described(k)'
  BY <1>4, <1>5 DEF Described, Only
<1>7. \A m \in Names : at[k][m] # NoDir => at[k][m] = d
  BY <1>5 DEF Only
<1> QED
  BY <1>3, <1>5, <1>6, <1>7, OwnTreeMoves DEF Names

LEMMA FillKeeps ==
  ASSUME IInv, NEW p \in Procs, Fill(p)
  PROVE  IInv'
<1>1. pc[p] \in {"fill", "finish"} /\ pc[p] \in Working /\ pc[p] \notin Writing
  BY CreateNames DEF Fill, CreateSteps
<1>2. /\ TypeOK /\ PlaceInv(p) /\ pc[p] \notin Resting /\ txn[p] = "none"
      /\ cap[p].st = "Materializing" /\ cap[p].dir \in Dirs
  BY <1>1, WorkFacts, PayloadKinds DEF PlaceInv
<1>3. UNCHANGED <<rec, at, mode, session, op, procVars, cap, tmp>>
  BY DEF Fill
<1>4. ASSUME NEW c \in {"partial", "complete"}, content' = [content EXCEPT ![cap[p].dir] = c]
      PROVE  /\ content' \in [Dirs -> Contents] /\ content'[cap[p].dir] = c
             /\ TypeOK' => NamesInv' /\ RecordDescribesTree' /\ SessionTemplateWhole'
  <2>1. content' \in [Dirs -> Contents] /\ content'[cap[p].dir] = c
    BY <1>2, <1>4 DEF TypeOK, Contents
  <2>2. \A e \in Dirs \ {cap[p].dir} : content'[e] = content[e] /\ mode'[e] = mode[e]
    BY <1>2, <1>3, <1>4 DEF TypeOK
  <2> QED
    BY <1>1, <1>3, <2>1, <2>2, FillTree
<1>5. at' \in [Keys -> [Names -> Dirs \cup {NoDir}]] /\ mode' \in [Dirs -> Modes]
  BY <1>2, <1>3 DEF TypeOK
<1>6. ASSUME pc[p] = "fill", content' = [content EXCEPT ![cap[p].dir] = "partial"],
             Goto(p, "finish"), UNCHANGED faults
      PROVE  IInv'
  <2>1. pc'[p] = "finish" => PlaceInv(p)'
    BY <1>2, <1>3 DEF PlaceInv, Retiring
  <2>2. "finish" \in CreateSteps \ {"acquire"}
    BY DEF CreateSteps
  <2> QED
    BY <1>1, <1>3, <1>4, <1>5, <1>6, <2>1, <2>2, CreateTree
<1>7. ASSUME pc[p] = "finish", content' = [content EXCEPT ![cap[p].dir] = "complete"],
             Goto(p, "seal"), UNCHANGED faults
      PROVE  IInv'
  <2>1. content'[cap[p].dir] = "complete"
    BY <1>4, <1>7
  <2>2. pc'[p] = "seal" => PlaceInv(p)'
    BY <1>2, <1>3, <2>1 DEF PlaceInv, Retiring
  <2>3. "seal" \in CreateSteps \ {"acquire"}
    BY DEF CreateSteps
  <2> QED
    BY <1>1, <1>3, <1>4, <1>5, <1>7, <2>2, <2>3, CreateTree
<1>8. ASSUME Fault, Exit(p, "failed"), UNCHANGED content
      PROVE  IInv'
  BY <1>2, <1>3, <1>8, FaultType, Ends DEF Results, diskVars
<1> QED
  BY <1>6, <1>7, <1>8 DEF Fill

LEMMA SealKeeps ==
  ASSUME IInv, NEW p \in Procs, Seal(p)
  PROVE  IInv'
<1>1. pc[p] = "seal" /\ pc[p] \in Working /\ pc[p] \notin Writing
  BY CreateNames DEF Seal, CreateSteps
<1>2. PICK d : d = cap[p].dir
  OBVIOUS
<1>3. /\ TypeOK /\ PlaceInv(p) /\ key[p] \in Keys /\ rec[key[p]] = cap[p]
      /\ cap[p].st = "Materializing" /\ d \in Dirs /\ content[d] = "complete"
  BY <1>1, <1>2, WorkFacts, PayloadKinds DEF PlaceInv
<1>4. UNCHANGED <<rec, at, content, session, op, procVars, cap, tmp, faults>> /\ Goto(p, "publishing")
  BY DEF Seal
<1>5. mode' \in [Dirs -> Modes] /\ mode'[d] = "sealed" /\ \A e \in Dirs \ {d} : mode'[e] = mode[e]
  BY <1>2, <1>3 DEF Seal, TypeOK, Modes
<1>6. TypeOK' => NamesInv' /\ RecordDescribesTree' /\ SessionTemplateWhole'
  BY <1>1, <1>2, <1>3, <1>4, <1>5, FillTree
<1>7. at' \in [Keys -> [Names -> Dirs \cup {NoDir}]] /\ content' \in [Dirs -> Contents]
  BY <1>3, <1>4 DEF TypeOK
<1>8. txn'[p] = "none" /\ pc'[p] = "publishing" /\ cap'[p] = cap[p] /\ content'[d] = "complete"
  BY <1>3, <1>4 DEF Goto, TypeOK
<1>9. PlaceInv(p)'
  BY <1>2, <1>3, <1>5, <1>8 DEF PlaceInv, Retiring, Exchanged, Sealed
<1>10. "publishing" \in CreateSteps \ {"acquire"}
  BY DEF CreateSteps
<1> QED
  BY <1>1, <1>4, <1>5, <1>6, <1>7, <1>9, <1>10, CreateTree

LEMMA PublishTemplateKeeps ==
  ASSUME IInv, NEW p \in Procs, PublishTemplate(p)
  PROVE  IInv'
<1>1. pc[p] = "publish" /\ pc[p] \in Working /\ pc[p] \notin Writing
  BY CreateNames DEF PublishTemplate, Check, CreateSteps
<1>2. /\ TypeOK /\ PlaceInv(p) /\ pc[p] \notin Resting /\ txn[p] = "none"
      /\ cap[p].st = "Publishing" /\ key[p] \in Keys
  BY <1>1, WorkFacts DEF PlaceInv
<1>3. UNCHANGED <<rec, diskVars, session, op, procVars, cap, tmp, faults>>
  BY DEF PublishTemplate, Check
<1>4. "unseal" \in Working /\ "reseal" \in Working /\ {"unseal", "reseal"} \cap GcSteps = {}
  BY CreateNames DEF CreateSteps
<1>5. PICK d : d = cap[p].dir
  OBVIOUS
<1>6. PICK k \in Keys : k = key[p]
  BY <1>2
<1>7. ASSUME Only(k, "building", d), Goto(p, "unseal")
      PROVE  IInv'
  <2>1. pc'[p] = "unseal"
    BY <1>2, <1>7 DEF Goto, TypeOK
  <2>2. PlaceInv(p)'
    BY <1>2, <1>3, <1>5, <1>6, <1>7, <2>1 DEF PlaceInv, Retiring, diskVars, procVars, Only
  <2> QED
    BY <1>1, <1>2, <1>3, <1>4, <1>7, <2>2, GoesOn
<1>8. ASSUME Only(k, "root", d), Goto(p, "reseal")
      PROVE  IInv'
  <2>1. pc'[p] = "reseal"
    BY <1>2, <1>8 DEF Goto, TypeOK
  <2>2. PlaceInv(p)'
    BY <1>2, <1>3, <1>5, <1>6, <1>8, <2>1 DEF PlaceInv, Retiring, diskVars, procVars, Only
  <2> QED
    BY <1>1, <1>2, <1>3, <1>4, <1>8, <2>2, GoesOn
<1>9. CASE Exit(p, "failed")
  <2>1. faults' \in 0..MaxFaults
    BY <1>2, <1>3 DEF TypeOK
  <2> QED
    BY <1>2, <1>3, <1>9, <2>1, Ends DEF Results
<1>10. /\ Only(k, "building", d) => ~Vacant(k, "building")
       /\ Only(k, "root", d) => Vacant(k, "building")
  BY <1>2, OnlyIs DEF Names, Vacant
<1> QED
  BY <1>5, <1>6, <1>7, <1>8, <1>9, <1>10 DEF PublishTemplate, Check

\* Between the two records the root is unsealed, renamed and sealed again.
LEMMA RenameTree ==
  ASSUME IInv, TypeOK', NEW p \in Procs, pc[p] \in {"unseal", "rename", "reseal"},
         UNCHANGED <<rec, content, session>>, NEW n \in {"building", "root"},
         NEW k \in Keys, k = key[p], NEW d, d = cap[p].dir,
         \A j \in Keys \ {k} : at'[j] = at[j], Only(k, n, d)',
         \A e \in Dirs \ {d} : mode'[e] = mode[e],
         mode'[d] \in {"sealed"} \cup (IF Unseals THEN {"unsealed"} ELSE {})
  PROVE  NamesInv' /\ RecordDescribesTree' /\ SessionTemplateWhole'
<1>1. pc[p] \in Working
  BY CreateNames DEF CreateSteps
<1>2. rec[k].st = "Publishing" /\ rec[k].dir = d
  BY <1>1, WorkFacts DEF PlaceInv
<1>3. PICK m \in {"building", "root"} : Only(k, m, d)
  BY <1>2, TreeOf
<1>4. Publishable(d) /\ ~Reachable(k) /\ content[d] # "unused"
  BY <1>2, TreeOf DEF Publishable
<1>5. Described(k)'
  BY <1>2, <1>4 DEF Described, Publishable, Only
<1>6. \A l \in Names : at'[k][l] # NoDir => at'[k][l] = d
  BY DEF Only
<1> QED
  BY <1>3, <1>4, <1>5, <1>6, OwnTreeMoves DEF Names

LEMMA MovedTree ==
  ASSUME TypeOK, NEW k \in Keys, NEW from \in Names, NEW to \in Names \ {from}, NEW d,
         Only(k, from, d), at' = MoveName(k, from, to)
  PROVE  /\ Only(k, to, d)' /\ at' \in [Keys -> [Names -> Dirs \cup {NoDir}]]
         /\ \A j \in Keys \ {k} : at'[j] = at[j]
<1>1. /\ at[k] \in [Names -> Dirs \cup {NoDir}] /\ d # NoDir /\ at[k][from] = d
      /\ \A m \in Names \ {from} : at[k][m] = NoDir
  BY OnlyIs DEF TypeOK, Vacant
<1>2. at' = [at EXCEPT ![k] = [[at[k] EXCEPT ![from] = NoDir] EXCEPT ![to] = d]]
  BY <1>1 DEF MoveName, TypeOK
<1>3. at'[k] = [[at[k] EXCEPT ![from] = NoDir] EXCEPT ![to] = d]
  BY <1>2 DEF TypeOK
<1>4. at'[k] = [m \in Names |-> IF m = to THEN d ELSE NoDir]
  BY <1>1, <1>3
<1>5. at'[k] \in [Names -> Dirs \cup {NoDir}]
  BY <1>1, <1>4
<1>6. Only(k, to, d)'
  BY <1>1, <1>4 DEF Only
<1>7. at' \in [Keys -> [Names -> Dirs \cup {NoDir}]] /\ \A j \in Keys \ {k} : at'[j] = at[j]
  BY <1>2, <1>3, <1>5 DEF TypeOK
<1> QED
  BY <1>6, <1>7

LEMMA RenameReadyKeeps ==
  ASSUME IInv, NEW p \in Procs, RenameReady(p)
  PROVE  IInv'
<1>1. pc[p] \in {"unseal", "rename", "reseal"} /\ pc[p] \in Working /\ pc[p] \notin Writing
  BY CreateNames DEF RenameReady, CreateSteps
<1>2. /\ TypeOK /\ PlaceInv(p) /\ pc[p] \notin Resting /\ txn[p] = "none"
      /\ cap[p].st = "Publishing" /\ cap[p].dir \in Dirs
      /\ key[p] \in Keys /\ rec[key[p]] = cap[p]
  BY <1>1, WorkFacts, PayloadKinds DEF PlaceInv
<1>3. UNCHANGED <<rec, content, session, op, procVars, cap, tmp>>
  BY DEF RenameReady
<1>4. PICK k \in Keys : k = key[p]
  BY <1>2
<1>5. PICK d : d = cap[p].dir
  OBVIOUS
<1>6. /\ pc[p] \in {"unseal", "rename"} => Only(k, "building", d)
      /\ pc[p] = "reseal" => Only(k, "root", d)
      /\ content[d] = "complete"
      /\ mode[d] \in {"sealed"} \cup (IF Unseals THEN {"unsealed"} ELSE {})
  BY <1>2, <1>4, <1>5, TreeOf DEF PlaceInv, Publishable
<1>7. /\ at \in [Keys -> [Names -> Dirs \cup {NoDir}]] /\ content' \in [Dirs -> Contents]
      /\ mode \in [Dirs -> Modes]
  BY <1>2, <1>3 DEF TypeOK
<1>8. {"rename", "reseal", "ready"} \subseteq CreateSteps \ {"acquire"}
  BY DEF CreateSteps
<1>9. \A to : Goto(p, to) => /\ pc'[p] = to /\ txn'[p] = "none"
  BY <1>2 DEF Goto, TypeOK
<1>10. ASSUME NEW m \in {"sealed", "unsealed"}, mode' = [mode EXCEPT ![d] = m]
       PROVE  mode' \in [Dirs -> Modes] /\ mode'[d] = m /\ \A e \in Dirs \ {d} : mode'[e] = mode[e]
  BY <1>2, <1>5, <1>10 DEF TypeOK, Modes
<1>11. ASSUME pc[p] = "unseal",
              mode' = [mode EXCEPT ![d] = IF Unseals THEN "unsealed" ELSE "sealed"],
              Goto(p, "rename"), UNCHANGED <<at, faults>>
       PROVE  IInv'
  <2>1. /\ mode' \in [Dirs -> Modes] /\ \A e \in Dirs \ {d} : mode'[e] = mode[e]
        /\ mode'[d] \in {"sealed"} \cup (IF Unseals THEN {"unsealed"} ELSE {})
    BY <1>10, <1>11
  <2>2. Only(k, "building", d)'
    BY <1>6, <1>11 DEF Only
  <2>3. TypeOK' => NamesInv' /\ RecordDescribesTree' /\ SessionTemplateWhole'
    BY <1>1, <1>3, <1>4, <1>5, <1>11, <2>1, <2>2, RenameTree
  <2>4. pc'[p] = "rename" => PlaceInv(p)'
    BY <1>2, <1>3, <1>4, <1>5, <2>2 DEF PlaceInv, Retiring, Only, procVars
  <2> QED
    BY <1>1, <1>3, <1>7, <1>8, <1>11, <2>1, <2>3, <2>4, CreateTree
<1>12. ASSUME pc[p] = "rename", at' = MoveName(k, "building", "root"), Goto(p, "reseal"),
              UNCHANGED <<mode, faults>>
       PROVE  IInv'
  <2>1. /\ Only(k, "root", d)' /\ at' \in [Keys -> [Names -> Dirs \cup {NoDir}]]
        /\ \A j \in Keys \ {k} : at'[j] = at[j]
    BY <1>2, <1>6, <1>12, MovedTree DEF Names
  <2>2. mode' \in [Dirs -> Modes]
    BY <1>7, <1>12
  <2>3. TypeOK' => NamesInv' /\ RecordDescribesTree' /\ SessionTemplateWhole'
    BY <1>1, <1>3, <1>4, <1>5, <1>6, <1>12, <2>1, RenameTree
  <2>4. pc'[p] = "reseal" => PlaceInv(p)'
    BY <1>2, <1>3, <1>4, <1>5, <2>1 DEF PlaceInv, Retiring, Only, procVars
  <2> QED
    BY <1>1, <1>3, <1>7, <1>8, <1>12, <2>1, <2>2, <2>3, <2>4, CreateTree
<1>13. ASSUME pc[p] = "rename", Fault, mode' = [mode EXCEPT ![d] = "sealed"],
              Exit(p, "failed"), UNCHANGED at
       PROVE  IInv'
  <2>1. /\ mode' \in [Dirs -> Modes] /\ \A e \in Dirs \ {d} : mode'[e] = mode[e]
        /\ mode'[d] = "sealed"
    BY <1>10, <1>13
  <2>2. Only(k, "building", d)'
    BY <1>6, <1>13 DEF Only
  <2>3. DataOK'
    BY <1>2, <1>3, <1>13, <2>1, FaultType DEF DataOK, TypeOK, procVars
  <2>4. TypeOK'
    BY <1>2, <1>13, <2>3, ExitMoves, TypeParts DEF Results
  <2>5. NamesInv' /\ RecordDescribesTree' /\ SessionTemplateWhole'
    BY <1>1, <1>3, <1>4, <1>5, <1>13, <2>1, <2>2, <2>4, RenameTree
  <2> QED
    BY <1>2, <1>3, <1>13, <2>3, <2>5, ExitStep DEF Results, procVars
<1>14. ASSUME pc[p] = "reseal", mode' = [mode EXCEPT ![d] = "sealed"], Goto(p, "ready"),
              UNCHANGED <<at, faults>>
       PROVE  IInv'
  <2>1. /\ mode' \in [Dirs -> Modes] /\ \A e \in Dirs \ {d} : mode'[e] = mode[e]
        /\ mode'[d] = "sealed"
    BY <1>10, <1>14
  <2>2. Only(k, "root", d)'
    BY <1>6, <1>14 DEF Only
  <2>3. TypeOK' => NamesInv' /\ RecordDescribesTree' /\ SessionTemplateWhole'
    BY <1>1, <1>3, <1>4, <1>5, <1>14, <2>1, <2>2, RenameTree
  <2>4. pc'[p] = "ready" => PlaceInv(p)'
    BY <1>2, <1>3, <1>4, <1>5, <1>6, <1>9, <1>14, <2>1, <2>2
       DEF PlaceInv, Retiring, Exchanged, Only, Sealed, procVars
  <2> QED
    BY <1>1, <1>3, <1>7, <1>8, <1>14, <2>1, <2>3, <2>4, CreateTree
<1> QED
  BY <1>4, <1>5, <1>11, <1>12, <1>13, <1>14 DEF RenameReady

LEMMA ShareKeeps ==
  ASSUME IInv, NEW p \in Procs, Share(p)
  PROVE  IInv'
<1>1. pc[p] = "share" /\ pc[p] \in Working /\ pc[p] \notin Writing
  BY CreateNames DEF Share, CreateSteps
<1>2. /\ TypeOK /\ PlaceInv(p) /\ pc[p] \notin Resting /\ txn[p] = "none"
      /\ cap[p].st = "Ready" /\ cap[p].dir \in Dirs
  BY <1>1, WorkFacts, PayloadKinds DEF PlaceInv
<1>3. UNCHANGED <<rec, diskVars, session, op, procVars, cap, tmp, faults>>
  BY DEF Share
<1>4. CASE Exit(p, "failed")
  <2>1. faults' \in 0..MaxFaults
    BY <1>2, <1>3 DEF TypeOK
  <2> QED
    BY <1>2, <1>3, <1>4, <2>1, Ends DEF Results
<1>5. CASE /\ lease' = [lease EXCEPT ![p] = cap[p].dir] /\ pc' = [pc EXCEPT ![p] = "session"]
           /\ UNCHANGED <<txn, result, home>>
  <2>1. "session" \in Working /\ "session" \notin GcSteps /\ "session" \notin Resting
          /\ "session" \in Locations
    BY CreateNames DEF CreateSteps, Resting, Locations
  <2>2. pc'[p] = "session" /\ txn'[p] = "none"
    BY <1>2, <1>5 DEF TypeOK
  <2>3. Turn(p)
    BY <1>2, <1>3, <1>5, <2>1, <2>2 DEF Turn, TypeOK, Resting, procVars
  <2>4. ControlOK'
    BY <1>2, <1>5, <2>1 DEF ControlOK, TypeOK
  <2>5. PlaceInv(p)'
    BY <1>2, <1>3, <2>2 DEF PlaceInv, Retiring
  <2> QED
    BY <1>1, <1>2, <1>3, <2>1, <2>2, <2>3, <2>4, <2>5, GoOn
<1> QED
  BY <1>4, <1>5 DEF Share

LEMMA CreateSessionKeeps ==
  ASSUME IInv, NEW p \in Procs, CreateSession(p)
  PROVE  IInv'
<1>1. pc[p] = "session" /\ pc[p] \in Working /\ pc[p] \notin Writing
  BY CreateNames DEF CreateSession, CreateSteps
<1>2. /\ TypeOK /\ pc[p] \notin Resting /\ key[p] \in Keys /\ rec[key[p]] = cap[p]
      /\ cap[p].st = "Ready" /\ cap[p].dir \in Dirs
      /\ cap[p] = Payload("Ready", NoProc, cap[p].dir)
      /\ Only(key[p], "root", cap[p].dir) /\ Sealed(cap[p].dir)
  BY <1>1, WorkFacts, PayloadKinds, TreeOf DEF PlaceInv
<1>3. PICK code \in {"ok", "failed"} :
        /\ Exit(p, code) /\ faults' \in 0..MaxFaults
        /\ UNCHANGED <<rec, diskVars, op, procVars, cap, tmp>>
        /\ \/ UNCHANGED session
           \/ \E s \in Sessions :
                session' = [session EXCEPT ![s] = [key |-> key[p], dir |-> cap[p].dir]]
  <2>1. Fault \/ UNCHANGED faults => faults' \in 0..MaxFaults
    BY <1>2, FaultType DEF TypeOK
  <2> QED
    BY <2>1 DEF CreateSession
<1>4. CASE UNCHANGED session
  BY <1>2, <1>3, <1>4, Ends DEF Results
<1>5. CASE \E s \in Sessions :
             session' = [session EXCEPT ![s] = [key |-> key[p], dir |-> cap[p].dir]]
  <2>1. PICK s \in Sessions :
               session' = [session EXCEPT ![s] = [key |-> key[p], dir |-> cap[p].dir]]
    BY <1>5
  <2>2. /\ session' \in [Sessions -> {NoSession} \cup [key : Keys, dir : Dirs]]
        /\ session'[s] = [key |-> key[p], dir |-> cap[p].dir]
        /\ \A t \in Sessions \ {s} : session'[t] = session[t]
    BY <1>2, <2>1 DEF TypeOK
  <2>3. DataOK'
    BY <1>2, <1>3, <2>2 DEF DataOK, TypeOK, diskVars, procVars
  <2>4. NamesInv' /\ RecordDescribesTree'
    BY <1>2, <1>3, DescribedStays, Parts, PartsNext DEF IInv, NamesInv, Vacant, diskVars
  <2>5. Whole(s)'
    BY <1>2, <1>3, <2>2 DEF Whole, Only, Sealed, diskVars
  <2>6. \A t \in Sessions \ {s} : Whole(t)'
    BY <1>2, <1>3, <2>2, WholeStays, Parts DEF IInv, diskVars
  <2>7. SessionTemplateWhole'
    BY <2>5, <2>6, PartsNext
  <2> QED
    BY <1>2, <1>3, <2>3, <2>4, <2>7, ExitStep DEF Results, procVars
<1> QED
  BY <1>3, <1>4, <1>5

(***************************************************************************)
(* gc: the census, and the loop over what it found.                        *)
(***************************************************************************)
LEMMA GcNames ==
  /\ GcSteps \cap Working = GcSteps \ {"census", "sweep", "next"} /\ GcSteps \cap Resting = {}
  /\ GcSteps \cap Working \subseteq Swept /\ GcSteps \cap Writing = {"tombstone"}
  /\ "next" \in Swept /\ "sweep" \notin Swept
BY DEF CreateSteps, GcSteps, Working, Writing, Locations, Resting, Seeking, Swept

LEMMA SeekingFacts ==
  ASSUME IInv, NEW p \in Procs, pc[p] \in {"census", "sweep", "next"}
  PROVE  /\ TypeOK /\ ProcInv(p) /\ pc[p] \notin Resting /\ txn[p] = "none"
         /\ todo[p] \subseteq Keys
BY DEF IInv, ProcInv, TxnInv, Writing, Resting, TypeOK

\* gc is at no template.
LEMMA SeekProc ==
  ASSUME NEW p \in Procs, pc'[p] \in {"sweep", "next"}, txn'[p] = "none", GcInv(p)'
  PROVE  ProcInv(p)'
<1>1. WorkInv(p)' /\ PlaceInv(p)' /\ TxnInv(p)'
  BY DEF WorkInv, PlaceInv, TxnInv, Resting, Retiring, Working, Seeking
<1> QED
  BY <1>1 DEF ProcInv

LEMMA CensusKeeps ==
  ASSUME IInv, NEW p \in Procs, Census(p)
  PROVE  IInv'
<1>1. pc[p] = "census" /\ TypeOK /\ pc[p] \notin Resting
  BY SeekingFacts DEF Census
<1>2. UNCHANGED <<rec, diskVars, session, op, key, cap, tmp, faults>>
  BY DEF Census
<1>3. NamesInv' /\ RecordDescribesTree' /\ SessionTemplateWhole'
  BY <1>2, DiskStays DEF IInv, diskVars
<1>4. CASE Exit(p, "failed") /\ UNCHANGED <<todo, needed>>
  <2>1. faults' \in 0..MaxFaults
    BY <1>1, <1>2 DEF TypeOK
  <2> QED
    BY <1>1, <1>2, <1>4, <2>1, Ends DEF Results, procVars
<1>5. CASE /\ Explained
           /\ todo' = [todo EXCEPT ![p] = {k \in Keys : rec[k] # Absent}]
           /\ needed' = [needed EXCEPT ![p] = {k \in Keys : Reachable(k)}]
           /\ Goto(p, "sweep")
  <2>1. ControlOK' /\ pc'[p] = "sweep" /\ txn'[p] = "none" /\ Turn(p)
    BY <1>1, <1>2, <1>5, GotoMoves DEF GcSteps
  <2>2. /\ todo'[p] = {k \in Keys : rec[k] # Absent} /\ needed'[p] = {k \in Keys : Reachable(k)}
        /\ {todo', needed'} \subseteq [Procs -> SUBSET Keys]
    BY <1>1, <1>5 DEF TypeOK
  <2>3. DataOK'
    BY <1>1, <1>2, <2>2 DEF DataOK, TypeOK, diskVars
  <2>4. \A k \in Keys : rec[k] = Absent \/ rec[k].st \in {"Ready", "Tombstoned"}
    BY <1>5 DEF Explained, Accounted
  <2>5. GcInv(p)'
    BY <1>2, <2>1, <2>2, <2>4 DEF GcInv, Swept, Settled, Reachable, Working, Seeking
  <2>6. ProcInv(p)'
    BY <2>1, <2>5, SeekProc
  <2> QED
    BY <1>1, <1>3, <2>1, <2>3, <2>6, TypeParts, TurnStep
<1> QED
  BY <1>4, <1>5 DEF Census

LEMMA SweepKeeps ==
  ASSUME IInv, NEW p \in Procs, Sweep(p)
  PROVE  IInv'
<1>1. pc[p] = "sweep" /\ TypeOK /\ ProcInv(p) /\ pc[p] \notin Resting
  BY SeekingFacts DEF Sweep
<1>2. UNCHANGED <<rec, diskVars, session, op, procVars, cap, faults>>
  BY DEF Sweep
<1>3. NamesInv' /\ RecordDescribesTree' /\ SessionTemplateWhole'
  BY <1>2, DiskStays DEF IInv, diskVars
<1>4. PICK to \in {"sweep", "next"} :
        /\ Goto(p, to)
        /\ to = "next" => Temporaries = {} /\ UNCHANGED tmp
        /\ tmp' \in [Procs -> {NoTmp} \cup [key : Keys, new : Payloads \cup {Torn}]]
  BY <1>1 DEF Sweep, TypeOK, Temporaries
<1>5. ControlOK' /\ pc'[p] = to /\ txn'[p] = "none" /\ Turn(p)
  BY <1>1, <1>2, <1>4, GotoMoves DEF GcSteps, procVars
<1>6. DataOK'
  BY <1>1, <1>2, <1>4 DEF DataOK, TypeOK, diskVars, procVars
<1>7. GcInv(p)'
  <2>1. to = "next" => \A q \in Procs : tmp'[q] = NoTmp
    BY <1>4 DEF Temporaries
  <2>2. pc[p] \in GcSteps \ {"census"}
    BY <1>1 DEF GcSteps
  <2> QED
    BY <1>1, <1>2, <1>4, <1>5, <2>1, <2>2
       DEF ProcInv, GcInv, Swept, Settled, Reachable, Working, Seeking, procVars
<1>8. ProcInv(p)'
  BY <1>4, <1>5, <1>7, SeekProc
<1> QED
  BY <1>1, <1>3, <1>5, <1>6, <1>8, TypeParts, TurnStep

LEMMA NextTemplateKeeps ==
  ASSUME IInv, NEW p \in Procs, NextTemplate(p)
  PROVE  IInv'
<1>1. /\ pc[p] = "next" /\ TypeOK /\ ProcInv(p) /\ pc[p] \notin Resting /\ txn[p] = "none"
      /\ todo[p] \subseteq Keys
  BY SeekingFacts DEF NextTemplate
<1>2. UNCHANGED <<rec, diskVars, session, op, tmp, faults, needed>>
  BY DEF NextTemplate
<1>3. NamesInv' /\ RecordDescribesTree' /\ SessionTemplateWhole'
  BY <1>2, DiskStays DEF IInv, diskVars
<1>4. ASSUME NEW k \in todo[p], key' = [key EXCEPT ![p] = k],
             todo' = [todo EXCEPT ![p] = @ \ {k}], cap' = [cap EXCEPT ![p] = rec[k]],
             Goto(p, IF rec[k].st = "Ready" THEN "lease" ELSE "inspect")
      PROVE  IInv'
  <2>1. /\ k \in Keys /\ key'[p] = k /\ todo'[p] = todo[p] \ {k} /\ cap'[p] = rec[k]
        /\ \A q \in Procs \ {p} : key'[q] = key[q]
        /\ key' \in [Procs -> Keys \cup {NoKey}] /\ todo' \in [Procs -> SUBSET Keys]
        /\ cap' \in [Procs -> Payloads]
    BY <1>1, <1>4 DEF TypeOK
  <2>2. PICK to \in {"lease", "inspect"} :
          to = IF rec[k].st = "Ready" THEN "lease" ELSE "inspect"
    OBVIOUS
  <2>3. ControlOK' /\ pc'[p] = to /\ txn'[p] = "none" /\ Turn(p)
    BY <1>1, <1>2, <1>4, <2>1, <2>2, GotoMoves DEF GcSteps
  <2>4. DataOK'
    BY <1>1, <1>2, <2>1 DEF DataOK, TypeOK, diskVars
  <2>5. GcInv(p) /\ pc[p] \in Swept /\ pc[p] \in GcSteps \ {"census"} /\ pc[p] \notin Working
    BY <1>1, GcNames DEF ProcInv, GcSteps, Working, Seeking
  <2>6. rec[k].st \in {"Ready", "Tombstoned"}
    BY <2>5 DEF GcInv
  <2>7. PlaceInv(p)'
    BY <2>1, <2>2, <2>3, <2>6 DEF PlaceInv, Retiring
  <2>8. pc'[p] \in Working /\ pc'[p] \in GcSteps
    BY <2>2, <2>3, GcNames DEF GcSteps
  <2>9. WorkInv(p)' /\ TxnInv(p)'
    BY <1>2, <2>1, <2>2, <2>3 DEF WorkInv, TxnInv, Resting
  <2>10. GcInv(p)'
    <3>1. \A q \in Procs : tmp'[q] = NoTmp
      BY <1>1, <1>2, <2>5 DEF GcInv
    <3>2. \A j \in Keys : Reachable(j)' => j \in needed'[p]
      BY <1>2, <2>5 DEF GcInv, Reachable
    <3>3. \A j \in todo'[p] : rec'[j].st \in {"Ready", "Tombstoned"}
      BY <1>2, <2>1, <2>5 DEF GcInv
    <3>4. \A j \in Keys : j \in todo'[p] \/ Settled(p, j)' \/ j = key'[p]
      BY <1>2, <2>1, <2>5 DEF GcInv, Settled
    <3> QED
      BY <2>1, <2>8, <3>1, <3>2, <3>3, <3>4 DEF GcInv
  <2>11. ProcInv(p)'
    BY <2>7, <2>9, <2>10 DEF ProcInv
  <2> QED
    BY <1>1, <1>3, <2>3, <2>4, <2>11, TypeParts, TurnStep
<1>5. CASE todo[p] = {} /\ Exit(p, "ok") /\ UNCHANGED <<key, todo, cap>>
  <2>1. faults' \in 0..MaxFaults
    BY <1>1, <1>2 DEF TypeOK
  <2> QED
    BY <1>1, <1>2, <1>5, <2>1, Ends DEF Results, procVars
<1> QED
  BY <1>4, <1>5 DEF NextTemplate

(***************************************************************************)
(* gc: one template.                                                       *)
(***************************************************************************)
\* The loop goes on with the next template; this one is as it should be.
LEMMA Done ==
  ASSUME IInv, NEW p \in Procs, pc[p] \in GcSteps \cap Working, txn[p] = "none",
         pc'[p] = "next", txn'[p] = "none", UNCHANGED <<session, procVars, tmp>>,
         \A j \in Keys \ {key[p]} : rec'[j] = rec[j], Settled(p, key[p])'
  PROVE  ProcInv(p)'
<1>1. TypeOK /\ GcInv(p) /\ key[p] \in Keys /\ todo[p] \subseteq Keys
  BY WorkFacts DEF ProcInv, TypeOK
<1>2. pc[p] \in Swept /\ pc[p] \in GcSteps \ {"census"}
  BY GcNames
<1>3. \A q \in Procs : tmp'[q] = NoTmp
  BY <1>1, <1>2 DEF GcInv
<1>4. \A j \in Keys : Reachable(j)' => j \in needed'[p]
  BY <1>1, <1>2 DEF GcInv, Reachable, procVars
<1>5. \A j \in todo'[p] : rec'[j].st \in {"Ready", "Tombstoned"}
  BY <1>1, <1>2 DEF GcInv, procVars
<1>6. \A j \in Keys : j \in todo'[p] \/ Settled(p, j)'
  BY <1>1, <1>2 DEF GcInv, Settled, procVars
<1>7. GcInv(p)'
  BY <1>3, <1>4, <1>5, <1>6 DEF GcInv, Working, Seeking
<1> QED
  BY <1>7, SeekProc

LEMMA UnleaseMoves ==
  ASSUME TypeOK, NEW p \in Procs, NEW to \in CreateSteps \cup GcSteps, Unlease(p, to)
  PROVE  /\ ControlOK' /\ pc'[p] = to /\ txn' = txn
         /\ op' = op /\ (\A q \in Procs \ {p} : key'[q] = key[q]) => Turn(p)
<1>1. to \in Locations /\ to \notin Resting
  BY PlaceNames
<1>2. /\ pc'[p] = to /\ txn' = txn
      /\ \A q \in Procs \ {p} : pc'[q] = pc[q] /\ lease'[q] = lease[q]
  BY DEF TypeOK, Unlease
<1>3. ControlOK'
  BY <1>1 DEF TypeOK, ControlOK, Unlease
<1> QED
  BY <1>1, <1>2, <1>3 DEF Unlease, Turn, Resting

\* A template that is kept.
LEMMA Kept ==
  ASSUME IInv, NEW p \in Procs, pc[p] \in GcSteps \cap Working, pc[p] \notin Writing,
         Reachable(key[p]), Release(p, "next")
  PROVE  IInv'
<1>1. /\ TypeOK /\ ProcInv(p) /\ pc[p] \notin Resting /\ txn[p] = "none" /\ key[p] \in Keys
  BY WorkFacts
<1>2. Unlease(p, "next") /\ UNCHANGED <<rec, diskVars, session, op, procVars, cap, tmp, faults>>
  BY DEF Release
<1>3. ControlOK' /\ pc'[p] = "next" /\ txn' = txn /\ Turn(p)
  BY <1>1, <1>2, UnleaseMoves DEF GcSteps, procVars
<1>4. PICK k \in Keys : k = key[p]
  BY <1>1
<1>5. rec[k].st = "Ready" /\ k \in needed[p]
  BY <1>1, <1>4, GcNames, TreeOf DEF ProcInv, GcInv
<1>6. Settled(p, key[p])'
  BY <1>2, <1>4, <1>5 DEF Settled, procVars
<1>7. ProcInv(p)'
  BY <1>1, <1>2, <1>3, <1>6, Done
<1>8. NamesInv' /\ RecordDescribesTree' /\ SessionTemplateWhole'
  BY <1>2, DiskStays DEF IInv, diskVars
<1>9. DataOK'
  BY <1>1, <1>2 DEF DataOK, TypeOK, diskVars, procVars
<1> QED
  BY <1>1, <1>3, <1>7, <1>8, <1>9, TypeParts, TurnStep

\* The sessions are asked about a template.
LEMMA ReachKeeps ==
  ASSUME IInv, NEW p \in Procs, NEW from \in GcSteps \cap Working, from \notin Writing,
         NEW to \in GcSteps \cap Working, Reach(p, from, to),
         ~Reachable(key[p]) /\ pc'[p] = to /\ txn'[p] = "none"
           /\ UNCHANGED <<rec, diskVars, session, op, procVars, cap, tmp, faults>> => PlaceInv(p)'
  PROVE  IInv'
<1>1. pc[p] = from
  BY DEF Reach
<1>2. TypeOK /\ txn[p] = "none"
  BY <1>1, WorkFacts
<1>3. CASE Reachable(key[p])
  BY <1>1, <1>3, Kept DEF Reach
<1>4. CASE ~Reachable(key[p])
  <2>1. Goto(p, to) /\ UNCHANGED <<rec, diskVars, session, op, procVars, cap, tmp, faults>>
    BY <1>4 DEF Reach
  <2>2. pc'[p] = to /\ txn'[p] = "none"
    BY <1>2, <2>1, GotoMoves
  <2>3. PlaceInv(p)'
    BY <1>4, <2>1, <2>2
  <2> QED
    BY <1>1, <1>2, <2>1, <2>3, GoesOn
<1> QED
  BY <1>3, <1>4

\* Nobody else holds a lease, so a lease is never refused.
LEMMA LeaseKeeps ==
  ASSUME IInv, NEW p \in Procs, NEW from \in GcSteps \cap Working, from \notin Writing,
         NEW to \in GcSteps \cap Working, NEW d \in Dirs, NEW ok, Lease(p, from, d, ok, to),
         pc'[p] = to /\ txn'[p] = "none"
           /\ UNCHANGED <<rec, diskVars, session, op, procVars, cap, tmp, faults>> => PlaceInv(p)'
  PROVE  IInv'
<1>1. pc[p] = from /\ UNCHANGED <<rec, diskVars, session, op, procVars, cap, tmp, faults>>
  BY DEF Lease
<1>2. TypeOK /\ txn[p] = "none" /\ pc[p] \notin Resting
  BY <1>1, WorkFacts
<1>3. \A q \in Procs \ {p} : lease[q] # d
  BY <1>2, Alone, NoneAssumption
<1>4. CASE Exit(p, "failed")
  <2>1. faults' \in 0..MaxFaults
    BY <1>1, <1>2 DEF TypeOK
  <2> QED
    BY <1>1, <1>2, <1>4, <2>1, Ends DEF Results
<1>5. CASE /\ lease' = [lease EXCEPT ![p] = d] /\ pc' = [pc EXCEPT ![p] = to]
           /\ UNCHANGED <<txn, result, home>>
  <2>1. to \notin Resting /\ to \in Locations
    BY PlaceNames
  <2>2. pc'[p] = to /\ txn'[p] = "none"
    BY <1>2, <1>5 DEF TypeOK
  <2>3. Turn(p)
    BY <1>1, <1>2, <1>5, <2>1, <2>2 DEF Turn, TypeOK, Resting, procVars
  <2>4. ControlOK'
    BY <1>2, <1>5, <2>1 DEF ControlOK, TypeOK
  <2>5. PlaceInv(p)'
    BY <1>1, <2>2
  <2> QED
    BY <1>1, <1>2, <2>2, <2>3, <2>4, <2>5, GoOn
<1> QED
  BY <1>3, <1>4, <1>5 DEF Lease

LEMMA RetireReadyKeeps ==
  ASSUME IInv, NEW p \in Procs, RetireReady(p)
  PROVE  IInv'
<1>1. /\ pc[p] \in {"lease", "reach", "retire", "tombstone"}
      /\ pc[p] \in GcSteps \cap Working
      /\ pc[p] # "tombstone" => pc[p] \notin Writing
  <2>1. pc[p] \in {"lease", "reach", "retire", "tombstone"}
    BY DEF RetireReady, Lease, Reach, WriteRecord
  <2> QED
    BY <2>1, GcNames DEF GcSteps
<1>2. /\ TypeOK /\ PlaceInv(p) /\ pc[p] \notin Resting
      /\ pc[p] # "tombstone" => txn[p] = "none"
      /\ cap[p] \in Payloads
  BY <1>1, WorkFacts
<1>3. {"lease", "reach", "tombstone", "inspect_retired"} \subseteq GcSteps \cap Working
  BY GcNames DEF GcSteps
<1>4. ASSUME Lease(p, "lease", cap[p].dir,
                   at[key[p]]["root"] = cap[p].dir /\ Sealed(cap[p].dir), "reach")
      PROVE  IInv'
  <2>1. pc[p] = "lease"
    BY <1>4 DEF Lease
  <2>2. cap[p].st = "Ready" /\ cap[p].dir \in Dirs
    BY <1>2, <2>1, PayloadKinds DEF PlaceInv
  <2>3. pc'[p] = "reach" /\ UNCHANGED cap => PlaceInv(p)'
    BY <2>2 DEF PlaceInv, Retiring
  <2>4. PICK ok \in BOOLEAN : Lease(p, "lease", cap[p].dir, ok, "reach")
    BY <1>4 DEF Lease
  <2> QED
    BY <1>1, <1>3, <2>1, <2>2, <2>3, <2>4, LeaseKeeps
<1>5. CASE Reach(p, "reach", "tombstone")
  <2>1. pc[p] = "reach" /\ cap[p].st = "Ready"
    BY <1>2, <1>5 DEF Reach, PlaceInv
  <2>2. ~Reachable(key[p]) /\ pc'[p] = "tombstone" /\ txn'[p] = "none"
          /\ UNCHANGED <<session, procVars, cap>> => PlaceInv(p)'
    BY <2>1 DEF PlaceInv, Retiring, Exchanged, Reachable, procVars
  <2> QED
    BY <1>1, <1>3, <1>5, <2>1, <2>2, ReachKeeps
<1>6. CASE WriteRecord(p, "tombstone", Payload("Tombstoned", NoProc, cap[p].dir), "retire")
  BY <1>6, TombstoneKeeps
<1>7. CASE pc[p] = "retire" /\ Release(p, "inspect_retired")
  <2>1. /\ Unlease(p, "inspect_retired")
        /\ UNCHANGED <<rec, diskVars, session, op, procVars, cap, tmp, faults>>
    BY <1>7 DEF Release
  <2>2. ControlOK' /\ pc'[p] = "inspect_retired" /\ txn' = txn /\ Turn(p)
    BY <1>2, <1>3, <2>1, UnleaseMoves DEF procVars
  <2>3. PlaceInv(p)'
    BY <1>2, <1>7, <2>1, <2>2 DEF PlaceInv, Retiring
  <2> QED
    BY <1>1, <1>2, <1>3, <1>7, <2>1, <2>2, <2>3, GoOn
<1> QED
  BY <1>4, <1>5, <1>6, <1>7 DEF RetireReady

(***************************************************************************)
(* gc: a tombstone is completed.                                           *)
(***************************************************************************)
LEMMA RetiringFacts ==
  ASSUME IInv, NEW p \in Procs, pc[p] \in Retiring
  PROVE  /\ pc[p] \in GcSteps \cap Working /\ pc[p] \notin Writing /\ pc[p] \notin Resting
         /\ TypeOK /\ PlaceInv(p) /\ txn[p] = "none" /\ key[p] \in Keys /\ rec[key[p]] = cap[p]
         /\ cap[p].st = "Tombstoned" /\ cap[p].dir \in Dirs /\ ~Reachable(key[p])
<1>1. pc[p] \in GcSteps \cap Working /\ pc[p] \notin Writing
  BY GcNames DEF Retiring, GcSteps
<1> QED
  BY <1>1, WorkFacts, TreeOf, PayloadKinds DEF PlaceInv

LEMMA RetiringNames ==
  Retiring \subseteq GcSteps \cap Working /\ Retiring \cap Writing = {}
BY GcNames DEF Retiring, GcSteps

\* The places that ask for nothing but a Tombstoned record.
LEMMA InspectKeeps ==
  ASSUME IInv, NEW p \in Procs, NEW from \in Retiring,
         NEW leased \in {"tomb_lease", "retired_lease"}, NEW gone \in {"gone_reach", "drop"},
         Inspect(p, from, leased, gone)
  PROVE  IInv'
<1>1. pc[p] = from /\ UNCHANGED <<rec, diskVars, session, op, procVars, cap, tmp, faults>>
  BY DEF Inspect, Check
<1>2. /\ pc[p] \in GcSteps \cap Working /\ pc[p] \notin Resting /\ TypeOK /\ txn[p] = "none"
      /\ cap[p].st = "Tombstoned" /\ key[p] \in Keys
  BY <1>1, RetiringFacts
<1>3. PICK k \in Keys : k = key[p]
  BY <1>2
<1>4. PICK d : d = cap[p].dir
  OBVIOUS
<1>5. {leased, gone} \subseteq GcSteps \cap Working
  BY RetiringNames DEF Retiring
<1>6. CASE Exit(p, "failed")
  <2>1. faults' \in 0..MaxFaults
    BY <1>1, <1>2 DEF TypeOK
  <2> QED
    BY <1>1, <1>2, <1>6, <2>1, Ends DEF Results
<1>7. CASE Gone(k) /\ Goto(p, gone)
  <2>1. pc'[p] = gone
    BY <1>2, <1>7 DEF Goto, TypeOK
  <2>2. PlaceInv(p)'
    BY <1>1, <1>2, <1>3, <1>7, <2>1 DEF PlaceInv, Gone, Vacant, Retiring, procVars, diskVars
  <2> QED
    BY <1>1, <1>2, <1>5, <1>7, <2>2, GoesOn
<1>8. CASE (Only(k, "root", d) \/ Only(k, "tombstone", d)) /\ Condemned(d) /\ Goto(p, leased)
  <2>1. pc'[p] = leased
    BY <1>2, <1>8 DEF Goto, TypeOK
  <2>2. PlaceInv(p)'
    BY <1>1, <1>2, <1>3, <1>4, <1>8, <2>1
       DEF PlaceInv, Only, Condemned, Sealed, Retiring, procVars, diskVars
  <2> QED
    BY <1>1, <1>2, <1>5, <1>8, <2>2, GoesOn
<1> QED
  BY <1>3, <1>4, <1>6, <1>7, <1>8 DEF Inspect, Check, Gone

LEMMA InspectTombstoneKeeps ==
  ASSUME IInv, NEW p \in Procs, InspectTombstone(p)
  PROVE  IInv'
<1>1. pc[p] \in Retiring
  BY DEF InspectTombstone, Inspect, Check, Lease, Reach, Retiring
<1>2. /\ TypeOK /\ PlaceInv(p) /\ cap[p].st = "Tombstoned" /\ cap[p].dir \in Dirs
      /\ key[p] \in Keys
  BY <1>1, RetiringFacts
<1>3. PICK k \in Keys : k = key[p]
  BY <1>2
<1>4. PICK d \in Dirs : d = cap[p].dir
  BY <1>2
<1>5. \A x \in {"inspect", "tomb_lease", "tomb_reach", "gone_reach", "inspect_retired",
                "retired_lease", "untomb", "drop"} :
        x \in Retiring /\ x \in GcSteps \cap Working /\ x \notin Writing
  BY RetiringNames DEF Retiring
<1>6. CASE Inspect(p, "inspect", "tomb_lease", "gone_reach")
  BY <1>5, <1>6, InspectKeeps
<1>7. CASE Inspect(p, "inspect_retired", "retired_lease", "drop")
  BY <1>5, <1>7, InspectKeeps
<1>8. ASSUME pc[p] \in {"tomb_lease", "retired_lease", "tomb_reach"},
             pc'[p] \in {"tomb_reach", "untomb"}, UNCHANGED <<diskVars, procVars, cap>>
      PROVE  PlaceInv(p)'
  <2>1. (Only(k, "root", d) \/ Only(k, "tombstone", d)) /\ Condemned(d)
    BY <1>2, <1>3, <1>4, <1>8 DEF PlaceInv
  <2> QED
    BY <1>2, <1>3, <1>4, <1>8, <2>1
       DEF PlaceInv, Only, Condemned, Sealed, Retiring, procVars, diskVars
<1>9. CASE Lease(p, "tomb_lease", cap[p].dir, Condemned(cap[p].dir), "tomb_reach")
  <2>1. pc[p] = "tomb_lease"
    BY <1>9 DEF Lease
  <2>2. PICK ok \in BOOLEAN : Lease(p, "tomb_lease", d, ok, "tomb_reach")
    BY <1>4, <1>9 DEF Lease
  <2> QED
    BY <1>5, <1>8, <2>1, <2>2, LeaseKeeps
<1>10. CASE Lease(p, "retired_lease", cap[p].dir, Condemned(cap[p].dir), "untomb")
  <2>1. pc[p] = "retired_lease"
    BY <1>10 DEF Lease
  <2>2. PICK ok \in BOOLEAN : Lease(p, "retired_lease", d, ok, "untomb")
    BY <1>4, <1>10 DEF Lease
  <2> QED
    BY <1>5, <1>8, <2>1, <2>2, LeaseKeeps
<1>11. CASE Reach(p, "tomb_reach", "untomb")
  <2>1. pc[p] = "tomb_reach"
    BY <1>11 DEF Reach
  <2> QED
    BY <1>5, <1>8, <1>11, <2>1, ReachKeeps
<1>12. CASE Reach(p, "gone_reach", "drop")
  <2>1. pc[p] = "gone_reach" /\ Gone(k)
    BY <1>2, <1>3, <1>12 DEF Reach, PlaceInv
  <2>2. pc'[p] = "drop" /\ UNCHANGED <<diskVars, procVars, cap>> => PlaceInv(p)'
    BY <1>2, <1>3, <2>1 DEF PlaceInv, Gone, Vacant, Retiring, procVars, diskVars
  <2> QED
    BY <1>5, <1>12, <2>2, ReachKeeps
<1> QED
  BY <1>6, <1>7, <1>9, <1>10, <1>11, <1>12 DEF InspectTombstone

\* A step of gc on the tree of a tombstone.
LEMMA RetiringTree ==
  ASSUME IInv, NEW p \in Procs, pc[p] \in Retiring, NEW to \in Retiring,
         Goto(p, to), UNCHANGED <<rec, session, op, procVars, cap, tmp, faults>>,
         at' \in [Keys -> [Names -> Dirs \cup {NoDir}]], content' \in [Dirs -> Contents],
         mode' \in [Dirs -> Modes],
         NEW k \in Keys, k = key[p], NEW n \in Names, NEW d, d = cap[p].dir, Only(k, n, d),
         \A j \in Keys \ {k} : at'[j] = at[j],
         \A e \in Dirs \ {d} : content'[e] = content[e] /\ mode'[e] = mode[e],
         \A m \in Names : at'[k][m] # NoDir => at'[k][m] = d /\ content'[d] # "unused",
         Described(k)', pc'[p] = to => PlaceInv(p)'
  PROVE  IInv'
<1>1. /\ TypeOK /\ pc[p] \notin Resting /\ txn[p] = "none" /\ ~Reachable(k)
      /\ pc[p] \in GcSteps \cap Working
  BY RetiringFacts
<1>2. to \in GcSteps \cap Working
  BY RetiringNames
<1>3. ControlOK' /\ pc'[p] = to /\ txn'[p] = "none" /\ Turn(p)
  BY <1>1, <1>2, GotoMoves DEF procVars
<1>4. DataOK'
  BY <1>1 DEF TypeOK, DataOK, procVars
<1>5. TypeOK'
  BY <1>3, <1>4, TypeParts
<1>6. ProcInv(p)'
  BY <1>1, <1>2, <1>3, PlaceMoves
<1>7. NamesInv' /\ RecordDescribesTree' /\ SessionTemplateWhole'
  BY <1>1, <1>5, OwnTreeMoves
<1> QED
  BY <1>1, <1>3, <1>5, <1>6, <1>7, TurnStep

\* Where the tree of a tombstone is.
LEMMA CondemnedTree ==
  ASSUME IInv, NEW p \in Procs, pc[p] \in Retiring, NEW k \in Keys, k = key[p],
         NEW d, d = cap[p].dir
  PROVE  /\ rec[k].st = "Tombstoned" /\ rec[k].dir = d
         /\ Only(k, "root", d) => content[d] = "complete"
         /\ pc[p] \in {"untomb", "promote"} =>
              (Only(k, "root", d) \/ Only(k, "tombstone", d)) /\ Condemned(d)
         /\ pc[p] \in {"recheck", "clear", "cleared"} => Only(k, "tombstone", d)
         /\ \A n \in Names : Only(k, n, d) =>
              /\ d \in Dirs /\ content[d] # "unused"
              /\ \A m \in Names : at[k][m] # NoDir => at[k][m] = d
<1>1. rec[k].st = "Tombstoned" /\ rec[k].dir = d /\ PlaceInv(p) /\ TypeOK /\ Described(k)
  BY RetiringFacts, Parts DEF IInv
<1>2. Only(k, "root", d) => ~Gone(k) /\ ~Only(k, "tombstone", d)
  BY <1>1, OnlyIs DEF Gone, Vacant, Names
<1>3. Only(k, "root", d) => content[d] = "complete"
  BY <1>1, <1>2 DEF Described
<1>4. \A n \in Names : Only(k, n, d) => \A m \in Names : at[k][m] # NoDir => at[k][m] = d
  BY DEF Only
<1> QED
  BY <1>1, <1>3, <1>4, OwnTree DEF PlaceInv

LEMMA PromoteKeeps ==
  ASSUME IInv, NEW p \in Procs, Promote(p)
  PROVE  IInv'
<1>1. pc[p] \in {"untomb", "promote"} /\ pc[p] \in Retiring
        /\ {"promote", "recheck"} \subseteq Retiring
  BY DEF Promote, Retiring
<1>2. TypeOK /\ key[p] \in Keys /\ cap[p].dir \in Dirs /\ cap[p].st = "Tombstoned"
  BY <1>1, RetiringFacts
<1>3. UNCHANGED <<rec, content, session, op, procVars, cap, tmp, faults>>
  BY DEF Promote
<1>4. PICK k \in Keys : k = key[p]
  BY <1>2
<1>5. PICK d \in Dirs : d = cap[p].dir
  BY <1>2
<1>6. PICK n \in {"root", "tombstone"} : Only(k, n, d)
  BY <1>1, <1>4, <1>5, CondemnedTree
<1>7. /\ rec[k].st = "Tombstoned" /\ rec[k].dir = d /\ Condemned(d)
      /\ n = "root" => content[d] = "complete"
      /\ content[d] # "unused" /\ \A m \in Names : at[k][m] # NoDir => at[k][m] = d
  BY <1>1, <1>4, <1>5, <1>6, CondemnedTree DEF Names
<1>8. /\ at \in [Keys -> [Names -> Dirs \cup {NoDir}]] /\ content' \in [Dirs -> Contents]
      /\ mode \in [Dirs -> Modes]
  BY <1>2, <1>3 DEF TypeOK
<1>9. ASSUME pc[p] = "untomb", mode' = [mode EXCEPT ![d] = IF Unseals THEN "private" ELSE @],
             Goto(p, "promote"), UNCHANGED at
      PROVE  IInv'
  <2>1. /\ mode' \in [Dirs -> Modes] /\ mode'[d] \in {"private", mode[d]}
        /\ \A e \in Dirs \ {d} : mode'[e] = mode[e]
    BY <1>8, <1>9 DEF Modes
  <2>2. Only(k, n, d)' /\ Condemned(d)'
    BY <1>3, <1>6, <1>7, <1>9, <2>1 DEF Only, Condemned, Sealed
  <2>3. Described(k)'
    BY <1>3, <1>6, <1>7, <2>2 DEF Described
  <2>4. pc'[p] = "promote" => PlaceInv(p)'
    BY <1>2, <1>3, <1>4, <1>5, <1>6, <2>2
    DEF PlaceInv, Retiring, Only, Condemned, Sealed, procVars
  <2> QED
    BY <1>1, <1>3, <1>4, <1>5, <1>6, <1>7, <1>8, <1>9, <2>1, <2>3, <2>4, RetiringTree DEF Names
<1>10. ASSUME pc[p] = "promote", Goto(p, "recheck"), UNCHANGED mode,
              at' = IF Vacant(k, "tombstone") THEN MoveName(k, "root", "tombstone") ELSE at
       PROVE  IInv'
  <2>1. /\ Only(k, "tombstone", d)' /\ \A j \in Keys \ {k} : at'[j] = at[j]
        /\ at' \in [Keys -> [Names -> Dirs \cup {NoDir}]]
    <3>1. CASE n = "root"
      <4>1. Vacant(k, "tombstone")
        BY <1>2, <1>6, <3>1, OnlyIs DEF Names
      <4> QED
        BY <1>2, <1>6, <1>10, <3>1, <4>1, MovedTree DEF Names
    <3>2. CASE n = "tombstone"
      <4>1. ~Vacant(k, "tombstone")
        BY <1>2, <1>6, <3>2, OnlyIs DEF Names, Vacant
      <4> QED
        BY <1>6, <1>8, <1>10, <3>2, <4>1 DEF Only
    <3> QED
      BY <3>1, <3>2
  <2>2. Condemned(d)' /\ mode' \in [Dirs -> Modes]
    BY <1>3, <1>7, <1>8, <1>10 DEF Condemned, Sealed
  <2>3. Described(k)'
    BY <1>3, <1>7, <2>1, <2>2 DEF Described
  <2>4. pc'[p] = "recheck" => PlaceInv(p)'
    BY <1>2, <1>3, <1>4, <1>5, <2>1 DEF PlaceInv, Retiring, Only, procVars
  <2>5. \A m \in Names : at'[k][m] # NoDir => at'[k][m] = d /\ content'[d] # "unused"
    BY <1>3, <1>7, <2>1 DEF Only
  <2>6. \A e \in Dirs \ {d} : content'[e] = content[e] /\ mode'[e] = mode[e]
    BY <1>3, <1>10
  <2> QED
    BY <1>1, <1>3, <1>4, <1>5, <1>6, <1>8, <1>10, <2>1, <2>2, <2>3, <2>4, <2>5, <2>6,
       RetiringTree DEF Names
<1> QED
  BY <1>4, <1>5, <1>9, <1>10 DEF Promote

LEMMA RecheckKeeps ==
  ASSUME IInv, NEW p \in Procs,
         Check(p, "recheck", rec[key[p]] = cap[p] /\ Condemned(cap[p].dir), "clear", "failed")
  PROVE  IInv'
<1>1. /\ pc[p] = "recheck" /\ UNCHANGED <<rec, diskVars, session, op, procVars, cap, tmp, faults>>
      /\ Goto(p, "clear") \/ Exit(p, "failed")
  BY DEF Check
<1>2. pc[p] \in Retiring /\ "clear" \in Retiring
  BY <1>1 DEF Retiring
<1>3. /\ TypeOK /\ pc[p] \in GcSteps \cap Working /\ pc[p] \notin Resting /\ txn[p] = "none"
      /\ key[p] \in Keys /\ cap[p].st = "Tombstoned"
  BY <1>2, RetiringFacts
<1>4. CASE Exit(p, "failed")
  <2>1. faults' \in 0..MaxFaults
    BY <1>1, <1>3 DEF TypeOK
  <2> QED
    BY <1>1, <1>3, <1>4, <2>1, Ends DEF Results
<1>5. CASE Goto(p, "clear")
  <2>1. PICK k \in Keys : k = key[p]
    BY <1>3
  <2>2. PICK d : d = cap[p].dir
    OBVIOUS
  <2>3. Only(k, "tombstone", d)
    BY <1>1, <1>2, <2>1, <2>2, CondemnedTree
  <2>4. pc'[p] = "clear"
    BY <1>3, <1>5 DEF Goto, TypeOK
  <2>5. PlaceInv(p)'
    BY <1>1, <1>3, <2>1, <2>2, <2>3, <2>4 DEF PlaceInv, Retiring, Only, procVars, diskVars
  <2>6. "clear" \in GcSteps \cap Working
    BY <1>2, RetiringNames
  <2> QED
    BY <1>1, <1>3, <1>5, <2>5, <2>6, GoesOn
<1> QED
  BY <1>1, <1>4, <1>5

LEMMA RemoveTreeKeeps ==
  ASSUME IInv, NEW p \in Procs, RemoveTree(p)
  PROVE  IInv'
<1>1. pc[p] \in {"clear", "cleared"} /\ pc[p] \in Retiring /\ {"cleared", "drop"} \subseteq Retiring
  BY DEF RemoveTree, Retiring
<1>2. TypeOK /\ key[p] \in Keys /\ cap[p].dir \in Dirs /\ cap[p].st = "Tombstoned"
  BY <1>1, RetiringFacts
<1>3. UNCHANGED <<rec, session, op, procVars, cap, tmp, faults>>
  BY DEF RemoveTree
<1>4. PICK k \in Keys : k = key[p]
  BY <1>2
<1>5. PICK d \in Dirs : d = cap[p].dir
  BY <1>2
<1>6. /\ Only(k, "tombstone", d) /\ rec[k].st = "Tombstoned" /\ rec[k].dir = d
      /\ \A m \in Names : at[k][m] # NoDir => at[k][m] = d
  BY <1>1, <1>4, <1>5, CondemnedTree DEF Names
<1>7. ASSUME pc[p] = "clear", mode' = [mode EXCEPT ![d] = "private"],
             content' = [content EXCEPT ![d] = "clearing"], Goto(p, "cleared"), UNCHANGED at
      PROVE  IInv'
  <2>1. /\ mode' \in [Dirs -> Modes] /\ content' \in [Dirs -> Contents]
        /\ mode'[d] = "private" /\ content'[d] = "clearing"
        /\ \A e \in Dirs \ {d} : content'[e] = content[e] /\ mode'[e] = mode[e]
    BY <1>2, <1>7 DEF TypeOK, Modes, Contents
  <2>2. Only(k, "tombstone", d)'
    BY <1>6, <1>7 DEF Only
  <2>3. Described(k)'
    BY <1>3, <1>6, <2>1, <2>2 DEF Described, Condemned
  <2>4. pc'[p] = "cleared" => PlaceInv(p)'
    BY <1>2, <1>3, <1>4, <1>5, <2>2 DEF PlaceInv, Retiring, Only, procVars
  <2>5. at' \in [Keys -> [Names -> Dirs \cup {NoDir}]]
    BY <1>2, <1>7 DEF TypeOK
  <2> QED
    BY <1>1, <1>3, <1>4, <1>5, <1>6, <1>7, <2>1, <2>3, <2>4, <2>5, RetiringTree DEF Names
<1>8. ASSUME pc[p] = "cleared", at' = [at EXCEPT ![k]["tombstone"] = NoDir],
             content' = [content EXCEPT ![d] = "unused"], Goto(p, "drop"), UNCHANGED mode
      PROVE  IInv'
  <2>1. /\ mode' \in [Dirs -> Modes] /\ content' \in [Dirs -> Contents]
        /\ \A e \in Dirs \ {d} : content'[e] = content[e] /\ mode'[e] = mode[e]
    BY <1>2, <1>8 DEF TypeOK, Contents
  <2>2. /\ at[k] \in [Names -> Dirs \cup {NoDir}]
        /\ \A m \in Names \ {"tombstone"} : at[k][m] = NoDir
    BY <1>2, <1>6, OnlyIs DEF Names, Vacant, TypeOK
  <2>3. at' = [at EXCEPT ![k] = [at[k] EXCEPT !["tombstone"] = NoDir]]
    BY <1>8
  <2>4. at'[k] = [at[k] EXCEPT !["tombstone"] = NoDir] /\ \A j \in Keys \ {k} : at'[j] = at[j]
    BY <1>2, <2>3 DEF TypeOK
  <2>5. at'[k] \in [Names -> Dirs \cup {NoDir}] /\ \A m \in Names : at'[k][m] = NoDir
    BY <2>2, <2>4
  <2>6. at' \in [Keys -> [Names -> Dirs \cup {NoDir}]]
    BY <1>2, <2>3, <2>4, <2>5 DEF TypeOK
  <2>7. Gone(k)'
    BY <2>5 DEF Gone, Vacant
  <2>8. Described(k)'
    BY <1>3, <1>6, <2>7 DEF Described
  <2>9. pc'[p] = "drop" => PlaceInv(p)'
    BY <1>2, <1>3, <1>4, <2>7 DEF PlaceInv, Retiring, Gone, Vacant, procVars
  <2> QED
    BY <1>1, <1>3, <1>4, <1>5, <1>6, <1>8, <2>1, <2>4, <2>5, <2>6, <2>8, <2>9, RetiringTree
       DEF Names
<1> QED
  BY <1>4, <1>5, <1>7, <1>8 DEF RemoveTree

LEMMA DropRecordKeeps ==
  ASSUME IInv, NEW p \in Procs, DropRecord(p)
  PROVE  IInv'
<1>1. pc[p] = "drop" /\ pc[p] \in Retiring
  BY DEF DropRecord, Retiring
<1>2. /\ TypeOK /\ pc[p] \in GcSteps \cap Working /\ pc[p] \notin Resting /\ txn[p] = "none"
      /\ key[p] \in Keys /\ rec[key[p]] = cap[p] /\ ~Reachable(key[p]) /\ PlaceInv(p)
  BY <1>1, RetiringFacts
<1>3. /\ rec' = [rec EXCEPT ![key[p]] = Absent] /\ Unlease(p, "next")
      /\ UNCHANGED <<diskVars, session, op, procVars, cap, tmp, faults>>
  BY <1>2 DEF DropRecord
<1>4. ControlOK' /\ pc'[p] = "next" /\ txn' = txn /\ Turn(p)
  BY <1>2, <1>3, UnleaseMoves DEF GcSteps, procVars
<1>5. PICK k \in Keys : k = key[p]
  BY <1>2
<1>6. /\ rec' \in [Keys -> Payloads] /\ rec'[k] = Absent
      /\ \A j \in Keys \ {k} : rec'[j] = rec[j]
  BY <1>2, <1>3, <1>5, PayloadFacts DEF TypeOK
<1>7. Described(k)'
  BY <1>1, <1>2, <1>3, <1>5, <1>6 DEF PlaceInv, Described, Gone, Vacant, diskVars
<1>8. NamesInv' /\ RecordDescribesTree' /\ SessionTemplateWhole'
  BY <1>2, <1>3, <1>5, <1>6, <1>7, RecordMoves DEF IInv, diskVars
<1>9. DataOK'
  BY <1>2, <1>3, <1>6 DEF DataOK, TypeOK, diskVars, procVars
<1>10. ProcInv(p)'
  <2>1. Settled(p, key[p])'
    BY <1>3, <1>5, <1>6 DEF Settled, procVars
  <2> QED
    BY <1>2, <1>3, <1>4, <1>5, <1>6, <2>1, Done
<1> QED
  BY <1>2, <1>4, <1>8, <1>9, <1>10, TypeParts, TurnStep

(***************************************************************************)
(* The rest of the next-state relation.                                    *)
(***************************************************************************)
\* A process that does nothing, while records, trees and temporaries stay as they are.
LEMMA Untouched ==
  ASSUME NEW q \in Procs, ProcInv(q), UNCHANGED <<rec, at, content, mode, tmp>>,
         pc'[q] = pc[q], op'[q] = op[q], key'[q] = key[q], todo'[q] = todo[q], cap'[q] = cap[q],
         txn'[q] = txn[q], lease'[q] = lease[q], needed'[q] = needed[q],
         \A k \in Keys : Reachable(k)' => Reachable(k)
  PROVE  ProcInv(q)'
<1>1. WorkInv(q)' /\ TxnInv(q)'
  BY DEF ProcInv, WorkInv, TxnInv, New
<1>2. PlaceInv(q)'
  <2>1. pc[q] = "tombstone" => key[q] \in Keys
    BY PlaceNames DEF ProcInv, WorkInv, Writing
  <2> QED
    BY <2>1 DEF ProcInv, PlaceInv, Exchanged, Vacant, Only, Sealed, Condemned, Gone
<1>3. GcInv(q)'
  BY DEF ProcInv, GcInv, Settled
<1> QED
  BY <1>1, <1>2, <1>3 DEF ProcInv

LEMMA LessReach ==
  ASSUME \A s \in Sessions : session'[s] \in {session[s], NoSession}
  PROVE  \A k \in Keys : Reachable(k)' => Reachable(k)
BY NoneAssumption DEF Reachable, NoSession

LEMMA StartKeeps ==
  ASSUME IInv, NEW p \in Procs, NEW o \in {"create", "gc"}, Start(p, o)
  PROVE  IInv'
<1>1. TypeOK /\ pc[p] = "idle" /\ txn[p] = "none" /\ lease[p] = NoDir
  BY DEF IInv, ProcInv, WorkInv, Resting, Start
<1>2. UNCHANGED <<rec, diskVars, session, home, lease, txn, tmp, faults>>
  BY DEF Start
<1>3. PICK k \in Keys : key' = [key EXCEPT ![p] = IF o = "create" THEN k ELSE NoKey]
  BY DEF Start
<1>4. /\ pc' \in [Procs -> Locations] /\ op' \in [Procs -> {"create", "gc"}]
      /\ key' \in [Procs -> Keys \cup {NoKey}] /\ {todo', needed'} \subseteq [Procs -> SUBSET Keys]
      /\ cap' \in [Procs -> Payloads] /\ result' \in [Procs -> Results]
      /\ pc'[p] = "home"
  BY <1>1, <1>3, PayloadFacts DEF Start, TypeOK, Locations, Results
<1>5. TypeOK'
  BY <1>1, <1>2, <1>4 DEF TypeOK, diskVars
<1>6. NamesInv' /\ RecordDescribesTree' /\ SessionTemplateWhole'
  BY <1>2, DiskStays DEF IInv, diskVars
<1>7. ProcInv(p)'
  <2>1. pc'[p] = "home" /\ (op'[p] = "create" => key'[p] \in Keys)
    BY <1>1, <1>3 DEF Start, TypeOK
  <2> QED
    BY <1>1, <1>2, <2>1, RestProc DEF Resting
<1>8. ASSUME NEW q \in Procs \ {p} PROVE ProcInv(q)' /\ pc'[q] = pc[q]
  <2>1. /\ pc'[q] = pc[q] /\ op'[q] = op[q] /\ key'[q] = key[q] /\ todo'[q] = todo[q]
        /\ cap'[q] = cap[q] /\ needed'[q] = needed[q] /\ txn'[q] = txn[q] /\ lease'[q] = lease[q]
    BY <1>1, <1>2, <1>3 DEF Start, TypeOK
  <2> QED
    BY <1>2, <2>1, LessReach, Untouched DEF IInv, diskVars
<1>9. HomeInv'
  BY <1>1, <1>2, <1>4, <1>8 DEF IInv, HomeInv, Resting
<1> QED
  BY <1>5, <1>6, <1>7, <1>8, <1>9 DEF IInv

LEMMA LockHomeKeeps ==
  ASSUME IInv, NEW p \in Procs, LockHome(p)
  PROVE  IInv'
<1>1. TypeOK /\ pc[p] = "home" /\ home = {} /\ txn[p] = "none" /\ WorkInv(p)
  BY DEF IInv, ProcInv, WorkInv, Resting, LockHome
<1>2. UNCHANGED <<rec, diskVars, session, lease, op, procVars, cap, txn, tmp, result, faults>>
  BY DEF LockHome
<1>3. /\ home' = {p} /\ pc'[p] = (IF op[p] = "gc" THEN "census" ELSE "acquire")
      /\ \A q \in Procs \ {p} : pc'[q] = pc[q]
      /\ pc' \in [Procs -> Locations]
  <2>1. {"census", "acquire"} \subseteq Locations
    BY DEF Locations, CreateSteps, GcSteps
  <2> QED
    BY <1>1, <2>1 DEF LockHome, TypeOK
<1>4. TypeOK'
  BY <1>1, <1>2, <1>3 DEF TypeOK, diskVars, procVars
<1>5. NamesInv' /\ RecordDescribesTree' /\ SessionTemplateWhole'
  BY <1>2, DiskStays DEF IInv, diskVars
<1>6. op[p] = "gc" \/ (op[p] = "create" /\ key[p] \in Keys)
  BY <1>1 DEF WorkInv, TypeOK
<1>7. ProcInv(p)'
  <2>1. WorkInv(p)' /\ TxnInv(p)'
    BY <1>1, <1>2, <1>3, <1>6 DEF WorkInv, TxnInv, Resting, Working, Seeking, procVars
  <2>2. PlaceInv(p)'
    BY <1>3 DEF PlaceInv, Retiring
  <2>3. GcInv(p)'
    BY <1>3 DEF GcInv, Swept, GcSteps
  <2> QED
    BY <2>1, <2>2, <2>3 DEF ProcInv
<1>8. ASSUME NEW q \in Procs \ {p} PROVE ProcInv(q)'
  BY <1>2, <1>3, LessReach, Untouched DEF IInv, diskVars, procVars
<1>9. HomeInv'
  <2>1. \A q \in Procs \ {p} : pc'[q] \in Resting
    BY <1>1, <1>3 DEF IInv, HomeInv
  <2> QED
    BY <1>3, <2>1 DEF HomeInv, Resting
<1> QED
  BY <1>4, <1>5, <1>7, <1>8, <1>9 DEF IInv

LEMMA CrashKeeps ==
  ASSUME IInv, NEW p \in Procs, Crash(p)
  PROVE  IInv'
<1>1. /\ TypeOK /\ faults' \in 0..MaxFaults /\ Exit(p, "failed")
      /\ UNCHANGED <<rec, diskVars, session, op, procVars, cap, tmp>>
  BY FaultType DEF IInv, Crash
<1>2. CASE pc[p] \notin Resting
  BY <1>1, <1>2, Ends DEF Results
<1>3. CASE pc[p] \in Resting
  <2>1. p \notin home
    BY <1>3 DEF IInv, HomeInv
  <2>2. /\ ControlOK' /\ pc'[p] = "idle" /\ txn'[p] = "none" /\ lease'[p] = NoDir /\ home' = home
        /\ \A q \in Procs \ {p} : pc'[q] = pc[q] /\ txn'[q] = txn[q] /\ lease'[q] = lease[q]
    <3>1. ControlOK' /\ pc'[p] = "idle" /\ txn'[p] = "none" /\ lease'[p] = NoDir
      BY <1>1, ExitMoves DEF Results
    <3>2. home' = home
      BY <1>1, <2>1 DEF Exit, TypeOK
    <3>3. \A q \in Procs \ {p} : pc'[q] = pc[q] /\ txn'[q] = txn[q] /\ lease'[q] = lease[q]
      BY <1>1 DEF Exit, TypeOK
    <3> QED
      BY <3>1, <3>2, <3>3
  <2>3. TypeOK'
    BY <1>1, <2>2, TypeParts DEF DataOK, TypeOK, diskVars, procVars
  <2>4. NamesInv' /\ RecordDescribesTree' /\ SessionTemplateWhole'
    BY <1>1, DiskStays DEF IInv, diskVars
  <2>5. ProcInv(p)'
    BY <2>2, RestProc DEF Resting
  <2>6. ASSUME NEW q \in Procs \ {p} PROVE ProcInv(q)'
    BY <1>1, <2>2, LessReach, Untouched DEF IInv, diskVars, procVars
  <2>7. HomeInv'
    BY <1>3, <2>1, <2>2 DEF IInv, HomeInv, Resting
  <2> QED
    BY <2>3, <2>4, <2>5, <2>6, <2>7 DEF IInv
<1> QED
  BY <1>2, <1>3

LEMMA RemoveSessionKeeps ==
  ASSUME IInv, NEW s \in Sessions, RemoveSession(s)
  PROVE  IInv'
<1>1. /\ session' = [session EXCEPT ![s] = NoSession]
      /\ UNCHANGED <<rec, diskVars, home, lease, pc, op, procVars, cap, txn, tmp, result, faults>>
  BY DEF RemoveSession
<1>2. \A t \in Sessions : session'[t] \in {session[t], NoSession}
  BY <1>1 DEF IInv, TypeOK
<1>3. TypeOK'
  BY <1>1 DEF IInv, TypeOK, diskVars, procVars
<1>4. NamesInv' /\ RecordDescribesTree' /\ SessionTemplateWhole'
  BY <1>1, <1>2, DiskStays DEF IInv, diskVars
<1>5. ASSUME NEW q \in Procs PROVE ProcInv(q)'
  BY <1>1, <1>2, Untouched, LessReach DEF IInv, diskVars, procVars
<1>6. HomeInv'
  BY <1>1 DEF IInv, HomeInv
<1> QED
  BY <1>3, <1>4, <1>5, <1>6 DEF IInv

(***************************************************************************)
(* The invariant.                                                          *)
(***************************************************************************)
LEMMA InitInv == Init => IInv
<1> SUFFICES ASSUME Init PROVE IInv
  OBVIOUS
<1>1. TypeOK
  BY BoundAssumption, PayloadFacts
     DEF Init, TypeOK, Contents, Modes, Locations, TxnPhases, Results
<1>2. HomeInv /\ NamesInv
  BY DEF Init, HomeInv, NamesInv, Resting, Vacant
<1>3. RecordDescribesTree /\ SessionTemplateWhole
  BY DEF Init, RecordDescribesTree, SessionTemplateWhole, Vacant
<1>4. ASSUME NEW p \in Procs PROVE ProcInv(p)
  <2>1. pc[p] = "idle" /\ txn[p] = "none" /\ lease[p] = NoDir
    BY DEF Init
  <2>2. WorkInv(p) /\ TxnInv(p)
    BY <2>1 DEF WorkInv, TxnInv, Resting, Working
  <2>3. PlaceInv(p) /\ GcInv(p)
    BY <2>1 DEF PlaceInv, GcInv, Retiring, Swept, GcSteps
  <2> QED
    BY <2>2, <2>3 DEF ProcInv
<1> QED
  BY <1>1, <1>2, <1>3, <1>4 DEF IInv

LEMMA StutterInv ==
  ASSUME IInv, UNCHANGED vars
  PROVE  IInv'
<1>1. TypeOK' /\ HomeInv'
  BY DEF IInv, TypeOK, HomeInv, vars
<1>2. NamesInv' /\ RecordDescribesTree' /\ SessionTemplateWhole'
  BY DiskStays DEF IInv, vars
<1>3. \A q \in Procs : ProcInv(q)'
  BY LessReach, Untouched DEF IInv, vars
<1> QED
  BY <1>1, <1>2, <1>3 DEF IInv

LEMMA StepKeeps ==
  ASSUME IInv, NEW p \in Procs, Step(p)
  PROVE  IInv'
<1>1. CASE CreateStep(p)
  BY <1>1, AcquireKeeps, PrepareKeeps, AdvanceKeeps, MaterializingKeeps, FillKeeps, SealKeeps,
     PublishingKeeps, PublishTemplateKeeps, RenameReadyKeeps, ReadyKeeps, ShareKeeps,
     CreateSessionKeeps DEF CreateStep
<1>2. CASE GcStep(p)
  <2>1. CASE CompleteTombstone(p)
    BY <2>1, InspectTombstoneKeeps, PromoteKeeps, RecheckKeeps, RemoveTreeKeeps, DropRecordKeeps
       DEF CompleteTombstone
  <2> QED
    BY <1>2, <2>1, CensusKeeps, SweepKeeps, NextTemplateKeeps, RetireReadyKeeps DEF GcStep
<1> QED
  BY <1>1, <1>2 DEF Step

LEMMA NextInv == IInv /\ [Next]_vars => IInv'
<1> SUFFICES ASSUME IInv, [Next]_vars PROVE IInv'
  OBVIOUS
<1>1. ASSUME NEW p \in Procs, Start(p, "create") \/ Start(p, "gc") PROVE IInv'
  BY <1>1, StartKeeps
<1>2. ASSUME NEW p \in Procs, LockHome(p) \/ Step(p) \/ Crash(p) PROVE IInv'
  BY <1>2, LockHomeKeeps, StepKeeps, CrashKeeps
<1>3. ASSUME NEW s \in Sessions, RemoveSession(s) PROVE IInv'
  BY <1>3, RemoveSessionKeeps
<1>4. CASE UNCHANGED vars
  BY <1>4, StutterInv
<1> QED
  BY <1>1, <1>2, <1>3, <1>4 DEF Next

\* Whoever holds HOME goes by the record that is on disk, and its place tells what the
\* tree is; nobody else holds a lease or is in a transaction (acquire, gc, RecordTxn).
THEOREM Invariance == Spec => []IInv
<1>1. Init => IInv
  BY InitInv
<1>2. IInv /\ [Next]_vars => IInv'
  BY NextInv
<1> QED
  BY <1>1, <1>2, PTL DEF Spec

\* Every variable stays in its set, at any number of processes, templates and sessions.
THEOREM TypeCorrect == Spec => []TypeOK
<1>1. IInv => TypeOK
  BY DEF IInv
<1> QED
  BY <1>1, Invariance, PTL

\* The template a session record names is Ready and its sealed tree is whole and at its
\* name, whichever creates, removals and gcs run or die beside it (gc_ready_template).
THEOREM SessionWhole == Spec => []SessionTemplateWhole
<1>1. IInv => SessionTemplateWhole
  BY DEF IInv
<1> QED
  BY <1>1, Invariance, PTL

\* Wherever a process dies, the record of a template is a true account of its tree
\* (advance_prepared, publish_template, transition_template_tombstone).
THEOREM Describes == Spec => []RecordDescribesTree
<1>1. IInv => RecordDescribesTree
  BY DEF IInv
<1> QED
  BY <1>1, Invariance, PTL

(***************************************************************************)
(* What a gc that reports success has done.                                *)
(***************************************************************************)
\* A step of one process that does not report success.
Quiet(q) ==
  /\ \A p \in Procs \ {q} : pc'[p] = pc[p]
  /\ pc[q] \in GcSteps /\ pc'[q] = "idle" => result'[q] = "failed"

LEMMA QuietMoves ==
  ASSUME TypeOK, NEW q \in Procs
  PROVE  /\ \A to \in CreateSteps \cup GcSteps : Goto(q, to) \/ Unlease(q, to) => Quiet(q)
         /\ Exit(q, "failed") => Quiet(q)
         /\ UNCHANGED pc => Quiet(q)
<1>1. "idle" \notin CreateSteps \cup GcSteps
  BY DEF CreateSteps, GcSteps
<1>2. ASSUME NEW to \in CreateSteps \cup GcSteps, Goto(q, to) \/ Unlease(q, to)
      PROVE  Quiet(q)
  BY <1>1, <1>2 DEF Quiet, Goto, Unlease, TypeOK
<1>3. Exit(q, "failed") => Quiet(q)
  BY DEF Quiet, Exit, TypeOK
<1>4. UNCHANGED pc => Quiet(q)
  BY <1>1 DEF Quiet
<1> QED
  BY <1>2, <1>3, <1>4

LEMMA WriteQuiet ==
  ASSUME TypeOK, NEW q \in Procs, NEW from, NEW new, NEW to \in CreateSteps \cup GcSteps,
         WriteRecord(q, from, new, to)
  PROVE  Quiet(q)
BY QuietMoves DEF WriteRecord, TxnBegin, TxnCommit, TxnUnlink, TxnAbort, Within

LEMMA CreateQuiet ==
  ASSUME TypeOK, NEW q \in Procs, CreateStep(q)
  PROVE  Quiet(q)
<1>1. \A x \in CreateSteps : x \in CreateSteps \cup GcSteps
  OBVIOUS
<1>2. CASE Prepare(q) \/ Materializing(q) \/ Publishing(q) \/ Ready(q)
  BY <1>2, WriteQuiet DEF Prepare, Materializing, Publishing, Ready, CreateSteps
<1>3. CASE Acquire(q)
  BY <1>3, QuietMoves DEF Acquire, CreateSteps
<1>4. CASE Advance(q)
  BY <1>4, QuietMoves DEF Advance, MakeRoot, Check, CreateSteps
<1>5. CASE Fill(q) \/ Seal(q)
  BY <1>5, QuietMoves DEF Fill, Seal, CreateSteps
<1>6. CASE PublishTemplate(q)
  BY <1>6, QuietMoves DEF PublishTemplate, Check, CreateSteps
<1>7. CASE RenameReady(q)
  BY <1>7, QuietMoves DEF RenameReady, CreateSteps
<1>8. CASE Share(q)
  <2>1. CASE Exit(q, "failed")
    BY <2>1, QuietMoves
  <2>2. CASE pc' = [pc EXCEPT ![q] = "session"]
    BY <2>2 DEF Quiet, TypeOK
  <2> QED
    BY <1>8, <2>1, <2>2 DEF Share
<1>9. CASE CreateSession(q)
  <2>1. pc[q] \notin GcSteps /\ \E code : Exit(q, code)
    BY <1>9 DEF CreateSession, GcSteps
  <2> QED
    BY <2>1 DEF Quiet, Exit, TypeOK
<1> QED
  BY <1>2, <1>3, <1>4, <1>5, <1>6, <1>7, <1>8, <1>9 DEF CreateStep

LEMMA GcQuiet ==
  ASSUME TypeOK, NEW q \in Procs, GcStep(q)
  PROVE  Quiet(q) \/ (NextTemplate(q) /\ todo[q] = {} /\ Exit(q, "ok"))
<1>1. CASE Census(q)
  BY <1>1, QuietMoves DEF Census, GcSteps
<1>2. CASE Sweep(q)
  BY <1>2, QuietMoves DEF Sweep, GcSteps
<1>3. CASE NextTemplate(q)
  <2>1. {"lease", "inspect"} \subseteq CreateSteps \cup GcSteps
    BY DEF GcSteps
  <2> QED
    BY <1>3, <2>1, QuietMoves DEF NextTemplate
<1>4. ASSUME NEW from, NEW d, NEW ok, NEW to \in GcSteps, Lease(q, from, d, ok, to)
      PROVE  Quiet(q)
  <2>1. CASE Goto(q, "next") \/ Exit(q, "failed")
    BY <2>1, QuietMoves DEF GcSteps
  <2>2. CASE pc' = [pc EXCEPT ![q] = to]
    BY <2>2 DEF Quiet, TypeOK, GcSteps
  <2> QED
    BY <1>4, <2>1, <2>2 DEF Lease
<1>5. ASSUME NEW from, NEW to \in GcSteps, Reach(q, from, to)
      PROVE  Quiet(q)
  BY <1>5, QuietMoves DEF Reach, Release, GcSteps
<1>6. ASSUME NEW from, NEW leased \in GcSteps, NEW gone \in GcSteps,
             Inspect(q, from, leased, gone)
      PROVE  Quiet(q)
  BY <1>6, QuietMoves DEF Inspect, Check
<1>7. CASE RetireReady(q)
  <2>1. CASE Lease(q, "lease", cap[q].dir,
                   at[key[q]]["root"] = cap[q].dir /\ Sealed(cap[q].dir), "reach")
    <3>1. PICK ok \in BOOLEAN : Lease(q, "lease", cap[q].dir, ok, "reach")
      BY <2>1 DEF Lease
    <3> QED
      BY <1>4, <3>1 DEF GcSteps
  <2>2. CASE Reach(q, "reach", "tombstone")
    BY <1>5, <2>2 DEF GcSteps
  <2>3. CASE WriteRecord(q, "tombstone", Payload("Tombstoned", NoProc, cap[q].dir), "retire")
    BY <2>3, WriteQuiet DEF GcSteps
  <2>4. CASE Release(q, "inspect_retired")
    BY <2>4, QuietMoves DEF Release, GcSteps
  <2> QED
    BY <1>7, <2>1, <2>2, <2>3, <2>4 DEF RetireReady
<1>8. CASE InspectTombstone(q)
  <2>1. CASE Lease(q, "tomb_lease", cap[q].dir, Condemned(cap[q].dir), "tomb_reach")
    <3>1. PICK ok \in BOOLEAN : Lease(q, "tomb_lease", cap[q].dir, ok, "tomb_reach")
      BY <2>1 DEF Lease
    <3> QED
      BY <1>4, <3>1 DEF GcSteps
  <2>2. CASE Lease(q, "retired_lease", cap[q].dir, Condemned(cap[q].dir), "untomb")
    <3>1. PICK ok \in BOOLEAN : Lease(q, "retired_lease", cap[q].dir, ok, "untomb")
      BY <2>2 DEF Lease
    <3> QED
      BY <1>4, <3>1 DEF GcSteps
  <2>3. CASE Reach(q, "tomb_reach", "untomb") \/ Reach(q, "gone_reach", "drop")
    BY <1>5, <2>3 DEF GcSteps
  <2>4. CASE \/ Inspect(q, "inspect", "tomb_lease", "gone_reach")
             \/ Inspect(q, "inspect_retired", "retired_lease", "drop")
    BY <1>6, <2>4 DEF GcSteps
  <2> QED
    BY <1>8, <2>1, <2>2, <2>3, <2>4 DEF InspectTombstone
<1>9. CASE Promote(q) \/ RemoveTree(q)
  BY <1>9, QuietMoves DEF Promote, RemoveTree, GcSteps
<1>10. CASE Check(q, "recheck", rec[key[q]] = cap[q] /\ Condemned(cap[q].dir), "clear", "failed")
  BY <1>10, QuietMoves DEF Check, GcSteps
<1>11. CASE DropRecord(q)
  BY <1>11, QuietMoves DEF DropRecord, GcSteps
<1> QED
  BY <1>1, <1>2, <1>3, <1>7, <1>8, <1>9, <1>10, <1>11 DEF GcStep, CompleteTombstone

LEMMA NextQuiet ==
  ASSUME TypeOK, [Next]_vars
  PROVE  \/ UNCHANGED pc
         \/ \E q \in Procs : Quiet(q) \/ (NextTemplate(q) /\ todo[q] = {} /\ Exit(q, "ok"))
<1>1. ASSUME NEW q \in Procs, Start(q, "create") \/ Start(q, "gc") PROVE Quiet(q)
  BY <1>1 DEF Start, Quiet, TypeOK
<1>2. ASSUME NEW q \in Procs, LockHome(q) PROVE Quiet(q)
  BY <1>2 DEF LockHome, Quiet, TypeOK
<1>3. ASSUME NEW q \in Procs, Crash(q) PROVE Quiet(q)
  BY <1>3, QuietMoves DEF Crash
<1>4. CASE UNCHANGED vars
  BY <1>4 DEF vars
<1>5. ASSUME NEW s \in Sessions, RemoveSession(s) PROVE UNCHANGED pc
  BY <1>5 DEF RemoveSession
<1> QED
  BY <1>1, <1>2, <1>3, <1>4, <1>5, CreateQuiet, GcQuiet DEF Next, Step

\* A gc that reports success leaves no temporary, no tombstone and no half-made template,
\* and every template it kept was in use when it began (the loop of gc).
THEOREM GcClean == Spec => GcOkMeansClean
<1> DEFINE Clean == \A p \in Procs :
             pc[p] \in GcSteps /\ pc'[p] = "idle" /\ result'[p] = "ok" =>
               /\ \A q \in Procs : tmp'[q] = NoTmp
               /\ \A k \in Keys : rec'[k] = Absent \/ (rec'[k].st = "Ready" /\ k \in needed[p])
<1>1. IInv /\ [Next]_vars => Clean
  <2> SUFFICES ASSUME IInv, [Next]_vars, NEW p \in Procs,
                      pc[p] \in GcSteps, pc'[p] = "idle", result'[p] = "ok"
               PROVE  /\ \A q \in Procs : tmp'[q] = NoTmp
                      /\ \A k \in Keys : rec'[k] = Absent
                                           \/ (rec'[k].st = "Ready" /\ k \in needed[p])
    OBVIOUS
  <2>1. TypeOK /\ ProcInv(p) /\ pc[p] # "idle"
    BY DEF IInv, GcSteps
  <2>2. PICK q \in Procs : Quiet(q) \/ (NextTemplate(q) /\ todo[q] = {} /\ Exit(q, "ok"))
    BY <2>1, NextQuiet
  <2>3. q = p
    BY <2>1, <2>2 DEF Quiet, Exit, TypeOK
  <2>4. NextTemplate(p) /\ todo[p] = {} /\ Exit(p, "ok")
    BY <2>2, <2>3 DEF Quiet
  <2>5. pc[p] = "next" /\ UNCHANGED <<rec, tmp>>
    BY <2>4 DEF NextTemplate
  <2>6. GcInv(p) /\ txn[p] = "none"
    BY <2>1, <2>5, SeekingFacts DEF ProcInv
  <2>7. \A r \in Procs : tmp[r] = NoTmp
    BY <2>5, <2>6, GcNames DEF GcInv
  <2>8. \A k \in Keys : Settled(p, k)
    <3>1. pc[p] \in GcSteps \ {"census"} /\ pc[p] \notin Working
      BY <2>5 DEF GcSteps, Working, Seeking
    <3> QED
      BY <2>4, <2>6, <3>1 DEF GcInv
  <2> QED
    BY <2>5, <2>7, <2>8 DEF Settled
<1>2. []IInv /\ [][Next]_vars => [][Clean]_vars
  BY <1>1, PTL
<1> QED
  BY <1>2, Invariance, PTL DEF Spec, GcOkMeansClean

(***************************************************************************)
(* TemplateLifecycle implements TemplatePromise.                           *)
(***************************************************************************)
\* A place tells the command.
OpInv ==
  \A p \in Procs : /\ pc[p] \in CreateSteps => op[p] = "create"
                   /\ pc[p] \in GcSteps => op[p] = "gc"

Advances == Promise!Next \/ UNCHANGED Promise!vars

LEMMA StageFacts ==
  /\ StageOf("Absent") = "none" /\ StageOf("Prepared") = "making"
  /\ StageOf("Materializing") = "making" /\ StageOf("Publishing") = "making"
  /\ StageOf("Ready") = "offered" /\ StageOf("Tombstoned") = "going"
BY DEF StageOf

LEMMA TreeIs ==
  ASSUME TypeOK, NEW k \in Keys
  PROVE  /\ \A n \in Names : \A d : Only(k, n, d) => TreeAt(k) = d
         /\ Gone(k) => TreeAt(k) = NoDir
<1>1. ASSUME NEW n \in Names, NEW d, Only(k, n, d) PROVE TreeAt(k) = d
  <2>1. d # NoDir /\ at[k][n] = d /\ \A m \in Names \ {n} : Vacant(k, m)
    BY <1>1, OnlyIs
  <2> QED
    BY <2>1 DEF TreeAt, Vacant, Names
<1>2. Gone(k) => TreeAt(k) = NoDir
  BY DEF Gone, TreeAt, Vacant, Names
<1> QED
  BY <1>1, <1>2

\* A step changes one record, one template's names or one directory.
LEMMA StagesMove ==
  ASSUME TypeOK, NEW k \in Keys, NEW r, rec' = [rec EXCEPT ![k] = r]
  PROVE  /\ Stages[k] = StageOf(rec[k].st)
         /\ Stages' = [Stages EXCEPT ![k] = StageOf(r.st)]
         /\ StageOf(r.st) = Stages[k] => UNCHANGED Stages
BY DEF Stages, TypeOK

LEMMA TreesMove ==
  ASSUME NEW k \in Keys, \A j \in Keys \ {k} : at'[j] = at[j]
  PROVE  /\ Trees' = [Trees EXCEPT ![k] = TreeAt(k)']
         /\ TreeAt(k)' = TreeAt(k) => UNCHANGED Trees
<1>1. \A j \in Keys \ {k} : TreeAt(j)' = TreeAt(j)
  BY DEF TreeAt, Vacant
<1> QED
  BY <1>1 DEF Trees

LEMMA ShapesMove ==
  ASSUME NEW d \in Dirs,
         \A e \in Dirs \ {d} : content'[e] = content[e] /\ mode'[e] = mode[e]
  PROVE  Shapes' = [Shapes EXCEPT ![d] = Shape(d)']
<1>1. \A e \in Dirs \ {d} : Shape(e)' = Shape(e)
  BY DEF Shape, Sealed
<1> QED
  BY <1>1 DEF Shapes

LEMMA TemplatesStay ==
  /\ UNCHANGED rec => UNCHANGED Stages
  /\ UNCHANGED at => UNCHANGED Trees
  /\ UNCHANGED <<content, mode>> => UNCHANGED Shapes
BY DEF Stages, Trees, TreeAt, Vacant, Shapes, Shape, Sealed

\* A call that goes on.
Onward(p) ==
  /\ \/ pc[p] \in CreateSteps /\ pc'[p] \in CreateSteps /\ UNCHANGED key
     \/ pc[p] \in GcSteps /\ pc'[p] \in GcSteps
  /\ \A q \in Procs \ {p} : pc'[q] = pc[q] /\ key'[q] = key[q]
  /\ UNCHANGED <<op, home, result>>

LEMMA StepNames ==
  /\ "idle" \notin CreateSteps \cup GcSteps /\ "home" \notin CreateSteps \cup GcSteps
  /\ CreateSteps \cap GcSteps = {}
BY DEF CreateSteps, GcSteps

LEMMA CallGoesOn ==
  ASSUME TypeOK, OpInv, NEW p \in Procs, Onward(p)
  PROVE  /\ OpInv' /\ UNCHANGED <<Job, Want, home, result>>
         /\ Job[p] = op[p] /\ op[p] = (IF pc[p] \in GcSteps THEN "gc" ELSE "create")
         /\ op[p] = "create" => Want[p] = key[p]
<1>1. op[p] = (IF pc[p] \in GcSteps THEN "gc" ELSE "create") /\ pc[p] # "idle" /\ pc'[p] # "idle"
  BY StepNames DEF Onward, OpInv
<1>2. OpInv'
  BY <1>1, StepNames DEF Onward, OpInv
<1>3. Job' = Job
  BY <1>1 DEF Onward, Job
<1>4. \A q \in Procs : Job[q] = "create" => key'[q] = key[q]
  BY <1>1, StepNames DEF Onward, Job
<1>5. Want' = Want
  BY <1>3, <1>4 DEF Want
<1> QED
  BY <1>1, <1>2, <1>3, <1>5 DEF Onward, Job, Want

LEMMA OnwardMoves ==
  ASSUME TypeOK, NEW p \in Procs, UNCHANGED <<op, key>>,
         NEW S \in {CreateSteps, GcSteps}, pc[p] \in S
  PROVE  /\ \A to \in S : Goto(p, to) => Onward(p)
         /\ \A to \in S : Unlease(p, to) => Onward(p)
         /\ \A phase : Within(p, phase) => Onward(p)
BY DEF Onward, Goto, Unlease, Within, TypeOK

\* Nothing anybody is promised anything about.
LEMMA Silent ==
  ASSUME TypeOK, OpInv, NEW p \in Procs, Onward(p), UNCHANGED <<Stages, Trees, Shapes>>,
         UNCHANGED <<session, needed>>
  PROVE  OpInv' /\ Advances
BY CallGoesOn DEF Advances, Promise!vars

LEMMA CallEnds ==
  ASSUME TypeOK, OpInv, NEW p \in Procs, pc[p] # "idle", NEW code, Exit(p, code),
         op' = op, \A q \in Procs \ {p} : key'[q] = key[q], needed' = needed
  PROVE  /\ OpInv' /\ Promise!Return(p, code)
         /\ pc[p] \in CreateSteps => Job[p] = "create" /\ Want[p] = key[p]
         /\ pc[p] \in GcSteps => Job[p] = "gc"
<1>1. pc'[p] = "idle" /\ \A q \in Procs \ {p} : pc'[q] = pc[q]
  BY DEF Exit, TypeOK
<1>2. OpInv'
  BY <1>1, StepNames DEF OpInv
<1>3. Job[p] = op[p] /\ op[p] # "none"
  BY DEF Job, TypeOK
<1>4. Job' = [Job EXCEPT ![p] = "none"]
  BY <1>1 DEF Job
<1>5. Want' = [Want EXCEPT ![p] = NoKey]
  BY <1>1, <1>4 DEF Want, Job
<1>6. Promise!Return(p, code)
  BY <1>3, <1>4, <1>5 DEF Promise!Return, Exit
<1> QED
  BY <1>2, <1>3, <1>6 DEF OpInv, Want

LEMMA Fails ==
  ASSUME TypeOK, OpInv, NEW p \in Procs, pc[p] # "idle", Exit(p, "failed"),
         op' = op, \A q \in Procs \ {p} : key'[q] = key[q], UNCHANGED <<session, needed>>,
         UNCHANGED <<Stages, Trees, Shapes>>
  PROVE  OpInv' /\ Advances
<1>1. OpInv' /\ Promise!Return(p, "failed")
  BY CallEnds
<1>2. Promise!Failed(p)
  BY <1>1 DEF Promise!Failed, Promise!templates
<1> QED
  BY <1>1, <1>2 DEF Advances, Promise!Next

LEMMA Checked ==
  ASSUME TypeOK, OpInv, NEW p \in Procs, NEW S \in {CreateSteps, GcSteps}, NEW from \in S,
         NEW to \in S, NEW ok \in BOOLEAN, Check(p, from, ok, to, "failed")
  PROVE  OpInv' /\ Advances
<1>1. /\ pc[p] \in S /\ UNCHANGED <<op, key, session, needed>>
      /\ UNCHANGED <<Stages, Trees, Shapes>> /\ (Goto(p, to) \/ Exit(p, "failed"))
  BY TemplatesStay DEF Check, diskVars, procVars
<1>2. pc[p] # "idle"
  BY <1>1, StepNames
<1> QED
  BY <1>1, <1>2, OnwardMoves, Silent, Fails

\* A record transaction says nothing until it commits.
LEMMA Writes ==
  ASSUME IInv, OpInv, NEW p \in Procs, NEW S \in {CreateSteps, GcSteps},
         NEW from \in S \cap Writing, NEW to \in S, NEW new, WriteRecord(p, from, new, to)
  PROVE  \/ OpInv' /\ Advances
         \/ /\ pc[p] = from /\ ~Exchanged(p) /\ Onward(p)
            /\ rec' = [rec EXCEPT ![key[p]] = New(p)]
            /\ UNCHANGED <<Trees, Shapes, session, needed>>
<1>1. /\ pc[p] = from /\ pc[p] # "idle" /\ UNCHANGED <<op, key, session, needed, Trees, Shapes>>
  BY StepNames, TemplatesStay DEF WriteRecord, diskVars, procVars
<1>2. TypeOK /\ TxnInv(p)
  BY <1>1, WritingFacts DEF ProcInv
<1>3. CASE UNCHANGED rec
  <2>1. Onward(p) \/ Exit(p, "failed")
    BY <1>1, <1>2, OnwardMoves
    DEF WriteRecord, TxnBegin, TxnCommit, TxnUnlink, TxnAbort
  <2> QED
    BY <1>1, <1>2, <1>3, <2>1, TemplatesStay, Silent, Fails
<1>4. CASE /\ txn[p] = "written" /\ rec' = [rec EXCEPT ![key[p]] = tmp[p].new]
           /\ Goto(p, to) \/ Within(p, "exchanged")
  BY <1>1, <1>2, <1>4, OnwardMoves DEF TxnInv, Exchanged
<1> QED
  BY <1>3, <1>4 DEF WriteRecord, TxnBegin, TxnCommit, TxnUnlink, TxnAbort

LEMMA PreparePromise ==
  ASSUME IInv, OpInv, NEW p \in Procs, Prepare(p)
  PROVE  OpInv' /\ Advances
<1>1. {"prepare", "advance"} \subseteq CreateSteps /\ "prepare" \in Writing
  BY DEF CreateSteps, Writing
<1> SUFFICES ASSUME pc[p] = "prepare", ~Exchanged(p), Onward(p),
                    rec' = [rec EXCEPT ![key[p]] = New(p)],
                    UNCHANGED <<Trees, Shapes, session, needed>>
             PROVE  OpInv' /\ Advances
  BY <1>1, Writes DEF Prepare
<1>2. /\ TypeOK /\ PlaceInv(p) /\ key[p] \in Keys /\ rec[key[p]] = cap[p]
  BY <1>1, WritingFacts DEF ProcInv
<1>3. rec[key[p]] = Absent /\ New(p).st = "Prepared"
  BY <1>2, PayloadFacts DEF PlaceInv, New
<1>4. Stages[key[p]] = "none" /\ Stages' = [Stages EXCEPT ![key[p]] = "making"]
  <2>1. /\ Stages[key[p]] = StageOf(rec[key[p]].st)
        /\ Stages' = [Stages EXCEPT ![key[p]] = StageOf(New(p).st)]
    BY <1>2, StagesMove
  <2> QED
    BY <1>2, <1>3, <2>1, StageFacts, PayloadFacts
<1>5. /\ OpInv' /\ UNCHANGED <<Job, Want, home, result>> /\ Job[p] = "create"
      /\ Want[p] = key[p] /\ p \in home
  BY <1>1, <1>2, CallGoesOn, StepNames, WritingFacts, Alone
<1>6. Promise!Begin(p)
  BY <1>4, <1>5 DEF Promise!Begin, Promise!Works, Promise!callVars, Promise!Becomes
<1> QED
  BY <1>5, <1>6 DEF Advances, Promise!Next

\* The records in between.
LEMMA MakingPromise ==
  ASSUME IInv, OpInv, NEW p \in Procs, Materializing(p) \/ Publishing(p)
  PROVE  OpInv' /\ Advances
<1>1. /\ {"materializing", "fill", "publishing", "publish"} \subseteq CreateSteps
      /\ {"materializing", "publishing"} \subseteq Writing
  BY DEF CreateSteps, Writing
<1> SUFFICES ASSUME pc[p] \in {"materializing", "publishing"}, ~Exchanged(p), Onward(p),
                    rec' = [rec EXCEPT ![key[p]] = New(p)],
                    UNCHANGED <<Trees, Shapes, session, needed>>
             PROVE  OpInv' /\ Advances
  BY <1>1, Writes DEF Materializing, Publishing
<1>2. /\ TypeOK /\ PlaceInv(p) /\ key[p] \in Keys /\ rec[key[p]] = cap[p]
  BY <1>1, WritingFacts DEF ProcInv
<1>3. cap[p].st \in {"Prepared", "Materializing"} /\ New(p).st \in {"Materializing", "Publishing"}
  BY <1>2, PayloadFacts DEF PlaceInv, New
<1>4. UNCHANGED Stages
  BY <1>2, <1>3, StagesMove, StageFacts DEF Stages
<1> QED
  BY <1>2, <1>4, Silent

LEMMA ReadyPromise ==
  ASSUME IInv, OpInv, NEW p \in Procs, Ready(p)
  PROVE  OpInv' /\ Advances
<1>1. {"ready", "share"} \subseteq CreateSteps /\ "ready" \in Writing
  BY DEF CreateSteps, Writing
<1> SUFFICES ASSUME pc[p] = "ready", ~Exchanged(p), Onward(p),
                    rec' = [rec EXCEPT ![key[p]] = New(p)],
                    UNCHANGED <<Trees, Shapes, session, needed>>
             PROVE  OpInv' /\ Advances
  BY <1>1, Writes DEF Ready
<1>2. /\ TypeOK /\ PlaceInv(p) /\ key[p] \in Keys /\ rec[key[p]] = cap[p]
  BY <1>1, WritingFacts DEF ProcInv
<1>3. /\ cap[p].st = "Publishing" /\ Only(key[p], "root", cap[p].dir) /\ Sealed(cap[p].dir)
      /\ New(p).st = "Ready"
  BY <1>2, PayloadFacts DEF PlaceInv, New
<1>4. Stages[key[p]] = "making" /\ Stages' = [Stages EXCEPT ![key[p]] = "offered"]
  <2>1. /\ Stages[key[p]] = StageOf(rec[key[p]].st)
        /\ Stages' = [Stages EXCEPT ![key[p]] = StageOf(New(p).st)]
    BY <1>2, StagesMove
  <2> QED
    BY <1>2, <1>3, <2>1, StageFacts, PayloadFacts
<1>5. Trees[key[p]] # NoDir /\ Shapes[Trees[key[p]]] = "sealed"
  BY <1>2, <1>3, TreeIs, OwnTree DEF Trees, Shapes, Shape, Sealed, Names
<1>6. /\ OpInv' /\ UNCHANGED <<Job, Want, home, result>> /\ Job[p] = "create"
      /\ Want[p] = key[p] /\ p \in home
  BY <1>1, <1>2, CallGoesOn, StepNames, WritingFacts, Alone
<1>7. Promise!Offer(p)
  BY <1>4, <1>5, <1>6 DEF Promise!Offer, Promise!Works, Promise!callVars, Promise!Becomes
<1> QED
  BY <1>6, <1>7 DEF Advances, Promise!Next

\* Wherever gc is after its census, no template is half made.
LEMMA HalfMade ==
  ASSUME IInv, NEW p \in Procs, pc[p] \in GcSteps \ {"census"}
  PROVE  Promise!NoneHalfMade
<1>1. ASSUME NEW k \in Keys PROVE rec[k].st \in {"Absent", "Ready", "Tombstoned"}
  <2>1. ProcInv(p)
    BY DEF IInv
  <2>2. CASE k \in todo[p] \/ Settled(p, k)
    BY <1>1, <2>1, <2>2, PayloadFacts DEF ProcInv, GcInv, Settled
  <2>3. CASE pc[p] \in Working /\ k = key[p]
    <3>1. rec[k] = cap[p] /\ PlaceInv(p)
      BY <2>3, WorkFacts
    <3>2. pc[p] \in {"lease", "reach", "tombstone"} \cup Retiring
      BY <2>3, GcNames DEF GcSteps, Retiring
    <3> QED
      BY <3>1, <3>2 DEF PlaceInv
  <2> QED
    BY <2>1, <2>2, <2>3 DEF ProcInv, GcInv
<1> QED
  BY <1>1, StageFacts DEF Promise!NoneHalfMade, Stages

\* A step of gc on a template.
LEMMA Collecting ==
  ASSUME IInv, OpInv, NEW p \in Procs, pc[p] \in GcSteps \ {"census"}, Onward(p),
         UNCHANGED <<session, needed>>
  PROVE  OpInv' /\ Promise!Works(p, "gc") /\ Promise!NoneHalfMade
<1>1. TypeOK /\ pc[p] \notin Resting
  BY GcNames DEF IInv
<1>2. p \in home
  BY <1>1, Alone
<1>3. OpInv' /\ UNCHANGED <<Job, Want, home, result>> /\ Job[p] = "gc"
  BY <1>1, CallGoesOn
<1> QED
  BY <1>2, <1>3, HalfMade DEF Promise!Works, Promise!callVars

LEMMA TombstonePromise ==
  ASSUME IInv, OpInv, NEW p \in Procs,
         WriteRecord(p, "tombstone", Payload("Tombstoned", NoProc, cap[p].dir), "retire")
  PROVE  OpInv' /\ Advances
<1>1. {"tombstone", "retire"} \subseteq GcSteps /\ "tombstone" \in Writing
  BY DEF GcSteps, Writing
<1> SUFFICES ASSUME pc[p] = "tombstone", ~Exchanged(p), Onward(p),
                    rec' = [rec EXCEPT ![key[p]] = New(p)],
                    UNCHANGED <<Trees, Shapes, session, needed>>
             PROVE  OpInv' /\ Advances
  BY <1>1, Writes
<1>2. /\ TypeOK /\ PlaceInv(p) /\ key[p] \in Keys /\ rec[key[p]] = cap[p]
  BY <1>1, WritingFacts DEF ProcInv
<1>3. cap[p].st = "Ready" /\ ~Reachable(key[p]) /\ New(p).st = "Tombstoned"
  BY <1>2, PayloadFacts DEF PlaceInv, New
<1>4. Stages[key[p]] = "offered" /\ Stages' = [Stages EXCEPT ![key[p]] = "going"]
  <2>1. /\ Stages[key[p]] = StageOf(rec[key[p]].st)
        /\ Stages' = [Stages EXCEPT ![key[p]] = StageOf(New(p).st)]
    BY <1>2, StagesMove
  <2> QED
    BY <1>2, <1>3, <2>1, StageFacts, PayloadFacts
<1>5. OpInv' /\ Promise!Works(p, "gc") /\ Promise!NoneHalfMade
  BY <1>1, Collecting
<1>6. Promise!GiveUp(p, key[p])
  BY <1>3, <1>4, <1>5 DEF Promise!GiveUp, Promise!Becomes, Promise!Needs, Reachable
<1> QED
  BY <1>2, <1>5, <1>6 DEF Advances, Promise!Next

(***************************************************************************)
(* create                                                                  *)
(***************************************************************************)
\* A step on the tree create is making.
LEMMA Shaping ==
  ASSUME IInv, NEW p \in Procs, pc[p] \in CreateSteps \cap Working,
         Job[p] = "create", Want[p] = key[p],
         cap[p].st \in {"Materializing", "Publishing"}, UNCHANGED <<rec, Trees>>,
         \A e \in Dirs \ {cap[p].dir} : content'[e] = content[e] /\ mode'[e] = mode[e],
         content'[cap[p].dir] # "unused"
  PROVE  Promise!Shaped(p)
<1>1. /\ TypeOK /\ p \in home /\ key[p] \in Keys /\ rec[key[p]] = cap[p]
  BY WorkFacts, Alone
<1>2. Stages[key[p]] = "making" /\ UNCHANGED Stages
  BY <1>1, StageFacts, TemplatesStay DEF Stages
<1>3. Only(key[p], "building", cap[p].dir) \/ Only(key[p], "root", cap[p].dir)
  BY <1>1, TreeOf
<1>4. PICK d \in Dirs : d = cap[p].dir /\ d # NoDir /\ Trees[key[p]] = d
  BY <1>1, <1>3, TreeIs, OwnTree DEF Trees, Names
<1>5. Shapes' = [Shapes EXCEPT ![d] = Shape(d)']
  BY <1>4, ShapesMove
<1>6. Shape(d)' \in {"open", "sealed"}
  BY <1>4 DEF Shape
<1> QED
  BY <1>1, <1>2, <1>4, <1>5, <1>6 DEF Promise!Shaped

LEMMA BuildPromise ==
  ASSUME IInv, OpInv, NEW p \in Procs, pc[p] \in CreateSteps \cap Working, Onward(p),
         cap[p].st \in {"Materializing", "Publishing"}, UNCHANGED <<rec, Trees, session, needed>>,
         \A e \in Dirs \ {cap[p].dir} : content'[e] = content[e] /\ mode'[e] = mode[e],
         content'[cap[p].dir] # "unused"
  PROVE  OpInv' /\ Advances
<1>1. TypeOK /\ p \in home /\ pc[p] \notin GcSteps
  BY WorkFacts, Alone, StepNames
<1>2. /\ OpInv' /\ UNCHANGED <<Job, Want, home, result>>
      /\ Job[p] = "create" /\ Want[p] = key[p]
  BY <1>1, CallGoesOn
<1>3. Promise!Shaped(p)
  BY <1>2, Shaping
<1>4. Promise!Build(p)
  BY <1>1, <1>2, <1>3 DEF Promise!Build, Promise!Works, Promise!callVars
<1> QED
  BY <1>2, <1>4 DEF Advances, Promise!Next

LEMMA AcquirePromise ==
  ASSUME IInv, OpInv, NEW p \in Procs, Acquire(p)
  PROVE  OpInv' /\ Advances
<1>1. /\ {"acquire", "prepare", "advance", "publish", "share"} \subseteq CreateSteps
      /\ TypeOK /\ pc[p] = "acquire" /\ pc[p] # "idle"
      /\ UNCHANGED <<op, key, session, needed, Stages, Trees, Shapes>>
  BY TemplatesStay DEF CreateSteps, IInv, Acquire, diskVars, procVars
<1>2. Onward(p) \/ Exit(p, "failed")
  BY <1>1, OnwardMoves DEF Acquire
<1> QED
  BY <1>1, <1>2, Silent, Fails

LEMMA MakeRootPromise ==
  ASSUME IInv, OpInv, NEW p \in Procs, MakeRoot(p)
  PROVE  OpInv' /\ Advances
<1>1. /\ "advance" \in (CreateSteps \cap Working) \ (GcSteps \cup Writing)
      /\ pc[p] = "advance" /\ pc' = pc
      /\ UNCHANGED <<op, key, rec, session, home, result, needed>>
      /\ Vacant(key[p], "building") /\ Vacant(key[p], "root")
  BY CreateNames DEF CreateSteps, Writing, MakeRoot, procVars
<1>2. PICK d \in Dirs : /\ content[d] = "unused"
                        /\ at' = [at EXCEPT ![key[p]]["building"] = d]
                        /\ content' = [content EXCEPT ![d] = "empty"]
                        /\ mode' = [mode EXCEPT ![d] = "private"]
  BY DEF MakeRoot
<1>3. /\ TypeOK /\ p \in home /\ key[p] \in Keys /\ rec[key[p]] = cap[p]
      /\ cap[p].st = "Prepared"
  BY <1>1, WorkFacts, Alone DEF PlaceInv
<1>4. Stages[key[p]] = "making" /\ UNCHANGED Stages
  BY <1>1, <1>3, StageFacts, TemplatesStay DEF Stages
<1>5. Vacant(key[p], "tombstone")
  BY <1>3, TreeOf
<1>6. Trees[key[p]] = NoDir
  BY <1>1, <1>3, <1>5 DEF Trees, TreeAt, Vacant
<1>7. TreeAt(key[p])' = d
  <2>1. at'[key[p]]["building"] = d /\ d # NoDir
    BY <1>2, <1>3, NoneAssumption DEF TypeOK, Names
  <2> QED
    BY <1>1, <2>1 DEF TreeAt, Vacant
<1>8. Trees' = [Trees EXCEPT ![key[p]] = d]
  <2>1. \A j \in Keys \ {key[p]} : at'[j] = at[j]
    BY <1>2, <1>3 DEF TypeOK
  <2> QED
    BY <1>1, <1>3, <1>7, <2>1, TreesMove
<1>9. Shapes[d] = "none" /\ Shapes' = [Shapes EXCEPT ![d] = "open"]
  <2>1. /\ \A e \in Dirs \ {d} : content'[e] = content[e] /\ mode'[e] = mode[e]
        /\ content'[d] = "empty"
    BY <1>2, <1>3 DEF TypeOK
  <2>2. Shape(d) = "none" /\ Shape(d)' = "open"
    BY <1>2, <2>1 DEF Shape, Sealed
  <2> QED
    BY <2>1, <2>2, ShapesMove DEF Shapes
<1>10. /\ OpInv' /\ UNCHANGED <<Job, Want, home, result>>
       /\ Job[p] = "create" /\ Want[p] = key[p]
  <2>1. Onward(p)
    BY <1>1 DEF Onward
  <2> QED
    BY <1>1, <1>3, <2>1, CallGoesOn
<1>11. Promise!Root(p, d)
  BY <1>1, <1>3, <1>4, <1>6, <1>8, <1>9, <1>10
  DEF Promise!Root, Promise!Works, Promise!callVars
<1> QED
  BY <1>2, <1>10, <1>11 DEF Advances, Promise!Next

LEMMA AdvancePromise ==
  ASSUME IInv, OpInv, NEW p \in Procs, Advance(p)
  PROVE  OpInv' /\ Advances
<1>1. TypeOK /\ {"advance", "materializing"} \subseteq CreateSteps
  BY DEF IInv, CreateSteps
<1> DEFINE ok == /\ Vacant(key[p], "root") /\ content[at[key[p]]["building"]] = "empty"
                 /\ mode[at[key[p]]["building"]] = "private"
<1>2. CASE Check(p, "advance", ok, "materializing", "failed")
  BY <1>1, <1>2, Checked
<1> QED
  BY <1>2, MakeRootPromise DEF Advance

LEMMA FillPromise ==
  ASSUME IInv, OpInv, NEW p \in Procs, Fill(p) \/ Seal(p)
  PROVE  OpInv' /\ Advances
<1>1. /\ {"fill", "finish", "seal", "publishing"} \subseteq CreateSteps
      /\ {"fill", "finish", "seal"} \subseteq CreateSteps \cap Working
      /\ pc[p] \in {"fill", "finish", "seal"} /\ pc[p] # "idle"
      /\ UNCHANGED <<op, key, rec, at, session, needed, Stages, Trees>>
  BY TemplatesStay, CreateNames DEF CreateSteps, Fill, Seal, procVars
<1>2. TypeOK /\ cap[p].st = "Materializing" /\ key[p] \in Keys /\ rec[key[p]] = cap[p]
      /\ (pc[p] = "seal" => content[cap[p].dir] = "complete")
  BY <1>1, WorkFacts DEF PlaceInv
<1>3. cap[p].dir \in Dirs
  BY <1>2, TreeOf, OwnTree DEF Names
<1>4. CASE Exit(p, "failed") /\ UNCHANGED <<content, mode>>
  BY <1>1, <1>2, <1>4, TemplatesStay, Fails
<1>5. CASE \E to \in {"finish", "seal", "publishing"} : Goto(p, to)
  <2>1. Onward(p)
    BY <1>1, <1>2, <1>5, OnwardMoves
  <2>2. /\ \A e \in Dirs \ {cap[p].dir} : content'[e] = content[e] /\ mode'[e] = mode[e]
        /\ content'[cap[p].dir] # "unused"
    <3>1. CASE Fill(p)
      <4>1. UNCHANGED mode /\ \E c \in {"partial", "complete"} :
              content' = [content EXCEPT ![cap[p].dir] = c]
        <5>1. ~Exit(p, "failed")
          BY <1>2, <1>5 DEF Goto, Exit, TypeOK
        <5> QED
          BY <3>1, <5>1 DEF Fill
      <4> QED
        BY <1>2, <1>3, <4>1 DEF TypeOK
    <3>2. CASE Seal(p)
      BY <1>2, <1>3, <3>2 DEF Seal, TypeOK
    <3> QED
      BY <3>1, <3>2
  <2> QED
    BY <1>1, <1>2, <2>1, <2>2, BuildPromise
<1> QED
  BY <1>4, <1>5 DEF Fill, Seal

LEMMA RenamePromise ==
  ASSUME IInv, OpInv, NEW p \in Procs, RenameReady(p)
  PROVE  OpInv' /\ Advances
<1>1. /\ {"unseal", "rename", "reseal", "ready"} \subseteq CreateSteps
      /\ {"unseal", "rename", "reseal"} \subseteq CreateSteps \cap Working
      /\ pc[p] \in {"unseal", "rename", "reseal"} /\ pc[p] # "idle"
      /\ UNCHANGED <<op, key, rec, content, session, needed, Stages>>
  BY TemplatesStay, CreateNames DEF CreateSteps, RenameReady, procVars
<1>2. /\ TypeOK /\ cap[p].st = "Publishing" /\ key[p] \in Keys /\ rec[key[p]] = cap[p]
      /\ pc[p] = "rename" => Only(key[p], "building", cap[p].dir)
  BY <1>1, WorkFacts DEF PlaceInv
<1>3. cap[p].dir \in Dirs /\ content[cap[p].dir] # "unused"
  BY <1>2, TreeOf, OwnTree DEF Names
<1>4. ASSUME NEW m, mode' = [mode EXCEPT ![cap[p].dir] = m]
      PROVE  /\ \A e \in Dirs \ {cap[p].dir} : content'[e] = content[e] /\ mode'[e] = mode[e]
             /\ content'[cap[p].dir] # "unused"
  BY <1>1, <1>2, <1>3, <1>4 DEF TypeOK
<1>5. ASSUME NEW to \in {"rename", "ready"}, NEW m, mode' = [mode EXCEPT ![cap[p].dir] = m],
             Goto(p, to), UNCHANGED at
      PROVE  OpInv' /\ Advances
  <2>1. Onward(p) /\ UNCHANGED Trees
    BY <1>1, <1>2, <1>5, OnwardMoves, TemplatesStay
  <2> QED
    BY <1>1, <1>2, <1>4, <1>5, <2>1, BuildPromise
<1>6. CASE pc[p] = "rename" /\ at' = MoveName(key[p], "building", "root") /\ Goto(p, "reseal")
             /\ UNCHANGED mode
  <2>1. /\ cap[p].dir # NoDir /\ at[key[p]]["building"] = cap[p].dir
        /\ \A m \in Names \ {"building"} : Vacant(key[p], m)
    BY <1>2, <1>6, OnlyIs DEF Names
  <2>2. TreeAt(key[p]) = cap[p].dir /\ \A j \in Keys \ {key[p]} : at'[j] = at[j]
    BY <1>2, <1>6, TreeIs DEF Names, MoveName, TypeOK
  <2>3. at'[key[p]]["building"] = NoDir /\ at'[key[p]]["root"] = cap[p].dir
    BY <1>2, <1>6, <2>1 DEF MoveName, TypeOK, Names
  <2>4. TreeAt(key[p])' = cap[p].dir
    BY <1>1, <2>1, <2>3 DEF TreeAt, Vacant
  <2>5. UNCHANGED <<Trees, Shapes>>
    BY <1>1, <1>2, <1>6, <2>2, <2>4, TreesMove, TemplatesStay
  <2>6. Onward(p)
    BY <1>1, <1>2, <1>6, OnwardMoves
  <2> QED
    BY <1>1, <1>2, <2>5, <2>6, Silent
<1>7. CASE Exit(p, "failed") /\ mode' = [mode EXCEPT ![cap[p].dir] = "sealed"] /\ UNCHANGED at
  <2>1. OpInv' /\ Promise!Return(p, "failed") /\ Job[p] = "create" /\ Want[p] = key[p]
    BY <1>1, <1>2, <1>7, CallEnds
  <2>2. UNCHANGED Trees
    BY <1>7, TemplatesStay
  <2>3. Promise!Shaped(p)
    BY <1>1, <1>2, <1>4, <1>7, <2>1, <2>2, Shaping
  <2>4. Promise!Failed(p)
    BY <1>1, <2>1, <2>3 DEF Promise!Failed
  <2> QED
    BY <2>1, <2>4 DEF Advances, Promise!Next
<1> QED
  BY <1>5, <1>6, <1>7 DEF RenameReady

LEMMA PublishPromise ==
  ASSUME IInv, OpInv, NEW p \in Procs, PublishTemplate(p)
  PROVE  OpInv' /\ Advances
<1>1. TypeOK /\ {"publish", "reseal", "unseal"} \subseteq CreateSteps
  BY DEF IInv, CreateSteps
<1> DEFINE d == cap[p].dir
           ok == Publishable(d) /\ (Only(key[p], "building", d) \/ Only(key[p], "root", d))
<1>2. PICK to \in {"reseal", "unseal"} : Check(p, "publish", ok, to, "failed")
  BY DEF PublishTemplate
<1> QED
  BY <1>1, <1>2, Checked

LEMMA SharePromise ==
  ASSUME IInv, OpInv, NEW p \in Procs, Share(p)
  PROVE  OpInv' /\ Advances
<1>1. /\ {"share", "session"} \subseteq CreateSteps /\ TypeOK /\ pc[p] = "share" /\ pc[p] # "idle"
      /\ UNCHANGED <<op, key, session, needed, Stages, Trees, Shapes>>
  BY TemplatesStay DEF CreateSteps, IInv, Share, diskVars, procVars
<1>2. CASE pc' = [pc EXCEPT ![p] = "session"] /\ UNCHANGED <<result, home>>
  <2>1. Onward(p)
    BY <1>1, <1>2 DEF Onward, TypeOK
  <2> QED
    BY <1>1, <2>1, Silent
<1>3. CASE Exit(p, "failed")
  BY <1>1, <1>3, Fails
<1> QED
  BY <1>2, <1>3 DEF Share

LEMMA CreateSessionPromise ==
  ASSUME IInv, OpInv, NEW p \in Procs, CreateSession(p)
  PROVE  OpInv' /\ Advances
<1>1. /\ "session" \in CreateSteps \cap Working /\ pc[p] = "session" /\ pc[p] # "idle"
      /\ UNCHANGED <<op, key, needed, Stages, Trees, Shapes>>
  BY TemplatesStay, CreateNames DEF CreateSteps, CreateSession, diskVars, procVars
<1>2. /\ TypeOK /\ p \in home /\ cap[p].st = "Ready" /\ key[p] \in Keys
      /\ rec[key[p]] = cap[p]
  BY <1>1, WorkFacts, Alone DEF PlaceInv
<1>3. ASSUME NEW code, Exit(p, code)
      PROVE  OpInv' /\ Promise!Return(p, code) /\ Job[p] = "create" /\ Want[p] = key[p]
  BY <1>1, <1>2, <1>3, CallEnds
<1>4. Stages[key[p]] = "offered"
  BY <1>2, StageFacts DEF Stages
<1>5. Trees[key[p]] = cap[p].dir /\ cap[p].dir # NoDir /\ Shapes[cap[p].dir] = "sealed"
  BY <1>2, TreeOf, TreeIs, OwnTree DEF Trees, Shapes, Shape, Sealed, Names
<1>6. Promise!Of(key[p]) = [key |-> key[p], dir |-> cap[p].dir]
  BY <1>5 DEF Promise!Of
<1>7. CASE Exit(p, "failed") /\ UNCHANGED session
  BY <1>1, <1>2, <1>7, Fails
<1>8. ASSUME NEW s \in Sessions, session[s] = NoSession, NEW code \in {"ok", "failed"},
             session' = [session EXCEPT ![s] = [key |-> key[p], dir |-> cap[p].dir]],
             Exit(p, code)
      PROVE  OpInv' /\ Advances
  <2>1. OpInv' /\ Promise!Return(p, code) /\ Promise!HasOffered(p) /\ Want[p] = key[p]
    BY <1>2, <1>3, <1>4, <1>5, <1>8 DEF Promise!HasOffered
  <2>2. Promise!NewSession(key[p])
    BY <1>6, <1>8 DEF Promise!NewSession, Promise!NoSession, NoSession
  <2>3. Promise!Created(p) \/ Promise!Failed(p)
    BY <1>1, <1>8, <2>1, <2>2 DEF Promise!Created, Promise!Failed, Promise!templates
  <2> QED
    BY <2>1, <2>3 DEF Advances, Promise!Next
<1>9. ASSUME NEW s \in Sessions, session[s] = [key |-> key[p], dir |-> cap[p].dir],
             Exit(p, "ok"), UNCHANGED session
      PROVE  OpInv' /\ Advances
  <2>1. OpInv' /\ Promise!Return(p, "ok") /\ Promise!HasOffered(p) /\ Want[p] = key[p]
    BY <1>2, <1>3, <1>4, <1>5, <1>9 DEF Promise!HasOffered
  <2>2. Promise!Created(p)
    BY <1>1, <1>6, <1>9, <2>1 DEF Promise!Created, Promise!templates
  <2> QED
    BY <2>1, <2>2 DEF Advances, Promise!Next
<1> QED
  BY <1>7, <1>8, <1>9 DEF CreateSession

LEMMA CreatePromise ==
  ASSUME IInv, OpInv, NEW p \in Procs, CreateStep(p)
  PROVE  OpInv' /\ Advances
BY AcquirePromise, PreparePromise, AdvancePromise, MakingPromise, FillPromise, PublishPromise,
   RenamePromise, ReadyPromise, SharePromise, CreateSessionPromise
   DEF CreateStep

(***************************************************************************)
(* gc                                                                      *)
(***************************************************************************)
LEMMA CensusPromise ==
  ASSUME IInv, OpInv, NEW p \in Procs, Census(p)
  PROVE  OpInv' /\ Advances
<1>1. /\ {"census", "sweep"} \subseteq GcSteps /\ pc[p] = "census" /\ pc[p] # "idle"
      /\ UNCHANGED <<op, key, session, Stages, Trees, Shapes>>
  BY TemplatesStay DEF GcSteps, Census, diskVars
<1>2. TypeOK /\ p \in home
  BY <1>1, SeekingFacts, Alone
<1>3. CASE Exit(p, "failed") /\ UNCHANGED needed
  BY <1>1, <1>2, <1>3, Fails
<1>4. CASE /\ Explained /\ Goto(p, "sweep")
           /\ needed' = [needed EXCEPT ![p] = {k \in Keys : Reachable(k)}]
  <2>1. OpInv' /\ UNCHANGED <<Job, Want, home, result>> /\ Job[p] = "gc"
    <3>1. Onward(p)
      BY <1>1, <1>2, <1>4, OnwardMoves
    <3> QED
      BY <1>1, <1>2, <3>1, CallGoesOn
  <2>2. Promise!NoneHalfMade
    <3>1. \A k \in Keys : rec[k].st \in {"Absent", "Ready", "Tombstoned"}
      BY <1>4, PayloadFacts DEF Explained, Accounted
    <3> QED
      BY <3>1, StageFacts DEF Promise!NoneHalfMade, Stages
  <2>3. Promise!Look(p)
    BY <1>1, <1>2, <1>4, <2>1, <2>2
    DEF Promise!Look, Promise!Needs, Promise!templates, Reachable
  <2> QED
    BY <2>1, <2>3 DEF Advances, Promise!Next
<1> QED
  BY <1>3, <1>4 DEF Census

LEMMA SweepPromise ==
  ASSUME IInv, OpInv, NEW p \in Procs, Sweep(p)
  PROVE  OpInv' /\ Advances
<1>1. /\ {"sweep", "next"} \subseteq GcSteps /\ TypeOK /\ pc[p] = "sweep"
      /\ UNCHANGED <<op, key, session, needed, Stages, Trees, Shapes>>
  BY TemplatesStay DEF GcSteps, IInv, Sweep, diskVars, procVars
<1>2. Onward(p)
  BY <1>1, OnwardMoves DEF Sweep
<1> QED
  BY <1>1, <1>2, Silent

LEMMA NextTemplatePromise ==
  ASSUME IInv, OpInv, NEW p \in Procs, NextTemplate(p)
  PROVE  OpInv' /\ Advances
<1>1. /\ {"next", "lease", "inspect"} \subseteq GcSteps /\ pc[p] = "next" /\ pc[p] # "idle"
      /\ UNCHANGED <<op, session, needed, Stages, Trees, Shapes>>
      /\ pc[p] \in GcSteps \ {"census"} /\ pc[p] \notin Working
  BY TemplatesStay DEF GcSteps, NextTemplate, diskVars, Working, Seeking
<1>2. TypeOK /\ p \in home /\ GcInv(p)
  BY <1>1, SeekingFacts, Alone DEF ProcInv
<1>3. CASE todo[p] = {} /\ Exit(p, "ok") /\ UNCHANGED key
  <2>1. OpInv' /\ Promise!Return(p, "ok") /\ Job[p] = "gc"
    BY <1>1, <1>2, <1>3, CallEnds
  <2>2. \A k \in Keys : Settled(p, k)
    BY <1>1, <1>2, <1>3 DEF GcInv
  <2>3. \A k \in Keys : Stages[k] = "none" \/ (Stages[k] = "offered" /\ k \in needed[p])
    BY <2>2, StageFacts, PayloadFacts DEF Settled, Stages
  <2>4. Promise!Collected(p)
    BY <1>1, <1>2, <2>1, <2>3 DEF Promise!Collected, Promise!templates
  <2> QED
    BY <2>1, <2>4 DEF Advances, Promise!Next
<1>4. CASE \E k \in todo[p] : /\ key' = [key EXCEPT ![p] = k]
                              /\ Goto(p, IF rec[k].st = "Ready" THEN "lease" ELSE "inspect")
  <2>1. Onward(p)
    BY <1>1, <1>2, <1>4 DEF Onward, Goto, TypeOK
  <2> QED
    BY <1>1, <1>2, <2>1, Silent
<1> QED
  BY <1>3, <1>4 DEF NextTemplate

LEMMA LeasePromise ==
  ASSUME IInv, OpInv, NEW p \in Procs, NEW from \in GcSteps, NEW d, NEW ok \in BOOLEAN,
         NEW to \in GcSteps, Lease(p, from, d, ok, to)
  PROVE  OpInv' /\ Advances
<1>1. /\ TypeOK /\ pc[p] = from /\ pc[p] # "idle" /\ "next" \in GcSteps
      /\ UNCHANGED <<op, key, session, needed, Stages, Trees, Shapes>>
  BY TemplatesStay, StepNames DEF IInv, Lease, diskVars, procVars, GcSteps
<1>2. CASE Exit(p, "failed")
  BY <1>1, <1>2, Fails
<1>3. CASE Goto(p, "next") \/ (pc' = [pc EXCEPT ![p] = to] /\ UNCHANGED <<result, home>>)
  <2>1. Onward(p)
    BY <1>1, <1>3 DEF Onward, Goto, TypeOK
  <2> QED
    BY <1>1, <2>1, Silent
<1> QED
  BY <1>2, <1>3 DEF Lease

LEMMA ReachPromise ==
  ASSUME IInv, OpInv, NEW p \in Procs, NEW from \in GcSteps, pc[p] = from, NEW to \in GcSteps,
         Reach(p, from, to) \/ Release(p, to)
  PROVE  OpInv' /\ Advances
<1>1. /\ TypeOK /\ "next" \in GcSteps
      /\ UNCHANGED <<op, key, session, needed, Stages, Trees, Shapes>>
  BY TemplatesStay DEF IInv, Reach, Release, diskVars, procVars, GcSteps
<1>2. Onward(p)
  BY <1>1, OnwardMoves DEF Reach, Release
<1> QED
  BY <1>1, <1>2, Silent

LEMMA InspectPromise ==
  ASSUME IInv, OpInv, NEW p \in Procs, NEW from \in GcSteps, NEW leased \in GcSteps,
         NEW gone \in GcSteps, Inspect(p, from, leased, gone)
  PROVE  OpInv' /\ Advances
<1>1. TypeOK
  BY DEF IInv
<1>2. PICK ok \in BOOLEAN, to \in {leased, gone} : Check(p, from, ok, to, "failed")
  BY DEF Inspect
<1> QED
  BY <1>1, <1>2, Checked

LEMMA RetirePromise ==
  ASSUME IInv, OpInv, NEW p \in Procs, RetireReady(p) \/ InspectTombstone(p)
  PROVE  OpInv' /\ Advances
<1>1. CASE \/ \E ok \in BOOLEAN : Lease(p, "lease", cap[p].dir, ok, "reach")
           \/ \E ok \in BOOLEAN : Lease(p, "tomb_lease", cap[p].dir, ok, "tomb_reach")
           \/ \E ok \in BOOLEAN : Lease(p, "retired_lease", cap[p].dir, ok, "untomb")
  BY <1>1, LeasePromise DEF GcSteps
<1>2. CASE \/ Reach(p, "reach", "tombstone") \/ Reach(p, "tomb_reach", "untomb")
           \/ Reach(p, "gone_reach", "drop")
  <2>1. PICK from \in GcSteps, to \in GcSteps : pc[p] = from /\ Reach(p, from, to)
    BY <1>2 DEF Reach, GcSteps
  <2> QED
    BY <2>1, ReachPromise
<1>3. CASE pc[p] = "retire" /\ Release(p, "inspect_retired")
  BY <1>3, ReachPromise DEF GcSteps
<1>4. CASE \/ Inspect(p, "inspect", "tomb_lease", "gone_reach")
           \/ Inspect(p, "inspect_retired", "retired_lease", "drop")
  BY <1>4, InspectPromise DEF GcSteps
<1>5. CASE WriteRecord(p, "tombstone", Payload("Tombstoned", NoProc, cap[p].dir), "retire")
  BY <1>5, TombstonePromise
<1>6. CASE RetireReady(p)
  <2>1. CASE Lease(p, "lease", cap[p].dir,
                   at[key[p]]["root"] = cap[p].dir /\ Sealed(cap[p].dir), "reach")
    BY <1>1, <2>1
  <2> QED
    BY <1>2, <1>3, <1>5, <1>6, <2>1 DEF RetireReady
<1>7. CASE InspectTombstone(p)
  <2>1. Condemned(cap[p].dir) \in BOOLEAN
    BY DEF Condemned
  <2> QED
    BY <1>1, <1>2, <1>4, <1>7, <2>1 DEF InspectTombstone
<1> QED
  BY <1>6, <1>7

\* gc opens the tree of a tombstone.
LEMMA ClearPromise ==
  ASSUME IInv, OpInv, NEW p \in Procs, pc[p] \in Retiring, Onward(p),
         UNCHANGED <<rec, at, session, needed>>, NEW n \in Names, Only(key[p], n, cap[p].dir),
         \A e \in Dirs \ {cap[p].dir} : content'[e] = content[e] /\ mode'[e] = mode[e],
         content'[cap[p].dir] # "unused", mode'[cap[p].dir] = "private"
  PROVE  OpInv' /\ Advances
<1>1. /\ TypeOK /\ key[p] \in Keys /\ rec[key[p]] = cap[p] /\ cap[p].st = "Tombstoned"
      /\ pc[p] \in GcSteps \ {"census"}
  BY RetiringFacts DEF Retiring, GcSteps
<1>2. OpInv' /\ Promise!Works(p, "gc") /\ Promise!NoneHalfMade
  BY <1>1, Collecting
<1>3. PICK d \in Dirs : d = cap[p].dir /\ d # NoDir /\ Trees[key[p]] = d
  BY <1>1, TreeIs, OwnTree DEF Trees
<1>4. Stages[key[p]] = "going" /\ UNCHANGED <<Stages, Trees>>
  BY <1>1, StageFacts, TemplatesStay DEF Stages
<1>5. Shapes' = [Shapes EXCEPT ![d] = "open"]
  <2>1. Shape(d)' = "open"
    BY <1>3 DEF Shape, Sealed
  <2> QED
    BY <1>3, <2>1, ShapesMove
<1>6. Promise!Clear(p, key[p])
  BY <1>2, <1>3, <1>4, <1>5 DEF Promise!Clear
<1> QED
  BY <1>1, <1>2, <1>6 DEF Advances, Promise!Next

LEMMA PromotePromise ==
  ASSUME IInv, OpInv, NEW p \in Procs, Promote(p)
  PROVE  OpInv' /\ Advances
<1>1. /\ {"untomb", "promote", "recheck"} \subseteq GcSteps
      /\ pc[p] \in {"untomb", "promote"} /\ pc[p] \in Retiring
      /\ UNCHANGED <<op, key, rec, content, session, needed, Stages>>
  BY TemplatesStay DEF GcSteps, Retiring, Promote, procVars
<1>2. /\ TypeOK /\ key[p] \in Keys /\ cap[p].dir \in Dirs
      /\ Only(key[p], "root", cap[p].dir) \/ Only(key[p], "tombstone", cap[p].dir)
      /\ content[cap[p].dir] # "unused"
  BY <1>1, RetiringFacts, CondemnedTree DEF Names
<1>3. PICK n \in Names : Only(key[p], n, cap[p].dir)
  BY <1>2 DEF Names
<1>4. Onward(p)
  BY <1>1, <1>2, OnwardMoves DEF Promote
<1>5. CASE /\ mode' = [mode EXCEPT ![cap[p].dir] = IF Unseals THEN "private" ELSE @]
           /\ UNCHANGED at
  <2>1. CASE Unseals
    <3>1. /\ \A e \in Dirs \ {cap[p].dir} : content'[e] = content[e] /\ mode'[e] = mode[e]
          /\ content'[cap[p].dir] # "unused" /\ mode'[cap[p].dir] = "private"
      BY <1>1, <1>2, <1>5, <2>1 DEF TypeOK
    <3> QED
      BY <1>1, <1>3, <1>4, <1>5, <3>1, ClearPromise
  <2>2. CASE ~Unseals
    <3>1. UNCHANGED mode
      BY <1>2, <1>5, <2>2 DEF TypeOK
    <3> QED
      BY <1>1, <1>2, <1>4, <1>5, <3>1, TemplatesStay, Silent
  <2> QED
    BY <2>1, <2>2
<1>6. CASE /\ UNCHANGED mode
           /\ at' = IF Vacant(key[p], "tombstone")
                      THEN MoveName(key[p], "root", "tombstone") ELSE at
  <2>1. CASE ~Vacant(key[p], "tombstone")
    BY <1>1, <1>2, <1>4, <1>6, <2>1, TemplatesStay, Silent
  <2>2. CASE Vacant(key[p], "tombstone")
    <3>1. /\ cap[p].dir # NoDir /\ at[key[p]]["root"] = cap[p].dir
          /\ \A m \in Names \ {"root"} : Vacant(key[p], m)
      BY <1>2, <2>2, OnlyIs DEF Names, Vacant
    <3>2. TreeAt(key[p]) = cap[p].dir /\ \A j \in Keys \ {key[p]} : at'[j] = at[j]
      BY <1>2, <1>3, <1>6, <2>2, TreeIs DEF MoveName, TypeOK
    <3>3. /\ at'[key[p]]["root"] = NoDir /\ at'[key[p]]["tombstone"] = cap[p].dir
          /\ at'[key[p]]["building"] = NoDir
      BY <1>2, <1>6, <2>2, <3>1 DEF MoveName, TypeOK, Names, Vacant
    <3>4. TreeAt(key[p])' = cap[p].dir
      BY <1>1, <3>3 DEF TreeAt, Vacant
    <3>5. UNCHANGED <<Trees, Shapes>>
      BY <1>1, <1>2, <1>6, <3>2, <3>4, TreesMove, TemplatesStay
    <3> QED
      BY <1>1, <1>2, <1>4, <3>5, Silent
  <2> QED
    BY <2>1, <2>2
<1> QED
  BY <1>5, <1>6 DEF Promote

LEMMA RemoveTreePromise ==
  ASSUME IInv, OpInv, NEW p \in Procs, RemoveTree(p)
  PROVE  OpInv' /\ Advances
<1>1. /\ {"clear", "cleared", "drop"} \subseteq GcSteps \ {"census"}
      /\ pc[p] \in {"clear", "cleared"} /\ pc[p] \in Retiring
      /\ UNCHANGED <<op, key, rec, session, needed, Stages>>
  BY TemplatesStay DEF GcSteps, Retiring, RemoveTree, procVars
<1>2. /\ TypeOK /\ key[p] \in Keys /\ rec[key[p]] = cap[p] /\ cap[p].st = "Tombstoned"
      /\ Only(key[p], "tombstone", cap[p].dir)
  BY <1>1, RetiringFacts, CondemnedTree
<1>3. PICK d \in Dirs : d = cap[p].dir /\ d # NoDir /\ Trees[key[p]] = d
  BY <1>2, TreeIs, OwnTree DEF Trees, Names
<1>4. Onward(p)
  BY <1>1, <1>2, OnwardMoves DEF RemoveTree
<1>5. CASE /\ mode' = [mode EXCEPT ![d] = "private"]
           /\ content' = [content EXCEPT ![d] = "clearing"]
           /\ UNCHANGED at
  <2>1. /\ \A e \in Dirs \ {d} : content'[e] = content[e] /\ mode'[e] = mode[e]
        /\ content'[d] # "unused" /\ mode'[d] = "private"
    BY <1>2, <1>5 DEF TypeOK
  <2> QED
    BY <1>1, <1>2, <1>3, <1>4, <1>5, <2>1, ClearPromise DEF Names
<1>6. CASE /\ at' = [at EXCEPT ![key[p]]["tombstone"] = NoDir]
           /\ content' = [content EXCEPT ![d] = "unused"]
           /\ UNCHANGED mode
  <2>1. OpInv' /\ Promise!Works(p, "gc") /\ Promise!NoneHalfMade
    BY <1>1, <1>4, Collecting
  <2>2. Stages[key[p]] = "going"
    BY <1>2, StageFacts DEF Stages
  <2>3. Shapes' = [Shapes EXCEPT ![d] = "none"]
    <3>1. /\ \A e \in Dirs \ {d} : content'[e] = content[e] /\ mode'[e] = mode[e]
          /\ Shape(d)' = "none"
      BY <1>2, <1>6 DEF TypeOK, Shape
    <3> QED
      BY <3>1, ShapesMove
  <2>4. Trees' = [Trees EXCEPT ![key[p]] = NoDir]
    <3>1. \A m \in Names : at'[key[p]][m] = NoDir
      BY <1>2, <1>6, OnlyIs DEF TypeOK, Names, Vacant
    <3>2. TreeAt(key[p])' = NoDir
      BY <1>1, <3>1 DEF TreeAt, Vacant, Names
    <3>3. \A j \in Keys \ {key[p]} : at'[j] = at[j]
      BY <1>2, <1>6 DEF TypeOK
    <3> QED
      BY <1>1, <1>2, <3>2, <3>3, TreesMove
  <2>5. Promise!Clear(p, key[p])
    BY <1>1, <1>3, <2>1, <2>2, <2>3, <2>4 DEF Promise!Clear
  <2> QED
    BY <1>2, <2>1, <2>5 DEF Advances, Promise!Next
<1> QED
  BY <1>3, <1>5, <1>6 DEF RemoveTree

LEMMA DropRecordPromise ==
  ASSUME IInv, OpInv, NEW p \in Procs, DropRecord(p)
  PROVE  OpInv' /\ Advances
<1>1. /\ {"drop", "next"} \subseteq GcSteps \ {"census"} /\ pc[p] = "drop" /\ pc[p] \in Retiring
      /\ UNCHANGED <<op, key, session, needed, Trees, Shapes>>
  BY TemplatesStay DEF GcSteps, Retiring, DropRecord, diskVars, procVars
<1>2. /\ TypeOK /\ key[p] \in Keys /\ rec[key[p]] = cap[p] /\ cap[p].st = "Tombstoned"
      /\ Gone(key[p])
  BY <1>1, RetiringFacts DEF PlaceInv
<1>3. rec' = [rec EXCEPT ![key[p]] = Absent] /\ Unlease(p, "next")
  BY <1>2 DEF DropRecord
<1>4. OpInv' /\ Promise!Works(p, "gc") /\ Promise!NoneHalfMade
  <2>1. Onward(p)
    BY <1>1, <1>2, <1>3, OnwardMoves
  <2> QED
    BY <1>1, <2>1, Collecting
<1>5. Stages[key[p]] = "going" /\ Stages' = [Stages EXCEPT ![key[p]] = "none"]
  <2>1. /\ Stages[key[p]] = StageOf(rec[key[p]].st)
        /\ Stages' = [Stages EXCEPT ![key[p]] = StageOf(Absent.st)]
    BY <1>2, <1>3, StagesMove
  <2> QED
    BY <1>2, <2>1, StageFacts, PayloadFacts
<1>6. Trees[key[p]] = NoDir
  BY <1>2, TreeIs DEF Trees
<1>7. Promise!Reclaim(p, key[p])
  BY <1>1, <1>4, <1>5, <1>6 DEF Promise!Reclaim, Promise!Becomes
<1> QED
  BY <1>2, <1>4, <1>7 DEF Advances, Promise!Next

LEMMA GcPromise ==
  ASSUME IInv, OpInv, NEW p \in Procs, GcStep(p)
  PROVE  OpInv' /\ Advances
<1>1. CASE Check(p, "recheck", rec[key[p]] = cap[p] /\ Condemned(cap[p].dir), "clear", "failed")
  <2>1. TypeOK /\ {"recheck", "clear"} \subseteq GcSteps
    BY DEF IInv, GcSteps
  <2> QED
    BY <1>1, <2>1, Checked
<1> QED
  BY <1>1, CensusPromise, SweepPromise, NextTemplatePromise, RetirePromise, PromotePromise,
     RemoveTreePromise, DropRecordPromise
  DEF GcStep, CompleteTombstone

(***************************************************************************)
(* Calls that begin, processes that die, sessions that go.                 *)
(***************************************************************************)
LEMMA StartPromise ==
  ASSUME IInv, OpInv, NEW p \in Procs, NEW o \in {"create", "gc"}, Start(p, o)
  PROVE  OpInv' /\ Advances
<1>1. /\ TypeOK /\ pc[p] = "idle" /\ UNCHANGED <<Stages, Trees, Shapes, session, home>>
      /\ pc' = [pc EXCEPT ![p] = "home"] /\ op' = [op EXCEPT ![p] = o]
      /\ result' = [result EXCEPT ![p] = "none"] /\ needed' = [needed EXCEPT ![p] = {}]
  BY TemplatesStay DEF IInv, Start, diskVars
<1>2. PICK k \in Keys : key' = [key EXCEPT ![p] = IF o = "create" THEN k ELSE NoKey]
  BY DEF Start
<1>3. OpInv'
  BY <1>1, StepNames DEF OpInv, TypeOK
<1>4. Job[p] = "none" /\ Job' = [Job EXCEPT ![p] = o]
  BY <1>1 DEF Job, TypeOK
<1>5. Want' = [Want EXCEPT ![p] = IF o = "create" THEN k ELSE NoKey]
  BY <1>1, <1>2, <1>4 DEF Want, Job, TypeOK
<1>6. Promise!Call(p, o, k)
  BY <1>1, <1>4, <1>5 DEF Promise!Call, Promise!templates
<1> QED
  BY <1>3, <1>6 DEF Advances, Promise!Next

LEMMA LockHomePromise ==
  ASSUME IInv, OpInv, NEW p \in Procs, LockHome(p)
  PROVE  OpInv' /\ Advances
<1>1. /\ TypeOK /\ pc[p] = "home" /\ home = {} /\ home' = {p}
      /\ UNCHANGED <<op, key, session, result, needed, Stages, Trees, Shapes>>
      /\ pc' = [pc EXCEPT ![p] = IF op[p] = "gc" THEN "census" ELSE "acquire"]
  BY TemplatesStay DEF IInv, LockHome, diskVars, procVars
<1>2. pc'[p] = (IF op[p] = "gc" THEN "census" ELSE "acquire")
      /\ \A q \in Procs \ {p} : pc'[q] = pc[q]
  BY <1>1 DEF TypeOK
<1>3. OpInv'
  <2>1. op[p] \in {"create", "gc"}
    BY <1>1 DEF TypeOK
  <2>2. "census" \notin CreateSteps /\ "acquire" \notin GcSteps
    BY DEF CreateSteps, GcSteps
  <2> QED
    BY <1>1, <1>2, <2>1, <2>2 DEF OpInv
<1>4. Job[p] # "none" /\ Job' = Job
  BY <1>1, <1>2 DEF Job, TypeOK
<1>5. Want' = Want
  BY <1>1, <1>4 DEF Want
<1>6. Promise!Enter(p)
  BY <1>1, <1>4, <1>5 DEF Promise!Enter, Promise!templates
<1> QED
  BY <1>3, <1>6 DEF Advances, Promise!Next

LEMMA NextPromise == IInv /\ OpInv /\ [Next]_vars => OpInv' /\ Advances
<1> SUFFICES ASSUME IInv, OpInv, [Next]_vars PROVE OpInv' /\ Advances
  OBVIOUS
<1>1. ASSUME NEW p \in Procs, Start(p, "create") \/ Start(p, "gc") PROVE OpInv' /\ Advances
  BY <1>1, StartPromise
<1>2. ASSUME NEW p \in Procs, Step(p) PROVE OpInv' /\ Advances
  BY <1>2, CreatePromise, GcPromise DEF Step
<1>3. ASSUME NEW p \in Procs, Crash(p) PROVE OpInv' /\ Advances
  <2>1. TypeOK /\ UNCHANGED <<op, key, session, needed, Stages, Trees, Shapes>>
    BY <1>3, TemplatesStay DEF IInv, Crash, diskVars, procVars
  <2> QED
    BY <1>3, <2>1, Fails DEF Crash
<1>4. ASSUME NEW s \in Sessions, RemoveSession(s) PROVE OpInv' /\ Advances
  <2>1. /\ UNCHANGED <<Stages, Trees, Shapes, Job, Want, home, result, needed>>
        /\ UNCHANGED <<pc, op>> /\ session' = [session EXCEPT ![s] = Promise!NoSession]
    BY <1>4, TemplatesStay
    DEF RemoveSession, diskVars, procVars, Job, Want, NoSession, Promise!NoSession
  <2>2. Promise!Forget(s)
    BY <2>1 DEF Promise!Forget, Promise!templates, Promise!callVars
  <2> QED
    BY <2>1, <2>2 DEF OpInv, Advances, Promise!Next
<1>5. CASE UNCHANGED vars
  <2>1. UNCHANGED <<Stages, Trees, Shapes, Job, Want, home, result, needed, session, pc, op>>
    BY <1>5, TemplatesStay DEF vars, Job, Want
  <2> QED
    BY <2>1 DEF OpInv, Advances, Promise!vars
<1> QED
  BY <1>1, <1>2, <1>3, <1>4, <1>5, LockHomePromise DEF Next

LEMMA InitPromise == Init => OpInv /\ Promise!Init
<1> SUFFICES ASSUME Init PROVE OpInv /\ Promise!Init
  OBVIOUS
<1>1. OpInv
  BY StepNames DEF Init, OpInv
<1>2. Stages = [k \in Keys |-> "none"] /\ Trees = [k \in Keys |-> NoDir]
  BY StageFacts, PayloadFacts DEF Init, Stages, Trees, TreeAt, Vacant, Names
<1>3. /\ Shapes = [d \in Dirs |-> "none"] /\ Job = [p \in Procs |-> "none"]
      /\ Want = [p \in Procs |-> NoKey]
  BY DEF Init, Shapes, Shape, Job, Want
<1> QED
  BY <1>1, <1>2, <1>3 DEF Init, Promise!Init, NoSession, Promise!NoSession

\* TemplateLifecycle implements TemplatePromise: wherever creates and gcs are killed,
\* templates are made, offered, given up and reclaimed by one command at a time and in
\* this order; the tree of an offered template is not touched; a create that reports
\* success had its template offered, and a gc that does leaves the templates that
\* sessions needed when it looked, and no other (acquire, gc, the lock on HOME).
THEOREM Refinement == Spec => Promised
<1>1. IInv /\ OpInv /\ [Next]_vars => OpInv' /\ [Promise!Next]_(Promise!vars)
  BY NextPromise DEF Advances
<1>2. Init => OpInv /\ Promise!Init
  BY InitPromise
<1> QED
  BY <1>1, <1>2, Invariance, PTL DEF Spec, Promised, Promise!Spec
=============================================================================
