--------------------------- MODULE StateRootProofs ---------------------------
(***************************************************************************)
(* Theorems about StateRoot, for any number of calls, paths, repositories, *)
(* moves and faults.                                                       *)
(***************************************************************************)
EXTENDS StateRoot, TLAPS

(***************************************************************************)
(* The inductive invariant.                                                *)
(***************************************************************************)
\* What is done under the lock on HOME, and what when the root is open.
Inside == {"arm", "probe", "scan", "stage", "final", "link", "sync", "reread", "commit", "abort",
           "withdraw", "undo", "present", "containers"}
Locked == Inside \cup {"open"}

LockInv == \A p \in Procs : pc[p] \in Locked => home = p

\* A root has the name of the process that made it.
RootInv ==
  /\ \A d \in disk : /\ d.root = None => d = NoRoot
                     /\ d.root # None => opened[d.root] = d.root
  /\ \A p \in Procs :
       /\ opened[p] # None => opened[opened[p]] = opened[p]
       /\ pc[p] \notin Inside \cup {"done"} => opened[p] = None
       /\ pc[p] \in Inside => opened[p] # None /\ fs.root = opened[p]
       /\ pc[p] # "new" => node[p] # None
       /\ result[p] = "ok" => pc[p] = "done" /\ opened[p] # None

\* The registry as init has opened it.
Base(p) == IF Created(p) THEN [NoRoot EXCEPT !.root = p] ELSE found[p]

\* What the process inside knows.
Unrecorded(p) == fs.records[path[p]] = None /\ ~Foreign(p)
Holder(p) ==
  /\ pc[p] = "open" => fs = found[p]
  /\ pc[p] \in Inside /\ Created(p) => found[p] = NoRoot
  /\ pc[p] \in {"arm", "probe", "scan", "stage"} => fs = Base(p)
  /\ pc[p] \in {"stage", "final", "link", "abort", "withdraw"} => Base(p).tmp = {} /\ Unrecorded(p)
  /\ pc[p] \in {"final", "link", "abort", "withdraw"} => fs = [Base(p) EXCEPT !.tmp = {p}]
  /\ pc[p] \in {"abort", "withdraw"} => result[p] \in {"error", "drift"}
  /\ pc[p] \in {"sync", "reread", "commit"} => fs.records[path[p]] = node[p]
  /\ pc[p] \in {"reread", "commit"} =>
       \A d \in disk : d.root = fs.root => d.records[path[p]] = node[p]
  /\ pc[p] \in {"present", "containers"} => call[p] = "create"
  /\ pc[p] = "undo" => /\ result[p] \in Refusals \cup {"cleanup_failed", "doubt"}
                       /\ \/ fs = Base(p) \/ result[p] = "cleanup_failed"
                          \/ result[p] = "error" /\ fs.records[path[p]] = node[p]

Unique(d) == \A a, b \in Paths : a # b /\ d.records[a] # None => d.records[a] # d.records[b]

Ack(p) ==
  call[p] = "init" /\ result[p] = "ok" =>
    \A d \in disk : /\ d.root = opened[p] => d.records[path[p]] = node[p]
                    /\ Created(p) => d.root = p

IInv ==
  /\ TypeOK /\ LockInv /\ RootInv
  /\ \A p \in Procs : Holder(p) /\ Ack(p)
  /\ \A d \in disk : Unique(d)

(***************************************************************************)
(* Lemmas about steps.                                                     *)
(***************************************************************************)
\* The lock excludes everybody else.
LEMMA Excluded ==
  ASSUME IInv, NEW p \in Procs, NEW q \in Procs, q # p, pc[p] \in Locked
  PROVE  pc[q] \notin Locked
BY DEF IInv, LockInv

LEMMA NoRootType == NoRoot \in Roots /\ Unique(NoRoot)
BY DEF NoRoot, Roots, Unique

\* A root that differs from fs by a record more at most.
Grown(d) ==
  /\ d.root = fs.root /\ Unique(d)
  /\ \A a \in Paths : fs.records[a] # None => d.records[a] = fs.records[a]

\* A step of the process inside, which leaves the root that it has opened.
LEMMA InsideStep ==
  ASSUME IInv, NEW p \in Procs, pc[p] \in Inside, NEW to \in Inside \cup {"done"},
         NEW code \in Results, pc' = [pc EXCEPT ![p] = to], result' = [result EXCEPT ![p] = code],
         home' = home \/ (to = "done" /\ home' = None), Quiet, faults' \in 0..MaxFaults,
         fs' \in Roots, fs' \in disk',
         \A d \in disk' : d \in disk \/ (d \in Roots /\ Grown(d)) \/ (d = NoRoot /\ Created(p)),
         to # "done" => fs'.root = fs.root, code = "ok" => to = "done",
         Holder(p)', Ack(p)'
  PROVE  IInv'
<1> USE DEF Quiet, Same, callVars
<1>1. /\ pc'[p] = to /\ result'[p] = code
      /\ \A q \in Procs \ {p} : pc'[q] = pc[q] /\ result'[q] = result[q]
  BY DEF IInv, TypeOK
<1>2. home = p /\ \A q \in Procs \ {p} : pc[q] \notin Locked
  BY Excluded DEF IInv, LockInv, Locked
<1>3. fs \in disk /\ opened[p] # None /\ fs.root = opened[p]
  BY DEF IInv, TypeOK, RootInv
<1>4. TypeOK'
  <2>1. home' \in Procs \cup {None} /\ to \in Locations
    BY DEF IInv, TypeOK, Locked, Inside, Locations, Running
  <2>2. disk' \subseteq Roots
    BY NoRootType DEF IInv, TypeOK
  <2> QED
    BY <2>1, <2>2 DEF IInv, TypeOK
<1>5. LockInv'
  BY <1>1, <1>2 DEF LockInv, Locked, Inside
<1>6. RootInv'
  <2>1. \A d \in disk' : /\ d.root = None => d = NoRoot
                         /\ d.root # None => opened[d.root] = d.root
    BY <1>3 DEF IInv, RootInv, Grown, NoRoot
  <2>2. \A q \in Procs :
          /\ opened[q] # None => opened[opened[q]] = opened[q]
          /\ pc'[q] \notin Inside \cup {"done"} => opened[q] = None
          /\ pc'[q] \in Inside => opened[q] # None /\ fs'.root = opened[q]
          /\ pc'[q] # "new" => node[q] # None
          /\ result'[q] = "ok" => pc'[q] = "done" /\ opened[q] # None
    BY <1>1, <1>2, <1>3 DEF IInv, RootInv, Locked, Inside
  <2> QED
    BY <2>1, <2>2 DEF RootInv
<1>7. \A q \in Procs \ {p} : Holder(q)'
  BY <1>1, <1>2 DEF Holder, Locked, Inside
<1>8. ASSUME NEW q \in Procs \ {p} PROVE Ack(q)'
  <2> SUFFICES ASSUME call[q] = "init", result[q] = "ok", NEW d \in disk'
               PROVE  /\ d.root = opened[q] => d.records[path[q]] = node[q]
                      /\ Created(q) => d.root = q
    BY <1>1 DEF Ack, Created
  <2>1. node[q] # None /\ path[q] \in Paths
    BY DEF IInv, RootInv, TypeOK
  <2>2. /\ fs.root = opened[q] => fs.records[path[q]] = node[q]
        /\ Created(q) => fs.root = q
    BY <1>3 DEF IInv, Ack
  <2>3. CASE d = NoRoot /\ Created(p)
    BY <1>3, <2>2, <2>3 DEF IInv, RootInv, NoRoot, Created
  <2> QED
    BY <2>1, <2>2, <2>3 DEF IInv, Ack, Grown
<1>9. \A d \in disk' : Unique(d)
  BY NoRootType DEF IInv, Grown
<1> QED
  BY <1>4, <1>5, <1>6, <1>7, <1>8, <1>9 DEF IInv

\* A call that has failed is out of the invariant.
LEMMA FailedOut ==
  ASSUME NEW p \in Procs, pc'[p] = "done", result'[p] # "ok"
  PROVE  Holder(p)' /\ Ack(p)'
BY DEF Holder, Ack, Inside

\* Where a step leads p.
LEMMA Leads ==
  ASSUME IInv, NEW p \in Procs
  PROVE  /\ \A to : Goto(p, to) => /\ pc' = [pc EXCEPT ![p] = to] /\ pc'[p] = to
                                   /\ result' = [result EXCEPT ![p] = result[p]]
                                   /\ result'[p] = result[p] /\ home' = home
         /\ \A to, code : Back(p, to, code) => /\ pc' = [pc EXCEPT ![p] = to] /\ pc'[p] = to
                                               /\ result' = [result EXCEPT ![p] = code]
                                               /\ result'[p] = code /\ home' = home
         /\ \A code : Finish(p, code) => /\ pc' = [pc EXCEPT ![p] = "done"] /\ pc'[p] = "done"
                                         /\ result' = [result EXCEPT ![p] = code]
                                         /\ result'[p] = code /\ home' \in {home, None}
BY DEF Goto, Back, Finish, Release, IInv, TypeOK

LEMMA FaultType == ASSUME TypeOK PROVE /\ Fault => faults' \in 0..MaxFaults
                                       /\ UNCHANGED faults => faults' \in 0..MaxFaults
BY BoundAssumption DEF Fault, TypeOK

\* A failure inside that leaves the registry as it is.
LEMMA QuietFailure ==
  ASSUME IInv, NEW p \in Procs, pc[p] \in Inside, NEW code \in Results \ {"ok"},
         Finish(p, code), SameFs, Quiet, faults' \in 0..MaxFaults
  PROVE  IInv'
<1>1. /\ pc' = [pc EXCEPT ![p] = "done"] /\ pc'[p] = "done" /\ home' \in {home, None}
      /\ result' = [result EXCEPT ![p] = code] /\ result'[p] = code
  BY Leads
<1>2. Holder(p)' /\ Ack(p)'
  BY <1>1, FailedOut
<1>3. fs' \in Roots /\ fs' \in disk' /\ disk' = disk
  BY DEF SameFs, IInv, TypeOK
<1> QED
  BY <1>1, <1>2, <1>3, InsideStep

\* A step inside that leaves the registry as it is.
LEMMA QuietMove ==
  ASSUME IInv, NEW p \in Procs, pc[p] \in Inside, NEW to \in Inside, NEW code \in Results \ {"ok"},
         pc' = [pc EXCEPT ![p] = to], result' = [result EXCEPT ![p] = code], home' = home,
         SameFs, Quiet, faults' \in 0..MaxFaults,
         pc'[p] = to /\ result'[p] = code => Holder(p)'
  PROVE  IInv'
<1>1. pc'[p] = to /\ result'[p] = code
  BY DEF IInv, TypeOK
<1>2. Ack(p)'
  BY <1>1 DEF Ack
<1>3. fs' \in Roots /\ fs' \in disk' /\ disk' = disk /\ fs' = fs
  BY DEF SameFs, IInv, TypeOK
<1> QED
  BY <1>1, <1>2, <1>3, InsideStep

\* A step that only looks.
LEMMA LookStep ==
  ASSUME IInv, NEW p \in Procs, NEW at \in Inside, NEW STATE ok, NEW to \in Inside,
         NEW back \in {"undo", "abort"}, NEW code \in {"error", "drift"},
         Look(p, at, ok, to, back, code),
         SameFs /\ Quiet /\ pc[p] = at /\ ok /\ pc'[p] = to => Holder(p)',
         SameFs /\ Quiet /\ pc[p] = at /\ pc'[p] = back /\ result'[p] \in {"error", code}
           => Holder(p)'
  PROVE  IInv'
<1>1. pc[p] = at /\ SameFs /\ Quiet /\ faults' \in 0..MaxFaults
  BY FaultType DEF Look, IInv
<1>2. CASE ok /\ Goto(p, to)
  <2>1. /\ pc' = [pc EXCEPT ![p] = to] /\ result' = [result EXCEPT ![p] = result[p]]
        /\ home' = home
    BY <1>2, Leads
  <2>2. result[p] \in Results \ {"ok"}
    BY <1>1 DEF IInv, TypeOK, RootInv, Inside
  <2> QED
    BY <1>1, <1>2, <2>1, <2>2, QuietMove
<1>3. ASSUME NEW c \in {"error", code}, Back(p, back, c) PROVE IInv'
  <2>1. pc' = [pc EXCEPT ![p] = back] /\ result' = [result EXCEPT ![p] = c] /\ home' = home
    BY <1>3, Leads
  <2>2. back \in Inside /\ c \in Results \ {"ok"}
    BY DEF Inside, Results, Refusals
  <2> QED
    BY <1>1, <2>1, <2>2, QuietMove
<1> QED
  BY <1>2, <1>3 DEF Look

\* What a step that leaves the registry as it is leaves to p.
LEMMA Frame ==
  ASSUME NEW p \in Procs, SameFs, Quiet
  PROVE  /\ fs' = fs /\ disk' = disk /\ Base(p)' = Base(p) /\ found' = found /\ call' = call
         /\ path' = path /\ node' = node /\ (Created(p)' <=> Created(p))
         /\ (Unrecorded(p)' <=> Unrecorded(p))
BY DEF SameFs, Quiet, Same, callVars, Base, Unrecorded, Foreign, Created

(***************************************************************************)
(* The steps under the lock that leave the registry as it is.              *)
(***************************************************************************)
LEMMA ArmStep == ASSUME IInv, NEW p \in Procs, Arm(p) PROVE IInv'
<1>1. CASE Look(p, "arm", TRUE, Registry(p), "undo", "error")
  <2>1. PICK to \in {"probe", "present"} :
          /\ Look(p, "arm", TRUE, to, "undo", "error")
          /\ to = "present" => call[p] = "create"
    BY <1>1 DEF Registry, IInv, TypeOK, Calls
  <2>2. SameFs /\ Quiet /\ pc[p] = "arm" /\ pc'[p] = to => Holder(p)'
    BY <2>1, Frame DEF IInv, Holder, Inside
  <2>3. SameFs /\ Quiet /\ pc[p] = "arm" /\ pc'[p] = "undo" /\ result'[p] = "error" => Holder(p)'
    BY Frame DEF IInv, Holder, Inside, Refusals
  <2> QED
    BY <2>1, <2>2, <2>3, LookStep DEF Inside
<1>2. CASE pc[p] = "arm" /\ Fault /\ Finish(p, "cleanup_failed") /\ SameFs /\ Quiet
  BY <1>2, QuietFailure, FaultType DEF Inside, Results, IInv
<1> QED
  BY <1>1, <1>2 DEF Arm

LEMMA ProbeStep == ASSUME IInv, NEW p \in Procs, Probe(p) PROVE IInv'
<1>1. SameFs /\ Quiet /\ pc[p] = "probe" /\ pc'[p] = "scan" => Holder(p)'
  BY Frame DEF IInv, Holder, Inside
<1>2. /\ SameFs /\ Quiet /\ pc[p] = "probe" /\ pc'[p] = "undo"
      /\ result'[p] \in {"error", "drift"}
      => Holder(p)'
  BY Frame DEF IInv, Holder, Inside, Refusals
<1> QED
  BY <1>1, <1>2, LookStep DEF Probe, Inside

\* A record is staged where the repository is under no path.
LEMMA ScanStep == ASSUME IInv, NEW p \in Procs, Scan(p) PROVE IInv'
<1>1. pc[p] = "scan" /\ SameFs /\ Quiet /\ faults' \in 0..MaxFaults /\ fs = Base(p)
  BY FaultType DEF Scan, IInv, Holder
<1>2. ASSUME NEW code \in Refusals, Back(p, "undo", code) PROVE IInv'
  <2>1. /\ pc' = [pc EXCEPT ![p] = "undo"] /\ result' = [result EXCEPT ![p] = code]
        /\ home' = home
    BY <1>2, Leads
  <2>2. pc'[p] = "undo" /\ result'[p] = code => Holder(p)'
    BY <1>1, <1>2, Frame DEF IInv, Holder, Inside
  <2> QED
    BY <1>1, <2>1, <2>2, QuietMove DEF Inside, Results, Refusals
<1>3. CASE ~Damaged(p) /\ ~Foreign(p) /\ Recorded(p) = None /\ Goto(p, "stage")
  <2>1. /\ pc' = [pc EXCEPT ![p] = "stage"] /\ result' = [result EXCEPT ![p] = result[p]]
        /\ home' = home
    BY <1>3, Leads
  <2>2. pc'[p] = "stage" => Holder(p)'
    BY <1>1, <1>3, Frame DEF IInv, Holder, Inside, Damaged, Recorded, Unrecorded
  <2>3. result[p] \in Results \ {"ok"}
    BY <1>1 DEF IInv, TypeOK, RootInv, Inside
  <2> QED
    BY <1>1, <2>1, <2>2, <2>3, QuietMove DEF Inside
<1> QED
  BY <1>2, <1>3 DEF Scan, Refusals

LEMMA FinalProbeStep == ASSUME IInv, NEW p \in Procs, FinalProbe(p) PROVE IInv'
<1>1. SameFs /\ Quiet /\ pc[p] = "final" /\ pc'[p] = "link" => Holder(p)'
  BY Frame DEF IInv, Holder, Inside
<1>2. /\ SameFs /\ Quiet /\ pc[p] = "final" /\ pc'[p] = "abort"
      /\ result'[p] \in {"error", "drift"}
      => Holder(p)'
  BY Frame DEF IInv, Holder, Inside, Refusals
<1> QED
  BY <1>1, <1>2, LookStep DEF FinalProbe, Inside

LEMMA RereadStep == ASSUME IInv, NEW p \in Procs, Reread(p) PROVE IInv'
<1>1. SameFs /\ Quiet /\ pc[p] = "reread" /\ pc'[p] = "commit" => Holder(p)'
  BY Frame DEF IInv, Holder, Inside
<1>2. /\ SameFs /\ Quiet /\ pc[p] = "reread" /\ pc'[p] = "undo" /\ result'[p] = "error"
      => Holder(p)'
  BY Frame DEF IInv, Holder, Inside, Refusals
<1> QED
  BY <1>1, <1>2, LookStep DEF Reread, Inside

LEMMA PresentStep == ASSUME IInv, NEW p \in Procs, Present(p) PROVE IInv'
<1>1. pc[p] = "present" /\ SameFs /\ Quiet /\ faults' \in 0..MaxFaults
  BY FaultType DEF Present, IInv
<1>2. CASE Goto(p, "containers")
  <2>1. /\ pc' = [pc EXCEPT ![p] = "containers"] /\ result' = [result EXCEPT ![p] = result[p]]
        /\ home' = home
    BY <1>2, Leads
  <2>2. pc'[p] = "containers" => Holder(p)'
    BY <1>1, Frame DEF IInv, Holder, Inside
  <2>3. result[p] \in Results \ {"ok"}
    BY <1>1 DEF IInv, TypeOK, RootInv, Inside
  <2> QED
    BY <1>1, <2>1, <2>2, <2>3, QuietMove DEF Inside
<1>3. CASE Finish(p, "unregistered")
  BY <1>1, <1>3, QuietFailure DEF Inside, Results
<1> QED
  BY <1>2, <1>3 DEF Present

(***************************************************************************)
(* The steps that change the registry.                                     *)
(***************************************************************************)
LEMMA RootsFields ==
  ASSUME NEW r \in Roots
  PROVE  /\ r.root \in Procs \cup {None} /\ r.records \in [Paths -> Nodes \cup {None}]
         /\ r.tmp \subseteq Procs /\ r.dirs \in BOOLEAN
BY DEF Roots

\* A change of the opened root that keeps what is recorded.
LEMMA SameRecords ==
  ASSUME IInv, NEW r \in Roots, r.root = fs.root, r.records = fs.records
  PROVE  Grown(r)
BY DEF IInv, TypeOK, Grown, Unique

LEMMA Replaced ==
  ASSUME NEW D, NEW e \in D, NEW r, NEW E, E = {IF d.root = e.root THEN r ELSE d : d \in D}
  PROVE  r \in E /\ \A d \in E : d \in D \/ d = r
OBVIOUS

LEMMA StageStep == ASSUME IInv, NEW p \in Procs, Stage(p) PROVE IInv'
<1> DEFINE staged == [fs EXCEPT !.tmp = @ \cup {p}]
<1>1. /\ pc[p] = "stage" /\ Quiet /\ faults' \in 0..MaxFaults /\ fs = Base(p) /\ Base(p).tmp = {}
      /\ Unrecorded(p) /\ result[p] \in Results \ {"ok"} /\ fs \in Roots
  BY FaultType DEF Stage, IInv, Holder, TypeOK, RootInv, Inside
<1>2. /\ staged \in Roots /\ staged.root = fs.root /\ staged.records = fs.records
      /\ staged = [Base(p) EXCEPT !.tmp = {p}]
  BY <1>1 DEF Roots
<1>3. Base(p)' = Base(p) /\ path' = path /\ node' = node /\ found' = found /\ call' = call
      /\ opened' = opened
  BY <1>1 DEF Quiet, Same, callVars, Base, Created
<1>4. ASSUME NEW to \in {"final", "abort"}, NEW code \in Results \ {"ok"}, Change(staged),
             pc' = [pc EXCEPT ![p] = to], result' = [result EXCEPT ![p] = code], home' = home,
             to = "abort" => code = "error"
      PROVE  IInv'
  <2>1. pc'[p] = to /\ result'[p] = code
    BY <1>4 DEF IInv, TypeOK
  <2>2. fs' = staged /\ disk' = disk \cup {staged} /\ Grown(staged)
    BY <1>2, <1>4, SameRecords DEF Change
  <2>3. Unrecorded(p)'
    BY <1>1, <1>2, <1>3, <2>2 DEF Unrecorded, Foreign
  <2>4. Created(p)' => found'[p] = NoRoot
    BY <1>1, <1>3 DEF Created, IInv, Holder, Inside
  <2>5. Holder(p)'
    BY <1>1, <1>2, <1>3, <1>4, <2>1, <2>2, <2>3, <2>4 DEF Holder
  <2>6. Ack(p)'
    BY <2>1 DEF Ack
  <2> QED
    BY <1>1, <1>2, <1>4, <2>2, <2>5, <2>6, InsideStep DEF Inside
<1>5. CASE Change(staged) /\ Goto(p, "final")
  BY <1>1, <1>4, <1>5, Leads
<1>6. CASE Change(staged) /\ Back(p, "abort", "error")
  BY <1>4, <1>6, Leads DEF Results, Refusals
<1>7. CASE Back(p, "undo", "error") /\ SameFs
  <2>1. pc'[p] = "undo" /\ result'[p] = "error" => Holder(p)'
    BY <1>1, <1>7, Frame DEF IInv, Holder, Inside, Refusals
  <2> QED
    BY <1>1, <1>7, <2>1, Leads, QuietMove DEF Inside, Results, Refusals
<1> QED
  BY <1>5, <1>6, <1>7 DEF Stage

\* A record is linked where there was none, and the repository is under no other path.
LEMMA LinkStep == ASSUME IInv, NEW p \in Procs, Link(p) PROVE IInv'
<1> DEFINE linked == [fs EXCEPT !.records[path[p]] = node[p], !.tmp = @ \ {p}]
<1>1. /\ pc[p] = "link" /\ Quiet /\ faults' \in 0..MaxFaults /\ Unrecorded(p)
      /\ fs \in Roots /\ node[p] \in Nodes /\ path[p] \in Paths
      /\ result[p] \in Results \ {"ok"} /\ fs \in disk
  BY FaultType DEF Link, IInv, Holder, TypeOK, RootInv, Inside
<1>2. /\ linked \in Roots /\ linked.root = fs.root
      /\ linked.records = [fs.records EXCEPT ![path[p]] = node[p]]
  BY <1>1 DEF Roots
<1>3. Grown(linked)
  <2>1. Unique(fs) /\ fs.records \in [Paths -> Nodes \cup {None}]
    BY <1>1, RootsFields DEF IInv
  <2> QED
    BY <1>1, <1>2, <2>1 DEF Grown, Unique, Unrecorded, Foreign
<1>4. CASE Change(linked) /\ Goto(p, "sync")
  <2>1. /\ pc' = [pc EXCEPT ![p] = "sync"] /\ pc'[p] = "sync" /\ home' = home
        /\ result' = [result EXCEPT ![p] = result[p]] /\ result'[p] = result[p]
    BY <1>4, Leads
  <2>2. fs' = linked /\ disk' = disk \cup {linked}
    BY <1>4 DEF Change
  <2>3. fs'.records[path[p]] = node[p] /\ path' = path /\ node' = node
    BY <1>1, <1>2, <2>2, RootsFields DEF Quiet, Same, callVars
  <2>4. Created(p)' => found'[p] = NoRoot
    BY <1>1 DEF Created, IInv, Holder, Inside, Quiet, Same
  <2>5. Holder(p)' /\ Ack(p)'
    BY <1>1, <2>1, <2>3, <2>4 DEF Holder, Ack
  <2> QED
    BY <1>1, <1>2, <1>3, <2>1, <2>2, <2>5, InsideStep DEF Inside
<1>5. CASE Change(linked) /\ Finish(p, "doubt")
  <2>1. fs' = linked /\ disk' = disk \cup {linked}
    BY <1>5 DEF Change
  <2>2. /\ pc' = [pc EXCEPT ![p] = "done"] /\ pc'[p] = "done" /\ home' \in {home, None}
        /\ result' = [result EXCEPT ![p] = "doubt"] /\ result'[p] = "doubt"
    BY <1>5, Leads
  <2>3. Holder(p)' /\ Ack(p)'
    BY <2>2, FailedOut
  <2>4. "doubt" \in Results
    BY DEF Results
  <2> QED
    BY <1>1, <1>2, <1>3, <2>1, <2>2, <2>3, <2>4, InsideStep DEF Inside
<1>6. CASE SameFs /\ Finish(p, "doubt")
  BY <1>1, <1>6, QuietFailure DEF Inside, Results
<1>7. CASE SameFs /\ Back(p, "withdraw", "error")
  <2>1. pc'[p] = "withdraw" /\ result'[p] = "error" => Holder(p)'
    BY <1>1, <1>7, Frame DEF IInv, Holder, Inside, Refusals
  <2> QED
    BY <1>1, <1>7, <2>1, Leads, QuietMove DEF Inside, Results, Refusals
<1> QED
  BY <1>1, <1>4, <1>5, <1>6, <1>7 DEF Link, Unrecorded, Recorded

LEMMA SyncStep == ASSUME IInv, NEW p \in Procs, Sync(p) PROVE IInv'
<1>1. /\ pc[p] = "sync" /\ Quiet /\ faults' \in 0..MaxFaults /\ fs \in Roots /\ fs \in disk
      /\ fs.records[path[p]] = node[p] /\ result[p] \in Results \ {"ok"}
  BY FaultType DEF Sync, IInv, Holder, TypeOK, RootInv, Inside
<1>2. CASE SyncRoot /\ Goto(p, "reread")
  <2>1. /\ pc' = [pc EXCEPT ![p] = "reread"] /\ pc'[p] = "reread" /\ home' = home
        /\ result' = [result EXCEPT ![p] = result[p]] /\ result'[p] = result[p]
    BY <1>2, Leads
  <2>2. /\ fs' = fs /\ disk' \subseteq disk /\ fs \in disk'
        /\ \A d \in disk' : d.root = fs.root => d = fs
    BY <1>1, <1>2 DEF SyncRoot
  <2>3. path' = path /\ node' = node /\ (Created(p)' => found'[p] = NoRoot)
    BY <1>1 DEF Created, IInv, Holder, Inside, Quiet, Same, callVars
  <2>4. Holder(p)' /\ Ack(p)'
    BY <1>1, <2>1, <2>2, <2>3 DEF Holder, Ack
  <2> QED
    BY <1>1, <2>1, <2>2, <2>4, InsideStep DEF Inside
<1>3. CASE SameFs /\ Finish(p, "doubt")
  BY <1>1, <1>3, QuietFailure DEF Inside, Results
<1>4. CASE SameFs /\ Back(p, "undo", "error")
  <2>1. pc'[p] = "undo" /\ result'[p] = "error" => Holder(p)'
    BY <1>1, <1>4, Frame DEF IInv, Holder, Inside, Refusals
  <2> QED
    BY <1>1, <1>4, <2>1, Leads, QuietMove DEF Inside, Results, Refusals
<1> QED
  BY <1>2, <1>3, <1>4 DEF Sync

\* Every directory that can be left is of the root, or the root is another's.
LEMMA CommitStep == ASSUME IInv, NEW p \in Procs, CommitRecord(p) PROVE IInv'
<1>1. /\ pc[p] = "commit" /\ Quiet /\ faults' \in 0..MaxFaults /\ fs \in Roots /\ fs \in disk
      /\ fs.root = opened[p] /\ \A d \in disk : d.root = fs.root => d.records[path[p]] = node[p]
  BY FaultType DEF CommitRecord, IInv, Holder, TypeOK, RootInv, Inside
<1>2. CASE SameFs /\ Finish(p, "doubt")
  BY <1>1, <1>2, QuietFailure DEF Inside, Results
<1>3. ASSUME IF Created(p) THEN SyncHome ELSE SameFs, NEW code \in {"ok", "error"}, Finish(p, code)
      PROVE  IInv'
  <2>1. /\ pc' = [pc EXCEPT ![p] = "done"] /\ pc'[p] = "done" /\ home' \in {home, None}
        /\ result' = [result EXCEPT ![p] = code] /\ result'[p] = code
    BY <1>3, Leads
  <2>2. /\ fs' = fs /\ disk' \subseteq disk /\ fs \in disk'
        /\ Created(p) => \A d \in disk' : d.root = fs.root
    BY <1>1, <1>3 DEF SyncHome, SameFs
  <2>3. opened' = opened /\ path' = path /\ node' = node
    BY <1>1 DEF Quiet, Same, callVars
  <2>4. Holder(p)'
    BY <2>1 DEF Holder, Inside
  <2>5. Ack(p)'
    BY <1>1, <2>2, <2>3 DEF Ack, Created
  <2>6. code \in Results
    BY DEF Results, Refusals
  <2> QED
    BY <1>1, <2>1, <2>2, <2>4, <2>5, <2>6, InsideStep DEF Inside
<1> QED
  BY <1>2, <1>3 DEF CommitRecord

\* The temporary goes, and with it all that init has put into the root.
LEMMA AbortStep == ASSUME IInv, NEW p \in Procs, Abort(p) PROVE IInv'
<1> DEFINE clean == [fs EXCEPT !.tmp = @ \ {p}]
<1>1. /\ pc[p] \in {"abort", "withdraw"} /\ Quiet /\ faults' \in 0..MaxFaults /\ fs \in Roots /\ fs \in disk
      /\ fs = [Base(p) EXCEPT !.tmp = {p}] /\ Base(p).tmp = {} /\ result[p] \in {"error", "drift"}
      /\ Base(p) \in Roots
  <2>1. NoRoot \in Roots /\ [NoRoot EXCEPT !.root = p] \in Roots
    BY NoRootType DEF Roots
  <2> QED
    BY <2>1, FaultType DEF Abort, IInv, Holder, TypeOK, Base
<1>2. clean \in Roots /\ clean.root = fs.root /\ clean.records = fs.records /\ clean = Base(p)
  BY <1>1, ZenonT(60) DEF Roots
<1>3. Base(p)' = Base(p) /\ (Created(p)' => found'[p] = NoRoot)
  BY <1>1 DEF Quiet, Same, callVars, Base, Created, IInv, Holder, Inside
<1>4. ASSUME fs' = clean, disk' = {IF d.root = fs.root THEN clean ELSE d : d \in disk},
             Back(p, "undo", result[p])
      PROVE  IInv'
  <2>1. /\ pc' = [pc EXCEPT ![p] = "undo"] /\ pc'[p] = "undo" /\ home' = home
        /\ result' = [result EXCEPT ![p] = result[p]] /\ result'[p] = result[p]
    BY <1>4, Leads
  <2>2. Holder(p)' /\ Ack(p)'
    BY <1>1, <1>2, <1>3, <1>4, <2>1 DEF Holder, Ack, Refusals
  <2>3. Grown(clean)
    BY <1>2, SameRecords
  <2>4. fs' \in disk' /\ \A d \in disk' : d \in disk \/ d = clean
    <3>1. fs \in disk
      BY <1>1
    <3> HIDE DEF clean
    <3> QED
      BY <1>4, <3>1, Replaced
  <2>5. result[p] \in Results
    BY <1>1 DEF Results, Refusals
  <2> QED
    BY <1>1, <1>2, <1>4, <2>1, <2>2, <2>3, <2>4, <2>5, InsideStep DEF Inside
<1>5. CASE SameFs /\ Back(p, "undo", "cleanup_failed")
  <2>1. pc'[p] = "undo" /\ result'[p] = "cleanup_failed" => Holder(p)'
    BY <1>1, <1>5, Frame DEF IInv, Holder, Inside, Refusals
  <2> QED
    BY <1>1, <1>5, <2>1, Leads, QuietMove DEF Inside, Results, Refusals
<1>6. ASSUME Change(clean), NEW to \in {"undo", "done"}, home' \in {home, None},
             to = "undo" => home' = home, pc' = [pc EXCEPT ![p] = to], pc'[p] = to,
             result' = [result EXCEPT ![p] = "doubt"], result'[p] = "doubt"
      PROVE  IInv'
  <2>1. Holder(p)' /\ Ack(p)'
    BY <1>1, <1>2, <1>3, <1>6 DEF Holder, Ack, Change, Inside
  <2>2. Grown(clean)
    BY <1>2, SameRecords
  <2>3. fs' \in disk' /\ \A d \in disk' : d \in disk \/ d = clean
    BY <1>6 DEF Change
  <2> QED
    BY <1>1, <1>2, <1>6, <2>1, <2>2, <2>3, InsideStep DEF Inside, Results, Change
<1>7. CASE Change(clean) /\ (Finish(p, "doubt") \/ Back(p, "undo", "doubt"))
  BY <1>6, <1>7, Leads
<1> QED
  BY <1>1, <1>4, <1>5, <1>7 DEF Abort

\* The new root goes when nothing is in it.
LEMMA UndoStep == ASSUME IInv, NEW p \in Procs, Undo(p) PROVE IInv'
<1>1. /\ pc[p] = "undo" /\ Quiet /\ faults' \in 0..MaxFaults
      /\ result[p] \in Results \ {"ok"} /\ "cleanup_failed" \in Results \ {"ok"}
  BY FaultType DEF Undo, IInv, Holder, TypeOK, RootInv, Results, Refusals
<1>2. CASE Change(NoRoot) /\ Created(p) /\ Finish(p, result[p])
  <2>1. /\ pc' = [pc EXCEPT ![p] = "done"] /\ pc'[p] = "done" /\ home' \in {home, None}
        /\ result' = [result EXCEPT ![p] = result[p]] /\ result'[p] = result[p]
    BY <1>2, Leads
  <2>2. Holder(p)' /\ Ack(p)'
    BY <1>1, <2>1, FailedOut
  <2>3. fs' = NoRoot /\ disk' = disk \cup {NoRoot} /\ NoRoot \in Roots
    BY <1>2, NoRootType DEF Change
  <2> QED
    BY <1>1, <1>2, <2>1, <2>2, <2>3, InsideStep DEF Inside
<1>3. ASSUME NEW code \in {result[p], "cleanup_failed"}, SameFs, Finish(p, code) PROVE IInv'
  BY <1>1, <1>3, QuietFailure DEF Inside
<1> QED
  BY <1>2, <1>3 DEF Undo

LEMMA ContainersStep == ASSUME IInv, NEW p \in Procs, Containers(p) PROVE IInv'
<1> DEFINE made == [fs EXCEPT !.dirs = TRUE]
<1>1. /\ pc[p] = "containers" /\ Quiet /\ faults' \in 0..MaxFaults /\ fs \in Roots /\ fs \in disk
      /\ call[p] = "create"
  BY FaultType DEF Containers, IInv, Holder, TypeOK
<1>2. /\ made \in Roots /\ made.root = fs.root /\ made.records = fs.records
  BY <1>1 DEF Roots
<1>3. PICK code \in {"ok", "error"} :
        /\ Finish(p, code) /\ fs' = made
        /\ \/ disk' = {IF d.root = fs.root THEN made ELSE d : d \in disk}
           \/ disk' = disk \cup {made}
  BY DEF Containers, Change
<1>4. /\ pc' = [pc EXCEPT ![p] = "done"] /\ pc'[p] = "done" /\ home' \in {home, None}
      /\ result' = [result EXCEPT ![p] = code] /\ result'[p] = code
  BY <1>3, Leads
<1>5. Holder(p)' /\ Ack(p)'
  BY <1>1, <1>4 DEF Holder, Ack, Inside, Quiet, Same, callVars
<1>6. fs' \in disk' /\ \A d \in disk' : d \in disk \/ (d \in Roots /\ Grown(d))
  BY <1>1, <1>2, <1>3, SameRecords
<1>7. code \in Results
  BY DEF Results, Refusals
<1> QED
  BY <1>1, <1>2, <1>3, <1>4, <1>5, <1>6, <1>7, InsideStep DEF Inside

LEMMA KillInside == ASSUME IInv, NEW p \in Procs, Kill(p), pc[p] \in Inside PROVE IInv'
BY QuietFailure, FaultType DEF Kill, Results, IInv

(***************************************************************************)
(* The steps of a call that has not opened the root.                       *)
(***************************************************************************)
LEMMA OutsideStep ==
  ASSUME IInv, NEW p \in Procs, pc[p] \in {"new", "preflight", "home", "open"},
         NEW to \in {"preflight", "home", "done"}, NEW code \in Results \ {"ok"},
         pc' = [pc EXCEPT ![p] = to], result' = [result EXCEPT ![p] = code],
         home' = home \/ (home = p /\ to = "done" /\ home' = None),
         pc[p] = "open" => to = "done",
         SameFs, UNCHANGED <<live, opened, found, moves>>, faults' \in 0..MaxFaults,
         call' \in [Procs -> Calls], path' \in [Procs -> Paths],
         node' \in [Procs -> Nodes \cup {None}], node'[p] # None,
         \A q \in Procs \ {p} : call'[q] = call[q] /\ path'[q] = path[q] /\ node'[q] = node[q]
  PROVE  IInv'
<1>1. /\ pc'[p] = to /\ result'[p] = code
      /\ \A q \in Procs \ {p} : pc'[q] = pc[q] /\ result'[q] = result[q]
  BY DEF IInv, TypeOK
<1>2. TypeOK'
  BY DEF IInv, TypeOK, Locations, Running, SameFs
<1>3. LockInv'
  BY <1>1 DEF IInv, LockInv, Locked, Inside
<1>4. RootInv'
  BY <1>1 DEF IInv, RootInv, Inside, SameFs
<1>5. Holder(p)' /\ Ack(p)'
  BY <1>1 DEF Holder, Ack, Inside
<1>6. ASSUME NEW q \in Procs \ {p} PROVE Holder(q)' /\ Ack(q)'
  BY <1>1 DEF IInv, Holder, Ack, SameFs, Base, Unrecorded, Foreign, Created
<1>7. \A d \in disk' : Unique(d)
  BY DEF IInv, SameFs
<1> QED
  BY <1>2, <1>3, <1>4, <1>5, <1>6, <1>7 DEF IInv

LEMMA StartStep ==
  ASSUME IInv, NEW p \in Procs, NEW c \in Calls, NEW a \in Paths, Start(p, c, a)
  PROVE  IInv'
<1>1. /\ pc[p] = "new" /\ SameFs /\ UNCHANGED <<live, opened, found, moves, faults>>
      /\ live[a] # None /\ live[a] \in Nodes \cup {None} /\ result[p] \in Results \ {"ok"}
      /\ faults' \in 0..MaxFaults
  BY DEF Start, IInv, TypeOK, RootInv
<1>2. /\ call' \in [Procs -> Calls] /\ path' \in [Procs -> Paths]
      /\ node' \in [Procs -> Nodes \cup {None}] /\ node'[p] = live[a]
      /\ \A q \in Procs \ {p} : call'[q] = call[q] /\ path'[q] = path[q] /\ node'[q] = node[q]
  BY <1>1 DEF Start, IInv, TypeOK
<1>3. /\ pc' = [pc EXCEPT ![p] = "preflight"] /\ home' = home
      /\ result' = [result EXCEPT ![p] = result[p]]
  BY Leads DEF Start
<1> QED
  BY <1>1, <1>2, <1>3, OutsideStep

\* A call that ends before it has opened the root, or goes from preflight to home.
LEMMA EarlyMove ==
  ASSUME IInv, NEW p \in Procs, pc[p] \in {"preflight", "home", "open"},
         NEW code \in Results \ {"ok"}, SameFs, Quiet, faults' \in 0..MaxFaults,
         Finish(p, code) \/ (pc[p] = "preflight" /\ Goto(p, "home"))
  PROVE  IInv'
<1>1. node[p] # None /\ result[p] \in Results \ {"ok"}
  BY DEF IInv, TypeOK, RootInv
<1>2. /\ UNCHANGED <<live, opened, found, moves>>
      /\ call' = call /\ path' = path /\ node' = node
      /\ call \in [Procs -> Calls] /\ path \in [Procs -> Paths]
      /\ node \in [Procs -> Nodes \cup {None}]
  BY DEF Quiet, Same, callVars, IInv, TypeOK
<1>3. CASE Finish(p, code)
  <2>1. /\ pc' = [pc EXCEPT ![p] = "done"] /\ result' = [result EXCEPT ![p] = code]
        /\ home' = home \/ (home = p /\ home' = None)
    BY <1>3 DEF Finish, Release
  <2> QED
    BY <1>1, <1>2, <2>1, OutsideStep
<1>4. CASE pc[p] = "preflight" /\ Goto(p, "home")
  <2>1. /\ pc' = [pc EXCEPT ![p] = "home"] /\ result' = [result EXCEPT ![p] = result[p]]
        /\ home' = home
    BY <1>4, Leads
  <2> QED
    BY <1>1, <1>2, <1>4, <2>1, OutsideStep
<1> QED
  BY <1>3, <1>4

LEMMA PreflightStep == ASSUME IInv, NEW p \in Procs, Preflight(p) PROVE IInv'
<1>1. /\ pc[p] = "preflight" /\ SameFs /\ Quiet /\ faults' \in 0..MaxFaults
      /\ Finish(p, "drift") \/ Goto(p, "home")
  BY FaultType DEF Preflight, IInv
<1>2. "drift" \in Results \ {"ok"}
  BY DEF Results, Refusals
<1> QED
  BY <1>1, <1>2, EarlyMove

LEMMA KillOutside == ASSUME IInv, NEW p \in Procs, Kill(p), pc[p] \notin Inside PROVE IInv'
<1>1. /\ pc[p] \in {"preflight", "home", "open"} /\ SameFs /\ Quiet /\ faults' \in 0..MaxFaults
      /\ Finish(p, "killed") /\ "killed" \in Results \ {"ok"}
  BY FaultType DEF Kill, Running, Inside, IInv, Results, Refusals
<1> QED
  BY <1>1, EarlyMove

LEMMA LockHomeStep == ASSUME IInv, NEW p \in Procs, LockHome(p) PROVE IInv'
<1>1. /\ pc[p] = "home" /\ home = None /\ home' = p /\ SameFs /\ result' = result
      /\ UNCHANGED <<live, callVars, opened, moves, faults>>
      /\ pc' = [pc EXCEPT ![p] = "open"] /\ found' = [found EXCEPT ![p] = fs] /\ fs \in Roots
  BY DEF LockHome, IInv, TypeOK
<1>2. /\ pc'[p] = "open" /\ found'[p] = fs
      /\ \A q \in Procs \ {p} : pc'[q] = pc[q] /\ found'[q] = found[q]
  BY <1>1 DEF IInv, TypeOK
<1>3. \A q \in Procs : pc[q] \notin Locked
  BY <1>1, NameAssumption DEF IInv, LockInv
<1>4. TypeOK'
  BY <1>1 DEF IInv, TypeOK, Locations, Running, SameFs, callVars
<1>5. LockInv'
  BY <1>1, <1>2, <1>3 DEF LockInv
<1>6. RootInv'
  BY <1>1, <1>2 DEF IInv, RootInv, Inside, SameFs, callVars
<1>7. ASSUME NEW q \in Procs PROVE Holder(q)'
  <2>1. CASE q = p
    BY <1>1, <1>2, <2>1 DEF Holder, Inside, SameFs
  <2>2. CASE q # p
    <3>1. pc'[q] \notin Locked
      BY <1>2, <1>3, <2>2
    <3> QED
      BY <3>1 DEF Holder, Locked, Inside
  <2> QED
    BY <2>1, <2>2
<1>8. \A q \in Procs : Ack(q)'
  BY <1>1 DEF IInv, Ack, SameFs, callVars, Created
<1>9. \A d \in disk' : Unique(d)
  BY <1>1 DEF IInv, SameFs
<1> QED
  BY <1>4, <1>5, <1>6, <1>7, <1>8, <1>9 DEF IInv

\* The root is opened, or made where there was none.
LEMMA OpenRootStep == ASSUME IInv, NEW p \in Procs, OpenRoot(p) PROVE IInv'
<1> DEFINE new == [NoRoot EXCEPT !.root = p]
<1>1. /\ pc[p] = "open" /\ Same /\ faults' \in 0..MaxFaults /\ fs = found[p] /\ opened[p] = None
      /\ home = p /\ fs \in Roots /\ fs \in disk /\ fs.root \in Procs \cup {None}
      /\ result[p] \in Results \ {"ok"} /\ node[p] # None /\ p # None
  BY FaultType, RootsFields, NameAssumption
  DEF OpenRoot, IInv, Holder, LockInv, RootInv, TypeOK, Inside, Locked
<1>2. \A q \in Procs \ {p} : pc[q] \notin Locked
  BY <1>1, Excluded DEF Locked
<1>3. new \in Roots /\ new.root = p /\ Unique(new)
  BY NoRootType DEF Roots, Unique, NoRoot
<1>4. CASE Finish(p, "error") /\ SameFs /\ UNCHANGED opened
  BY <1>1, <1>4, EarlyMove DEF Quiet, Results, Refusals
<1>5. ASSUME NEW root \in Procs, opened' = [opened EXCEPT ![p] = root],
             NEW to \in {"arm", "probe", "present", "done"}, pc' = [pc EXCEPT ![p] = to],
             NEW code \in Results \ {"ok"}, result' = [result EXCEPT ![p] = code],
             home' \in {home, None}, to # "done" => home' = home,
             \/ fs.root = root /\ SameFs
             \/ root = p /\ fs.root = None /\ Change(new),
             to = "present" => call[p] = "create"
      PROVE  IInv'
  <2> USE <1>5
  <2>1. /\ pc'[p] = to /\ result'[p] = code /\ opened'[p] = root /\ root # None
        /\ \A q \in Procs \ {p} : pc'[q] = pc[q] /\ result'[q] = result[q] /\ opened'[q] = opened[q]
    BY NameAssumption DEF IInv, TypeOK
  <2>2. /\ fs' \in Roots /\ fs' \in disk' /\ fs'.root = root
        /\ \A d \in disk' : d \in disk \/ (d = new /\ root = p /\ fs.root = None)
    BY <1>1, <1>3 DEF SameFs, Change
  <2>3. call' = call /\ path' = path /\ node' = node /\ found' = found
    BY <1>1 DEF Same, callVars
  <2>4. TypeOK'
    BY <1>1, <1>3, <2>2, <2>3 DEF IInv, TypeOK, Same, callVars, Locations, Running
  <2>5. LockInv'
    BY <1>1, <1>2, <2>1 DEF LockInv, Locked, Inside
  <2>6. opened[root] = root \/ root = p
    BY <1>1, <2>1 DEF IInv, RootInv
  <2>7. \A q \in Procs : opened[q] # p
    BY <1>1 DEF IInv, RootInv
  <2>8. RootInv'
    <3>1. \A d \in disk' : /\ d.root = None => d = NoRoot
                           /\ d.root # None => opened'[d.root] = d.root
      BY <1>1, <1>3, <2>1, <2>2, <2>7 DEF IInv, RootInv, TypeOK, Roots
    <3>2. \A q \in Procs : opened'[q] # None => opened'[opened'[q]] = opened'[q]
      BY <2>1, <2>6, <2>7 DEF IInv, RootInv, TypeOK
    <3>3. \A q \in Procs : /\ pc'[q] \notin Inside \cup {"done"} => opened'[q] = None
                           /\ pc'[q] \in Inside => opened'[q] # None /\ fs'.root = opened'[q]
                           /\ pc'[q] # "new" => node'[q] # None
                           /\ result'[q] = "ok" => pc'[q] = "done" /\ opened'[q] # None
      BY <1>1, <1>2, <2>1, <2>2, <2>3 DEF IInv, RootInv, Locked, Inside
    <3> QED
      BY <3>1, <3>2, <3>3 DEF RootInv
  <2>9. ASSUME NEW q \in Procs PROVE Holder(q)'
    <3>1. CASE q # p
      BY <1>2, <2>1, <3>1 DEF Holder, Locked, Inside
    <3>2. CASE q = p
      <4>1. Created(p)' => root = p /\ found[p] = NoRoot /\ fs' = new
        BY <1>1, <2>1, <2>2 DEF Created, Change, IInv, RootInv
      <4>2. ~Created(p)' => fs' = found'[p]
        BY <1>1, <2>1, <2>3 DEF Created, SameFs
      <4> QED
        BY <2>1, <2>3, <3>2, <4>1, <4>2 DEF Holder, Base, Inside
    <3> QED
      BY <3>1, <3>2
  <2>10. ASSUME NEW q \in Procs PROVE Ack(q)'
    <3> SUFFICES ASSUME q # p, call[q] = "init", result[q] = "ok", NEW d \in disk'
                 PROVE  /\ d.root = opened[q] => d.records[path[q]] = node[q]
                        /\ opened[q] = q => d.root = q
      BY <2>1, <2>3 DEF Ack, Created
    <3>1. CASE d \in disk
      BY <3>1 DEF IInv, Ack, Created
    <3>2. CASE d = new /\ root = p /\ fs.root = None
      BY <1>1, <1>3, <2>7, <3>2, NameAssumption DEF IInv, Ack, Created
    <3> QED
      BY <2>2, <3>1, <3>2
  <2>11. \A d \in disk' : Unique(d)
    BY <1>3, <2>2 DEF IInv
  <2> QED
    BY <2>4, <2>5, <2>8, <2>9, <2>10, <2>11 DEF IInv
<1>6. CASE /\ fs.root # None /\ opened' = [opened EXCEPT ![p] = fs.root]
           /\ Goto(p, Registry(p)) /\ SameFs
  <2>1. Registry(p) \in {"probe", "present"} /\ (Registry(p) = "present" => call[p] = "create")
    BY DEF Registry, IInv, TypeOK, Calls
  <2>2. /\ pc' = [pc EXCEPT ![p] = Registry(p)] /\ home' = home
        /\ result' = [result EXCEPT ![p] = result[p]]
    BY <1>6, Leads
  <2>3. fs.root \in Procs
    BY <1>1, <1>6
  <2> QED
    BY <1>1, <1>5, <1>6, <2>1, <2>2, <2>3
<1>7. ASSUME fs.root = None, opened' = [opened EXCEPT ![p] = p], Change(new),
             Goto(p, "arm") \/ Finish(p, "cleanup_failed")
      PROVE  IInv'
  <2>1. CASE Goto(p, "arm")
    <3>1. /\ pc' = [pc EXCEPT ![p] = "arm"] /\ home' = home
          /\ result' = [result EXCEPT ![p] = result[p]]
      BY <2>1, Leads
    <3> QED
      BY <1>1, <1>5, <1>7, <3>1
  <2>2. CASE Finish(p, "cleanup_failed")
    <3>1. /\ pc' = [pc EXCEPT ![p] = "done"] /\ home' \in {home, None}
          /\ result' = [result EXCEPT ![p] = "cleanup_failed"]
          /\ "cleanup_failed" \in Results \ {"ok"}
      BY <2>2, Leads DEF Results
    <3> QED
      BY <1>1, <1>5, <1>7, <3>1
  <2> QED
    BY <1>7, <2>1, <2>2
<1> QED
  BY <1>4, <1>6, <1>7 DEF OpenRoot

(***************************************************************************)
(* Everybody else, and the theorems.                                       *)
(***************************************************************************)
LEMMA MoveStep ==
  ASSUME IInv, NEW a \in Paths, NEW n \in Nodes \cup {None}, Move(a, n)
  PROVE  IInv'
<1>1. /\ fs' = fs /\ disk' = disk /\ home' = home /\ call' = call /\ path' = path /\ node' = node
      /\ opened' = opened /\ pc' = pc /\ result' = result /\ found' = found
  BY DEF Move, SameFs, callVars
<1>2. TypeOK'
  BY <1>1, BoundAssumption DEF Move, IInv, TypeOK
<1>3. LockInv' /\ RootInv' /\ \A d \in disk' : Unique(d)
  BY <1>1 DEF IInv, LockInv, RootInv
<1>4. ASSUME NEW p \in Procs PROVE Holder(p)' /\ Ack(p)'
  BY <1>1 DEF IInv, Holder, Ack, Base, Unrecorded, Foreign, Created
<1> QED
  BY <1>2, <1>3, <1>4 DEF IInv

\* Whatever is left was there, or never acknowledged.
LEMMA PowerCutStep == ASSUME IInv, PowerCut PROVE IInv'
<1>1. /\ fs' \in disk /\ disk' = {fs'} /\ opened' = opened /\ node' = node /\ call' = call
      /\ path' = path /\ faults' \in 0..MaxFaults
  BY FaultType DEF PowerCut, callVars, IInv
<1>2. \A p \in Procs : /\ pc'[p] = IF pc[p] \in Running THEN "done" ELSE pc[p]
                       /\ result'[p] = IF pc[p] \in Running THEN "killed" ELSE result[p]
  BY DEF PowerCut
<1>3. \A p \in Procs : pc'[p] \in {"new", "done"} /\ (pc'[p] = "new" <=> pc[p] = "new")
  BY <1>2 DEF IInv, TypeOK, Locations, Running
<1>4. \A p \in Procs : result'[p] = "ok" => result[p] = "ok" /\ pc'[p] = "done"
  BY <1>2 DEF IInv, RootInv, Running
<1>5. TypeOK'
  <2>1. pc' \in [Procs -> Locations] /\ result' \in [Procs -> Results]
    BY DEF PowerCut, IInv, TypeOK, Locations, Results
  <2> QED
    BY <1>1, <2>1 DEF PowerCut, IInv, TypeOK, callVars
<1>6. LockInv'
  BY <1>3 DEF LockInv, Locked, Inside
<1>7. RootInv'
  <2>1. \A d \in disk' : /\ d.root = None => d = NoRoot
                         /\ d.root # None => opened'[d.root] = d.root
    BY <1>1 DEF IInv, RootInv
  <2>2. \A p \in Procs :
          /\ opened'[p] # None => opened'[opened'[p]] = opened'[p]
          /\ pc'[p] \notin Inside \cup {"done"} => opened'[p] = None
          /\ pc'[p] \notin Inside
          /\ pc'[p] # "new" => node'[p] # None
          /\ result'[p] = "ok" => pc'[p] = "done" /\ opened'[p] # None
    BY <1>1, <1>3, <1>4 DEF IInv, RootInv, Inside
  <2> QED
    BY <2>1, <2>2 DEF RootInv
<1>8. \A p \in Procs : Holder(p)'
  BY <1>3 DEF Holder, Inside
<1>9. \A p \in Procs : Ack(p)'
  BY <1>1, <1>4 DEF IInv, Ack, Created
<1> QED
  BY <1>1, <1>5, <1>6, <1>7, <1>8, <1>9 DEF IInv

LEMMA InitInv == Init => IInv
<1> SUFFICES ASSUME Init PROVE IInv
  OBVIOUS
<1>1. TypeOK
  <2>1. path \in [Procs -> Paths] /\ moves \in 0..MaxMoves /\ faults \in 0..MaxFaults
    BY NameAssumption, BoundAssumption DEF Init
  <2>2. call \in [Procs -> Calls] /\ pc \in [Procs -> Locations] /\ result \in [Procs -> Results]
    BY DEF Init, Calls, Locations, Results
  <2> QED
    BY <2>1, <2>2, NoRootType DEF Init, TypeOK
<1>2. LockInv /\ RootInv
  BY DEF Init, LockInv, RootInv, Locked, Inside, NoRoot
<1>3. \A p \in Procs : Holder(p) /\ Ack(p)
  BY DEF Init, Holder, Ack, Inside
<1>4. \A d \in disk : Unique(d)
  BY NoRootType DEF Init
<1> QED
  BY <1>1, <1>2, <1>3, <1>4 DEF IInv

LEMMA UnchangedInv == ASSUME IInv, UNCHANGED vars PROVE IInv'
BY DEF vars, callVars, IInv, TypeOK, LockInv, RootInv, Holder, Ack, Base, Unrecorded, Foreign,
       Created

LEMMA NextInv == ASSUME IInv, Next PROVE IInv'
<1>1. CASE \E p \in Procs, c \in Calls, a \in Paths : Start(p, c, a)
  BY <1>1, StartStep
<1>2. ASSUME NEW p \in Procs, Step(p) PROVE IInv'
  BY <1>2, PreflightStep, LockHomeStep, OpenRootStep, ArmStep, ProbeStep, ScanStep, StageStep,
     FinalProbeStep, LinkStep, SyncStep, RereadStep, CommitStep, AbortStep, UndoStep, PresentStep,
     ContainersStep
  DEF Step
<1>3. CASE \E p \in Procs : Kill(p)
  BY <1>3, KillInside, KillOutside
<1>4. CASE \E a \in Paths, n \in Nodes \cup {None} : Move(a, n)
  BY <1>4, MoveStep
<1>5. CASE PowerCut \/ Over
  BY <1>5, PowerCutStep, UnchangedInv DEF Over
<1> QED
  BY <1>1, <1>2, <1>3, <1>4, <1>5 DEF Next

\* Every reachable state satisfies the inductive invariant.
THEOREM Invariant == Spec => []IInv
<1>1. Init => IInv
  BY InitInv
<1>2. IInv /\ [Next]_vars => IInv'
  BY NextInv, UnchangedInv
<1> QED
  BY <1>1, <1>2, PTL DEF Spec

\* The variables keep their types.
THEOREM TypeCorrect == Spec => []TypeOK
<1>1. IInv => TypeOK
  BY DEF IInv
<1> QED
  BY <1>1, Invariant, PTL

\* No repository is ever recorded under two paths, whatever a power cut leaves.
THEOREM OneRecordCorrect == Spec => []OneRecordPerRepository
<1>1. IInv => OneRecordPerRepository
  BY DEF IInv, Unique, OneRecordPerRepository
<1> QED
  BY <1>1, Invariant, PTL

\* An init that reported success survives every power cut.
THEOREM AckedDurableCorrect == Spec => []AckedDurable
<1>1. IInv => AckedDurable
  BY DEF IInv, Ack, AckedDurable
<1> QED
  BY <1>1, Invariant, PTL

\* How an init ends that is refused after it has got the lock.
LEMMA RefusedStep ==
  ASSUME IInv, Next, NEW p \in Procs, pc[p] \notin {"new", "preflight", "done"}, pc'[p] = "done",
         call[p] = "init", result'[p] \in Refusals
  PROVE  fs' = found[p] \/ (result'[p] = "error" /\ fs'.records[path[p]] = node[p])
<1> USE DEF Refusals
<1>1. pc[p] \in Locations
  BY DEF IInv, TypeOK
<1>2. ASSUME NEW q \in Procs, Step(q) PROVE q = p
  <2>1. SUFFICES ASSUME q # p PROVE pc'[p] = pc[p]
    OBVIOUS
  <2> QED
    BY <1>2, <2>1
    DEF IInv, TypeOK, Step, Preflight, LockHome, OpenRoot, Arm, Probe, Scan, Stage, FinalProbe,
        Link, Sync, Reread, CommitRecord, Abort, Undo, Present, Containers, Look, Goto, Back,
        Finish
<1>3. Step(p)
  <2>1. ASSUME NEW q \in Procs, NEW c \in Calls, NEW a \in Paths, Start(q, c, a) PROVE FALSE
    BY <2>1 DEF Start, Goto, IInv, TypeOK
  <2>2. ASSUME NEW q \in Procs, Kill(q) PROVE FALSE
    BY <2>2 DEF Kill, Finish, IInv, TypeOK
  <2>3. ASSUME NEW a \in Paths, NEW n \in Nodes \cup {None}, Move(a, n) PROVE FALSE
    BY <2>3 DEF Move
  <2>4. ~PowerCut
    BY <1>1 DEF PowerCut, Locations
  <2>5. ~Over
    BY DEF Over, vars
  <2> QED
    BY <1>2, <2>1, <2>2, <2>3, <2>4, <2>5 DEF Next
<1>4. /\ \A to : Goto(p, to) => to = "done"
      /\ \A to, code : Back(p, to, code) => to = "done"
      /\ \A code : Finish(p, code) => result'[p] = code
  BY Leads
<1>5. CASE OpenRoot(p)
  BY <1>4, <1>5 DEF OpenRoot, Registry, SameFs, IInv, Holder
<1>6. CASE CommitRecord(p)
  <2>1. fs' = fs /\ result'[p] = "error" /\ fs.records[path[p]] = node[p]
    BY <1>4, <1>6 DEF CommitRecord, SyncHome, SameFs, IInv, Holder
  <2> QED
    BY <2>1
<1>7. CASE Undo(p)
  <2>1. pc[p] = "undo" /\ node[p] # None /\ path[p] \in Paths /\ result'[p] # "cleanup_failed"
    BY <1>7 DEF Undo, IInv, TypeOK, RootInv
  <2>2. /\ result'[p] = result[p]
        /\ (Created(p) /\ Empty(fs) /\ fs' = NoRoot) \/ (~Created(p) /\ fs' = fs)
    BY <1>4, <1>7, <2>1 DEF Undo, Change, SameFs
  <2> QED
    BY <2>1, <2>2 DEF IInv, Holder, Base, Empty, Inside
<1>8. CASE Abort(p)
  BY <1>4, <1>8 DEF Abort, IInv, Holder
<1>9. CASE \/ Arm(p) \/ Probe(p) \/ Scan(p) \/ Stage(p) \/ FinalProbe(p) \/ Link(p)
           \/ Sync(p) \/ Reread(p)
  BY <1>4, <1>9 DEF Arm, Probe, Scan, Stage, FinalProbe, Link, Sync, Reread, Look, Registry
<1>10. CASE Preflight(p) \/ LockHome(p) \/ Present(p) \/ Containers(p)
  BY <1>10 DEF Preflight, LockHome, Present, Containers, IInv, TypeOK, Holder
<1> QED
  BY <1>3, <1>5, <1>6, <1>7, <1>8, <1>9, <1>10 DEF Step

\* An init that is refused leaves the registry as it found it, wherever it failed.
THEOREM RefusedAsFoundCorrect == Spec => RefusedAsFound
<1>1. ASSUME IInv, [Next]_vars, NEW p \in Procs, pc[p] \notin {"new", "preflight", "done"},
             pc'[p] = "done", call[p] = "init", result'[p] \in Refusals
      PROVE  fs' = found[p] \/ (result'[p] = "error" /\ fs'.records[path[p]] = node[p])
  BY <1>1, RefusedStep DEF vars
<1>2. IInv /\ [Next]_vars =>
        [\A p \in Procs :
           /\ pc[p] \notin {"new", "preflight", "done"} /\ pc'[p] = "done"
           /\ call[p] = "init" /\ result'[p] \in Refusals
           => \/ fs' = found[p]
              \/ result'[p] = "error" /\ fs'.records[path[p]] = node[p]]_vars
  BY <1>1
<1> QED
  BY <1>2, Invariant, PTL DEF Spec, RefusedAsFound

(***************************************************************************)
(* Who has the lock.                                                       *)
(***************************************************************************)
\* The lock is free, or its holder is alive and at a step that is made under it.
HeldByRunner == home = None \/ (home \in Procs /\ pc[home] \in Locked)

LEMMA LockedRuns ==
  Locked \subseteq Running /\ {"new", "preflight", "home", "done"} \cap Locked = {}
BY DEF Locked, Inside, Running

\* A step of p that leaves the lock alone, and p under it if p has it; or p is through.
Keeps(p) ==
  /\ \A q \in Procs \ {p} : pc'[q] = pc[q]
  /\ \/ home' = home /\ (pc[p] \in Locked => pc'[p] \in Locked)
     \/ home' = (IF home = p THEN None ELSE home)

LEMMA KeepsHeld ==
  ASSUME TypeOK, HeldByRunner, NEW p \in Procs, Keeps(p)
  PROVE  HeldByRunner'
BY NameAssumption DEF HeldByRunner, Keeps, TypeOK

LEMMA KeepMoves ==
  ASSUME TypeOK, NEW p \in Procs
  PROVE  /\ \A code : Finish(p, code) => Keeps(p)
         /\ \A to \in Locked : Goto(p, to) => Keeps(p)
         /\ \A to \in Locked : \A code : Back(p, to, code) => Keeps(p)
         /\ \A to : Goto(p, to) /\ pc[p] \notin Locked => Keeps(p)
BY DEF Finish, Release, Goto, Back, Keeps, TypeOK

LEMMA LookKeeps ==
  ASSUME TypeOK, NEW p \in Procs, NEW at, NEW ok, NEW to \in Locked, NEW back \in Locked,
         NEW code, Look(p, at, ok, to, back, code)
  PROVE  Keeps(p)
BY KeepMoves DEF Look

LEMMA StepHeld ==
  ASSUME TypeOK, HeldByRunner, NEW p \in Procs, Step(p)
  PROVE  HeldByRunner'
<1>1. /\ {"arm", "probe", "scan", "stage", "final", "link"} \subseteq Locked
      /\ {"sync", "reread", "commit", "abort", "withdraw", "undo", "present", "containers"}
           \subseteq Locked
      /\ Registry(p) \in Locked
  BY DEF Locked, Inside, Registry
<1>2. CASE LockHome(p)
  BY <1>2 DEF LockHome, HeldByRunner, Locked, TypeOK
<1>3. CASE Preflight(p)
  BY <1>3, KeepMoves, KeepsHeld, LockedRuns DEF Preflight
<1>4. CASE OpenRoot(p)
  BY <1>1, <1>4, KeepMoves, KeepsHeld DEF OpenRoot
<1>5. CASE Arm(p) \/ Probe(p) \/ FinalProbe(p) \/ Reread(p)
  <2>1. CASE \E ok \in BOOLEAN :
               \/ Look(p, "arm", ok, Registry(p), "undo", "error")
               \/ Look(p, "probe", ok, "scan", "undo", "drift")
               \/ Look(p, "final", ok, "link", "abort", "drift")
               \/ Look(p, "reread", ok, "commit", "undo", "error")
    BY <1>1, <2>1, LookKeeps, KeepsHeld
  <2>2. CASE Finish(p, "cleanup_failed")
    BY <2>2, KeepMoves, KeepsHeld
  <2>3. Seen(p) \in BOOLEAN /\ (Recorded(p) = node[p]) \in BOOLEAN
    BY DEF Seen
  <2> QED
    BY <1>5, <2>1, <2>2, <2>3 DEF Arm, Probe, FinalProbe, Reread
<1>6. CASE Scan(p)
  BY <1>1, <1>6, KeepMoves, KeepsHeld DEF Scan
<1>7. CASE Stage(p) \/ Link(p) \/ Sync(p)
  BY <1>1, <1>7, KeepMoves, KeepsHeld DEF Stage, Link, Sync
<1>8. CASE CommitRecord(p) \/ Abort(p) \/ Undo(p) \/ Present(p) \/ Containers(p)
  BY <1>1, <1>8, KeepMoves, KeepsHeld DEF CommitRecord, Abort, Undo, Present, Containers
<1> QED
  BY <1>2, <1>3, <1>4, <1>5, <1>6, <1>7, <1>8 DEF Step

\* The lock on HOME is never left with a call that has ended, failed, been killed or gone
\* down with the machine: whoever has it is at one of the steps that are made under it
\* (StateRoot::drop, and the kernel's flock).
THEOREM HeldByRunnerCorrect == Spec => []HeldByRunner
<1>1. Init => HeldByRunner
  BY DEF Init, HeldByRunner
<1>2. TypeOK /\ HeldByRunner /\ [Next]_vars => HeldByRunner'
  <2> SUFFICES ASSUME TypeOK, HeldByRunner, [Next]_vars PROVE HeldByRunner'
    OBVIOUS
  <2>1. ASSUME NEW p \in Procs, NEW c \in Calls, NEW a \in Paths, Start(p, c, a)
        PROVE  HeldByRunner'
    BY <2>1, KeepMoves, KeepsHeld, LockedRuns DEF Start
  <2>2. ASSUME NEW p \in Procs, Kill(p) PROVE HeldByRunner'
    BY <2>2, KeepMoves, KeepsHeld DEF Kill
  <2>3. CASE PowerCut
    BY <2>3 DEF PowerCut, HeldByRunner
  <2>4. ASSUME NEW a \in Paths, NEW n \in Nodes \cup {None}, Move(a, n) PROVE HeldByRunner'
    BY <2>4 DEF Move, HeldByRunner
  <2>5. CASE UNCHANGED vars
    BY <2>5 DEF HeldByRunner, vars
  <2> QED
    BY <2>1, <2>2, <2>3, <2>4, <2>5, StepHeld DEF Next, Over
<1> QED
  BY <1>1, <1>2, TypeCorrect, PTL DEF Spec
=============================================================================
