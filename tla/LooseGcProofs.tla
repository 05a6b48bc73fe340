---------------------------- MODULE LooseGcProofs ----------------------------
(***************************************************************************)
(* Theorems about LooseGc, for any finite set of objects, any fanouts, and *)
(* any number of steps of git and of faults.                               *)
(***************************************************************************)
EXTENDS LooseGc, FiniteSetTheorems, TLAPS

(***************************************************************************)
(* The inductive invariant.                                                *)
(***************************************************************************)
\* Files are numbered in the order in which they come up, and never again.
NumberInv ==
  /\ files <= 2 * Cardinality(Objects) + env
  /\ \A x \in Objects : priv[x] <= files /\ auth[x] <= files /\ pending[x] <= files
  /\ \A x, y \in Objects : pending[x] # 0 => /\ pending[x] # priv[y] /\ pending[x] # auth[y]
                                             /\ pending[x] = pending[y] => x = y
  /\ \A r \in reported : r[2] # 0 /\ r[2] <= files

\* Of the object in hand there is another copy, or the owner has been told that there is not.
Held(x) == x \in packed \cup stored \cup pruned \/ Identical(x)

GcInv ==
  /\ gc.pc \in {"verify", "compared", "unlink", "sync"} => gc.at \in Objects
  /\ gc.pc \in {"compared", "unlink"} =>
       gc.plan.auth[gc.at] # 0 /\ gc.plan.auth[gc.at] \notin torn
  /\ gc.pc = "unlink" => Held(gc.at)
  /\ gc.pc = "sync" => pending[gc.at] # 0

IInv == TypeOK /\ NumberInv /\ GcInv /\ OwnKept /\ ReportedGone

\* The number of objects is one.
LEMMA ObjectsNat == Cardinality(Objects) \in Nat
BY NameAssumption, FS_CardinalityType

\* No job is in hand when gc has ended.
LEMMA EndedType ==
  ASSUME NEW code \in Outcomes
  PROVE  Ended(code) \in Jobs /\ Ended(code).pc = code
BY ObjectsNat, BoundAssumption DEF Ended, Jobs, Locations, Plans, NoPlan, Files

(***************************************************************************)
(* The steps of gc.                                                        *)
(***************************************************************************)
\* Where gc gets to while nothing else changes.
LEMMA QuietStep ==
  ASSUME IInv, Quiet, faults' \in 0..MaxFaults, gc' \in Jobs, GcInv'
  PROVE  IInv'
<1> USE DEF Quiet, store
<1>1. TypeOK'
  BY DEF IInv, TypeOK
<1>2. NumberInv'
  BY DEF IInv, NumberInv
<1>3. OwnKept'
  BY DEF IInv, OwnKept, Readable
<1>4. ReportedGone'
  BY DEF IInv, ReportedGone
<1> QED
  BY <1>1, <1>2, <1>3, <1>4 DEF IInv

\* A comparison that fails ends gc.
LEMMA CheckStep ==
  ASSUME IInv, NEW from, NEW STATE ok, NEW STATE next, Check(from, ok, next),
         ok /\ gc.pc = from /\ gc' = next => gc' \in Jobs /\ GcInv'
  PROVE  IInv'
<1>1. faults' \in 0..MaxFaults /\ Quiet
  BY DEF Check, IInv, TypeOK
<1>2. CASE ok
  BY <1>1, <1>2, QuietStep DEF Check
<1>3. CASE ~ok
  <2>1. gc' \in Jobs /\ gc'.pc = "error"
    BY <1>3, EndedType DEF Check, Outcomes
  <2>2. GcInv'
    BY <2>1 DEF GcInv
  <2> QED
    BY <1>1, <2>1, <2>2, QuietStep
<1> QED
  BY <1>2, <1>3

\* gc goes on with what it has in hand.
LEMMA AtFacts ==
  ASSUME gc \in Jobs, NEW to \in Locations
  PROVE  /\ At(to, gc) \in Jobs /\ At(to, gc).pc = to
         /\ At(to, gc).plan = gc.plan /\ At(to, gc).at = gc.at
BY DEF At, Jobs

\* A comparison that succeeds is followed by another location, with the same job.
LEMMA MoveStep ==
  ASSUME IInv, NEW from, NEW STATE ok, NEW to \in Locations, Check(from, ok, At(to, gc)),
         ok /\ gc.pc = from /\ gc'.pc = to /\ gc'.plan = gc.plan /\ gc'.at = gc.at /\ Quiet
           => GcInv'
  PROVE  IInv'
<1>1. gc \in Jobs
  BY DEF IInv, TypeOK
<1>2. ok /\ gc.pc = from /\ gc' = At(to, gc) => gc' \in Jobs /\ GcInv'
  BY <1>1, AtFacts DEF Check
<1> QED
  BY <1>2, CheckStep

LEMMA StartStep == ASSUME IInv, Start PROVE IInv'
<1>1. gc' \in Jobs /\ gc'.pc = "census"
  BY AtFacts DEF Start, IInv, TypeOK, Locations, Running
<1>2. GcInv'
  BY <1>1 DEF GcInv
<1> QED
  BY <1>1, <1>2, QuietStep DEF Start, IInv, TypeOK

\* What is classified is a plan.
LEMMA CensusStep == ASSUME IInv, Census PROVE IInv'
<1>1. Classified \in Plans
  BY DEF Classified, Plans, Loose, IInv, TypeOK
<1>2. [gc EXCEPT !.pc = "lease", !.plan = Classified] \in Jobs
  BY <1>1 DEF IInv, TypeOK, Jobs, Locations, Running
<1>3. [gc EXCEPT !.pc = "lease", !.plan = Classified].pc = "lease"
  BY DEF IInv, TypeOK, Jobs
<1>4. gc' = [gc EXCEPT !.pc = "lease", !.plan = Classified] => GcInv'
  BY <1>3 DEF GcInv
<1> QED
  BY <1>2, <1>4, CheckStep DEF Census

LEMMA LeaseStep == ASSUME IInv, Lease PROVE IInv'
<1>1. CASE Check("lease", Classified = gc.plan, At("authority", gc))
  BY <1>1, MoveStep DEF GcInv, Locations, Running
<1>2. CASE Check("lease", TRUE, Ended("busy"))
  <2>1. gc' = Ended("busy") => gc' \in Jobs /\ GcInv'
    BY EndedType DEF GcInv, Outcomes
  <2> QED
    BY <1>2, <2>1, CheckStep
<1>3. CASE Check("lease", FALSE, gc)
  BY <1>3, CheckStep
<1> QED
  BY <1>1, <1>2, <1>3 DEF Lease

LEMMA AuthorityStep == ASSUME IInv, Authority PROVE IInv'
BY MoveStep DEF Authority, GcInv, Locations, Running

LEMMA PrivateStep == ASSUME IInv, Private PROVE IInv'
<1> DEFINE next == [gc EXCEPT !.pc = "fanout", !.fans = {f \in Fanouts : PlannedIn(f) # {}}]
<1>1. next \in Jobs /\ next.pc = "fanout"
  BY DEF IInv, TypeOK, Jobs, Locations, Running
<1>2. gc' = next => GcInv'
  BY <1>1 DEF GcInv
<1> QED
  BY <1>1, <1>2, CheckStep DEF Private

LEMMA NextFanoutStep == ASSUME IInv, NextFanout PROVE IInv'
<1>1. CASE Check("fanout", TRUE, Ended("ok"))
  <2>1. gc' = Ended("ok") => gc' \in Jobs /\ GcInv'
    BY EndedType DEF GcInv, Outcomes
  <2> QED
    BY <1>1, <2>1, CheckStep
<1>2. ASSUME NEW f \in gc.fans,
             Check("fanout", In(f) \cap Loose = PlannedIn(f),
                   [gc EXCEPT !.pc = "object", !.fans = @ \ {f}, !.todo = PlannedIn(f)])
      PROVE  IInv'
  <2> DEFINE next == [gc EXCEPT !.pc = "object", !.fans = @ \ {f}, !.todo = PlannedIn(f)]
  <2>1. next \in Jobs /\ next.pc = "object"
    BY DEF IInv, TypeOK, Jobs, Locations, Running, PlannedIn, In
  <2>2. gc' = next => GcInv'
    BY <2>1 DEF GcInv
  <2> QED
    BY <1>2, <2>1, <2>2, CheckStep
<1> QED
  BY <1>1, <1>2 DEF NextFanout

LEMMA NextObjectStep == ASSUME IInv, NextObject PROVE IInv'
<1>1. CASE Check("object", TRUE, At("empty", gc)) /\ gc.todo = {}
  BY <1>1, MoveStep DEF GcInv, Locations, Running
<1>2. ASSUME NEW x \in gc.todo,
             Check("object", Planned(x),
                   [gc EXCEPT !.pc = IF x \in gc.plan.remove THEN "verify" ELSE "object",
                              !.todo = @ \ {x}, !.at = x])
      PROVE  IInv'
  <2> DEFINE next == [gc EXCEPT !.pc = IF x \in gc.plan.remove THEN "verify" ELSE "object",
                                !.todo = @ \ {x}, !.at = x]
  <2>1. next \in Jobs /\ next.pc \in {"verify", "object"} /\ next.at = x /\ x \in Objects
    BY DEF IInv, TypeOK, Jobs, Locations, Running
  <2>2. gc' = next => GcInv'
    BY <2>1 DEF GcInv
  <2> QED
    BY <1>2, <2>1, <2>2, CheckStep
<1> QED
  BY <1>1, <1>2 DEF NextObject

\* What has been compared has a twin that is whole ...
LEMMA VerifyStep == ASSUME IInv, Verify PROVE IInv'
BY MoveStep DEF Verify, IInv, GcInv, Identical, Twin, Quiet, store, Locations, Running

\* ... and it is there still when gc has looked at both names for the last time.
LEMMA ComparedStep == ASSUME IInv, Compared PROVE IInv'
BY MoveStep DEF Compared, IInv, GcInv, Held, Identical, Twin, Quiet, store, Locations, Running

LEMMA EmptyFanoutStep == ASSUME IInv, EmptyFanout PROVE IInv'
<1> DEFINE empty == In(fanout[gc.at]) \cap Loose = {}
<1>1. CASE Check("empty", TRUE, At(IF empty THEN "rmdir" ELSE "fanout", gc))
  <2>1. PICK to \in {"rmdir", "fanout"} : Check("empty", TRUE, At(to, gc))
    BY <1>1
  <2>2. gc.pc = "empty" /\ gc'.pc = to /\ gc'.at = gc.at => GcInv'
    BY DEF IInv, GcInv
  <2> QED
    BY <2>1, <2>2, MoveStep DEF Locations, Running
<1>2. CASE Check("rmdir", empty, At("fanout", gc))
  BY <1>2, MoveStep DEF GcInv, Locations, Running
<1> QED
  BY <1>1, <1>2 DEF EmptyFanout

LEMMA KillStep == ASSUME IInv, Kill PROVE IInv'
<1>1. gc' \in Jobs /\ gc'.pc = "killed" /\ faults' \in 0..MaxFaults
  BY EndedType, BoundAssumption DEF Kill, Fault, Outcomes, IInv, TypeOK
<1>2. GcInv'
  BY <1>1 DEF GcInv
<1> QED
  BY <1>1, <1>2, QuietStep DEF Kill

\* The file goes; another copy is there, or its owner knows.
LEMMA UnlinkStep == ASSUME IInv, Unlink PROVE IInv'
<1>1. CASE Check("unlink", FALSE, gc)
  BY <1>1, CheckStep
<1>2. CASE /\ gc.pc = "unlink" /\ priv[gc.at] # 0
           /\ priv' = [priv EXCEPT ![gc.at] = 0]
           /\ pending' = [pending EXCEPT ![gc.at] = priv[gc.at]]
           /\ gc' = At("sync", gc)
           /\ UNCHANGED <<fanout, packed, auth, stored, torn, kept, own, pruned, files,
                          reported, env, faults>>
  <2>1. PICK y \in Objects : y = gc.at
    BY <1>2 DEF IInv, GcInv
  <2>2. /\ priv' = [priv EXCEPT ![y] = 0] /\ pending' = [pending EXCEPT ![y] = priv[y]]
        /\ priv[y] # 0 /\ Held(y)
    BY <1>2, <2>1 DEF IInv, GcInv
  <2>3. gc' \in Jobs /\ gc'.pc = "sync" /\ gc'.at = y
    BY <1>2, <2>1, AtFacts DEF IInv, TypeOK, Locations, Running
  <2>4. priv' \in [Objects -> Files] /\ pending' \in [Objects -> Files]
    BY <2>2, ObjectsNat, BoundAssumption DEF IInv, TypeOK, Files
  <2>5. /\ priv'[y] = 0 /\ pending'[y] = priv[y]
        /\ \A z \in Objects \ {y} : priv'[z] = priv[z] /\ pending'[z] = pending[z]
    BY <2>2 DEF IInv, TypeOK
  <2>6. TypeOK'
    BY <1>2, <2>3, <2>4, <2>5 DEF IInv, TypeOK
  <2>7. NumberInv'
    <3>1. \A z \in Objects : priv[z] \in Nat /\ auth[z] \in Nat /\ pending[z] \in Nat
      BY ObjectsNat, BoundAssumption DEF IInv, TypeOK, Files
    <3>2. files \in Nat
      BY ObjectsNat, BoundAssumption DEF IInv, TypeOK, Files
    <3>3. \A z, w \in Objects : pending'[z] # 0 => /\ pending'[z] # priv'[w]
                                                   /\ pending'[z] # auth[w]
                                                   /\ pending'[z] = pending'[w] => z = w
      BY <2>2, <2>5 DEF IInv, TypeOK, NumberInv
    <3>4. \A z \in Objects : priv'[z] <= files /\ pending'[z] <= files
      BY <2>5, <3>2 DEF IInv, NumberInv
    <3> QED
      BY <1>2, <3>3, <3>4 DEF IInv, NumberInv
  <2>8. GcInv'
    BY <2>1, <2>2, <2>3, <2>5 DEF GcInv
  <2>9. OwnKept'
    BY <1>2, <2>2, <2>5 DEF IInv, TypeOK, OwnKept, Readable, Held, Identical
  <2>10. ReportedGone'
    <3>1. \A r \in reported : r[1] \in Objects /\ r[2] # 0
      BY DEF IInv, TypeOK, NumberInv
    <3>2. \A r \in reported : priv[r[1]] # r[2] /\ pending[r[1]] # r[2]
      BY DEF IInv, ReportedGone
    <3>3. \A r \in reported : priv'[r[1]] # r[2] /\ pending'[r[1]] # r[2]
      BY <2>5, <3>1, <3>2
    <3> QED
      BY <1>2, <3>3 DEF ReportedGone
  <2> QED
    BY <2>6, <2>7, <2>8, <2>9, <2>10 DEF IInv
<1> QED
  BY <1>1, <1>2 DEF Unlink

\* What has been synced can be reported.
LEMMA SyncStep == ASSUME IInv, Sync PROVE IInv'
<1>1. CASE /\ pending' = [x \in Objects |-> IF fanout[x] = fanout[gc.at] THEN 0 ELSE pending[x]]
           /\ Report
           /\ gc' = At("object", gc) /\ UNCHANGED faults
  <2>1. PICK y \in Objects : y = gc.at /\ pending[y] # 0
    BY DEF Sync, IInv, GcInv
  <2>2. reported' = reported \cup {<<y, pending[y]>>} /\ pending'[y] = 0
    BY <1>1, <2>1 DEF Report
  <2>3. \A z \in Objects : pending'[z] \in {pending[z], 0}
    BY <1>1
  <2>4. gc' \in Jobs /\ gc'.pc = "object"
    BY <1>1, AtFacts DEF IInv, TypeOK, Locations, Running
  <2>5. UNCHANGED <<store, env, faults>>
    BY <1>1 DEF Sync
  <2>6. pending' \in [Objects -> Files]
    BY <1>1, ObjectsNat, BoundAssumption DEF IInv, TypeOK, Files
  <2>7. TypeOK'
    BY <2>2, <2>4, <2>5, <2>6 DEF IInv, TypeOK, store
  <2>8. NumberInv'
    <3>1. files \in Nat /\ \A z \in Objects : pending[z] \in Nat
      BY ObjectsNat, BoundAssumption DEF IInv, TypeOK, Files
    <3>2. \A r \in reported' : r[2] # 0 /\ r[2] <= files
      BY <2>1, <2>2 DEF IInv, NumberInv
    <3>3. \A z \in Objects : pending'[z] <= files
      BY <2>3, <3>1 DEF IInv, NumberInv
    <3> QED
      BY <2>3, <2>5, <3>2, <3>3 DEF IInv, NumberInv, store
  <2>9. GcInv'
    BY <2>4 DEF GcInv
  <2>10. OwnKept'
    BY <2>5 DEF IInv, OwnKept, Readable, store
  <2>11. ReportedGone'
    <3>1. \A r \in reported : r[1] \in Objects /\ r[2] # 0
      BY DEF IInv, TypeOK, NumberInv
    <3>2. priv[y] # pending[y]
      BY <2>1 DEF IInv, NumberInv
    <3> QED
      BY <2>1, <2>2, <2>3, <2>5, <3>1, <3>2 DEF IInv, ReportedGone, store
  <2> QED
    BY <2>7, <2>8, <2>9, <2>10, <2>11 DEF IInv
<1>2. CASE Fault /\ gc' = Ended("error") /\ UNCHANGED <<pending, reported>>
  <2>1. gc' \in Jobs /\ gc'.pc = "error" /\ faults' \in 0..MaxFaults
    BY <1>2, EndedType, BoundAssumption DEF Fault, Outcomes, IInv, TypeOK
  <2>2. GcInv'
    BY <2>1 DEF GcInv
  <2> QED
    BY <1>2, <2>1, <2>2, QuietStep DEF Sync, Quiet
<1> QED
  BY <1>1, <1>2 DEF Sync

\* A power cut brings back what was not reported.
LEMMA PowerCutStep == ASSUME IInv, PowerCut PROVE IInv'
<1>1. PICK back \in SUBSET {x \in Objects : pending[x] # 0 /\ priv[x] = 0} :
        priv' = [x \in Objects |-> IF x \in back THEN pending[x] ELSE priv[x]]
  BY DEF PowerCut
<1>2. /\ pending' = [x \in Objects |-> 0] /\ faults' \in 0..MaxFaults
      /\ UNCHANGED <<fanout, packed, auth, stored, torn, kept, own, pruned, files, reported, env>>
  BY BoundAssumption DEF PowerCut, Fault, IInv, TypeOK
<1>3. gc' \in Jobs /\ gc'.pc \in Outcomes
  BY EndedType DEF PowerCut, Outcomes, IInv, TypeOK, Jobs, Locations
<1>4. \A x \in Objects : priv'[x] = priv[x] \/ (pending[x] # 0 /\ priv'[x] = pending[x])
  BY <1>1
<1>5. TypeOK'
  <2>1. priv' \in [Objects -> Files] /\ pending' \in [Objects -> Files]
    BY <1>1, <1>2, ObjectsNat, BoundAssumption DEF IInv, TypeOK, Files
  <2>2. \A x, y \in Objects : priv'[x] # 0 => priv'[x] # auth[y] /\ (priv'[x] = priv'[y] => x = y)
    BY <1>4 DEF IInv, TypeOK, NumberInv
  <2> QED
    BY <1>2, <1>3, <2>1, <2>2 DEF IInv, TypeOK
<1>6. NumberInv'
  <2>1. files \in Nat
    BY ObjectsNat, BoundAssumption DEF IInv, TypeOK, Files
  <2> QED
    BY <1>2, <1>4, <2>1 DEF IInv, NumberInv
<1>7. GcInv'
  BY <1>3 DEF GcInv, Outcomes
<1>8. OwnKept'
  <2>1. \A x \in Objects : priv[x] # 0 => priv'[x] # 0
    BY <1>4
  <2> QED
    BY <1>2, <2>1 DEF IInv, TypeOK, OwnKept, Readable
<1>9. ReportedGone'
  <2>1. \A r \in reported : r[1] \in Objects /\ r[2] # 0
    BY DEF IInv, TypeOK, NumberInv
  <2> QED
    BY <1>2, <1>4, <2>1 DEF IInv, ReportedGone
<1> QED
  BY <1>5, <1>6, <1>7, <1>8, <1>9 DEF IInv

(***************************************************************************)
(* The steps of git.                                                       *)
(***************************************************************************)
\* What git leaves alone, and how far it can count.
LEMMA GitFacts ==
  ASSUME IInv, Git
  PROVE  /\ UNCHANGED <<gc, pending, reported, faults, fanout, torn>>
         /\ env \in Nat /\ env' = env + 1 /\ env' \in 0..MaxEnv
         /\ files \in Nat /\ files <= 2 * Cardinality(Objects) + env
         /\ \A n \in Nat : n <= files + 1 => n \in Files
         /\ \A x \in Objects : priv[x] \in Nat /\ auth[x] \in Nat /\ pending[x] \in Nat
BY ObjectsNat, BoundAssumption DEF Git, gcVars, IInv, TypeOK, NumberInv, Files

\* A file that comes up has a number nobody has had.
LEMMA WriteStep == ASSUME IInv, NEW x \in Objects, Write(x) PROVE IInv'
<1> USE DEF Write
<1>1. /\ UNCHANGED <<gc, pending, reported, faults, fanout, torn>>
      /\ env \in Nat /\ env' = env + 1 /\ env' \in 0..MaxEnv
      /\ files \in Nat /\ files <= 2 * Cardinality(Objects) + env
      /\ files + 1 \in Files
      /\ \A z \in Objects : priv[z] \in Nat /\ auth[z] \in Nat /\ pending[z] \in Nat
  BY GitFacts
<1>2. files' = files + 1 /\ priv' = [priv EXCEPT ![x] = files + 1] /\ own' = own \cup {x}
  BY DEF NewFile
<1>3. priv'[x] = files + 1 /\ \A z \in Objects \ {x} : priv'[z] = priv[z]
  BY <1>2 DEF IInv, TypeOK
<1>4. \A z \in Objects : priv[z] <= files /\ auth[z] <= files /\ pending[z] <= files
  BY DEF IInv, NumberInv
<1>5. TypeOK'
  <2>1. priv' \in [Objects -> Files]
    BY <1>1, <1>2 DEF IInv, TypeOK
  <2>2. \A z, y \in Objects : priv'[z] # 0 => priv'[z] # auth[y] /\ (priv'[z] = priv'[y] => z = y)
    BY <1>1, <1>3, <1>4 DEF IInv, TypeOK
  <2> QED
    BY <1>1, <1>2, <2>1, <2>2 DEF IInv, TypeOK
<1>6. NumberInv'
  <2>1. files' <= 2 * Cardinality(Objects) + env'
    BY <1>1, <1>2, ObjectsNat
  <2>2. \A z \in Objects : priv'[z] <= files' /\ auth[z] <= files' /\ pending[z] <= files'
    BY <1>1, <1>2, <1>3, <1>4
  <2>3. \A z, y \in Objects : pending[z] # 0 => /\ pending[z] # priv'[y] /\ pending[z] # auth[y]
                                                /\ pending[z] = pending[y] => z = y
    BY <1>1, <1>3, <1>4 DEF IInv, NumberInv
  <2>4. \A r \in reported : r[2] # 0 /\ r[2] <= files'
    <3>1. \A r \in reported : r[2] \in Nat
      BY ObjectsNat, BoundAssumption DEF IInv, TypeOK, Files
    <3> QED
      BY <1>1, <1>2, <3>1 DEF IInv, NumberInv
  <2> QED
    BY <1>1, <2>1, <2>2, <2>3, <2>4 DEF NumberInv
<1>7. GcInv'
  BY <1>1 DEF IInv, GcInv, Held, Identical
<1>8. OwnKept'
  BY <1>1, <1>2, <1>3 DEF IInv, TypeOK, OwnKept, Readable
<1>9. ReportedGone'
  <2>1. \A r \in reported : r[1] \in Objects /\ r[2] <= files /\ r[2] \in Nat
    BY ObjectsNat, BoundAssumption DEF IInv, TypeOK, NumberInv, Files
  <2> QED
    BY <1>1, <1>3, <2>1 DEF IInv, ReportedGone
<1> QED
  BY <1>5, <1>6, <1>7, <1>8, <1>9 DEF IInv

\* Packing the session's object leaves it readable.
LEMMA PackPrivateStep == ASSUME IInv, NEW x \in Objects, PackPrivate(x) PROVE IInv'
<1> USE DEF PackPrivate
<1>1. /\ UNCHANGED <<gc, pending, reported, faults, fanout, torn>>
      /\ env \in Nat /\ env' = env + 1 /\ env' \in 0..MaxEnv /\ files \in Nat
  BY GitFacts
<1>2. priv'[x] = 0 /\ \A z \in Objects \ {x} : priv'[z] = priv[z]
  BY DEF IInv, TypeOK
<1>3. TypeOK'
  <2>1. priv' \in [Objects -> Files]
    BY ObjectsNat, BoundAssumption DEF IInv, TypeOK, Files
  <2> QED
    BY <1>1, <1>2, <2>1 DEF IInv, TypeOK
<1>4. NumberInv'
  <2>1. files <= 2 * Cardinality(Objects) + env'
    BY <1>1, ObjectsNat DEF IInv, NumberInv
  <2> QED
    BY <1>1, <1>2, <2>1 DEF IInv, NumberInv
<1>5. GcInv'
  BY <1>1 DEF IInv, GcInv, Held, Identical
<1>6. OwnKept'
  BY <1>1, <1>2 DEF IInv, TypeOK, OwnKept, Readable
<1>7. ReportedGone'
  <2>1. \A r \in reported : r[1] \in Objects /\ r[2] # 0
    BY DEF IInv, TypeOK, NumberInv
  <2> QED
    BY <1>1, <1>2, <2>1 DEF IInv, ReportedGone
<1> QED
  BY <1>3, <1>4, <1>5, <1>6, <1>7 DEF IInv

\* An import adds a copy.
LEMMA ImportStep == ASSUME IInv, NEW x \in Objects, Import(x) PROVE IInv'
<1> USE DEF Import
<1>1. /\ UNCHANGED <<gc, pending, reported, faults, fanout, torn>>
      /\ env \in Nat /\ env' = env + 1 /\ env' \in 0..MaxEnv
      /\ files \in Nat /\ files <= 2 * Cardinality(Objects) + env
      /\ files + 1 \in Files /\ files \in Files
      /\ \A z \in Objects : priv[z] \in Nat /\ auth[z] \in Nat /\ pending[z] \in Nat
  BY GitFacts
<1>2. UNCHANGED <<priv, packed, kept, own, pruned>> /\ auth[x] = 0
  OBVIOUS
<1>3. /\ files' \in {files, files + 1} /\ auth' \in [Objects -> Files]
      /\ auth'[x] = 0 \/ (auth'[x] = files + 1 /\ files' = files + 1)
      /\ \A z \in Objects \ {x} : auth'[z] = auth[z]
      /\ stored \subseteq stored' /\ stored' \subseteq Objects
  BY <1>1, <1>2 DEF NewFile, IInv, TypeOK
<1>4. \A z \in Objects : priv[z] <= files /\ auth[z] <= files /\ pending[z] <= files
  BY DEF IInv, NumberInv
<1>5. TypeOK'
  <2>1. \A z, y \in Objects : priv[z] # 0 => priv[z] # auth'[y]
    BY <1>1, <1>3, <1>4 DEF IInv, TypeOK
  <2> QED
    BY <1>1, <1>2, <1>3, <2>1 DEF IInv, TypeOK
<1>6. NumberInv'
  <2>1. files' <= 2 * Cardinality(Objects) + env'
    BY <1>1, <1>3, ObjectsNat
  <2>2. \A z \in Objects : priv[z] <= files' /\ auth'[z] <= files' /\ pending[z] <= files'
    BY <1>1, <1>2, <1>3, <1>4
  <2>3. \A z, y \in Objects : pending[z] # 0 => pending[z] # auth'[y]
    BY <1>1, <1>3, <1>4 DEF IInv, NumberInv
  <2>4. \A r \in reported : r[2] # 0 /\ r[2] <= files'
    <3>1. \A r \in reported : r[2] \in Nat
      BY ObjectsNat, BoundAssumption DEF IInv, TypeOK, Files
    <3> QED
      BY <1>1, <1>3, <3>1 DEF IInv, NumberInv
  <2> QED
    BY <1>1, <1>2, <2>1, <2>2, <2>3, <2>4 DEF IInv, NumberInv
<1>7. GcInv'
  BY <1>1, <1>2, <1>3 DEF IInv, GcInv, Held, Identical
<1>8. OwnKept'
  BY <1>1, <1>2, <1>3 DEF IInv, TypeOK, OwnKept, Readable
<1>9. ReportedGone'
  BY <1>1, <1>2 DEF IInv, ReportedGone
<1> QED
  BY <1>5, <1>6, <1>7, <1>8, <1>9 DEF IInv

\* Branches do not matter to gc.
LEMMA MoveRefStep == ASSUME IInv, NEW x \in Objects, MoveRef(x) PROVE IInv'
<1> USE DEF MoveRef
<1>1. /\ UNCHANGED <<gc, pending, reported, faults, fanout, torn>>
      /\ env \in Nat /\ env' = env + 1 /\ env' \in 0..MaxEnv /\ files \in Nat
  BY GitFacts
<1>2. TypeOK'
  BY <1>1 DEF IInv, TypeOK
<1>3. NumberInv'
  <2>1. files <= 2 * Cardinality(Objects) + env'
    BY <1>1, ObjectsNat DEF IInv, NumberInv
  <2> QED
    BY <1>1, <2>1 DEF IInv, NumberInv
<1>4. GcInv' /\ OwnKept' /\ ReportedGone'
  BY <1>1 DEF IInv, GcInv, Held, Identical, OwnKept, Readable, ReportedGone
<1> QED
  BY <1>2, <1>3, <1>4 DEF IInv

\* Where the owner takes away a loose file, the rest of the invariant does not mind.
LEMMA AuthorityTakes ==
  ASSUME IInv, NEW x \in Objects, Git, UNCHANGED <<priv, packed, own, files>>,
         auth' = auth \/ auth' = [auth EXCEPT ![x] = 0],
         stored' \subseteq Objects, kept' \subseteq Objects, pruned' \subseteq Objects,
         Held(gc.at)' \/ ~Held(gc.at) \/ gc.pc # "unlink",
         OwnKept'
  PROVE  IInv'
<1>1. /\ UNCHANGED <<gc, pending, reported, faults, fanout, torn>>
      /\ env \in Nat /\ env' = env + 1 /\ env' \in 0..MaxEnv /\ files \in Nat
  BY GitFacts
<1>2. auth' \in [Objects -> Files] /\ \A z \in Objects : auth'[z] \in {auth[z], 0}
  BY ObjectsNat, BoundAssumption DEF IInv, TypeOK, Files
<1>3. TypeOK'
  BY <1>1, <1>2 DEF IInv, TypeOK
<1>4. NumberInv'
  <2>1. files <= 2 * Cardinality(Objects) + env'
    BY <1>1, ObjectsNat DEF IInv, NumberInv
  <2>2. \A z \in Objects : auth'[z] <= files
    BY <1>1, <1>2 DEF IInv, NumberInv
  <2> QED
    BY <1>1, <1>2, <2>1, <2>2 DEF IInv, NumberInv
<1>5. GcInv'
  BY <1>1 DEF IInv, GcInv
<1>6. ReportedGone'
  BY <1>1 DEF IInv, ReportedGone
<1> QED
  BY <1>3, <1>4, <1>5, <1>6 DEF IInv

\* A repack puts the object into the pack first.
LEMMA PackAuthorityStep == ASSUME IInv, NEW x \in Objects, PackAuthority(x) PROVE IInv'
<1> USE DEF PackAuthority
<1>1. /\ UNCHANGED <<gc, torn, priv, packed, own, files, pruned, kept>>
      /\ auth' = auth \/ auth' = [auth EXCEPT ![x] = 0]
  BY GitFacts
<1>2. /\ x \in stored' /\ stored \subseteq stored' /\ stored' \subseteq Objects
      /\ \A z \in Objects \ {x} : auth'[z] = auth[z]
  BY DEF IInv, TypeOK
<1>3. gc.pc = "unlink" => gc.at \in Objects
  BY DEF IInv, GcInv
<1>4. Held(gc.at)' \/ ~Held(gc.at) \/ gc.pc # "unlink"
  BY <1>1, <1>2, <1>3 DEF Held, Identical
<1>5. OwnKept'
  BY <1>1, <1>2 DEF IInv, TypeOK, OwnKept, Readable
<1> QED
  BY <1>1, <1>2, <1>4, <1>5, AuthorityTakes DEF IInv, TypeOK

\* A prune is noted where it takes the last copy there is, or that gc counts on.
LEMMA PruneStep == ASSUME IInv, NEW x \in Objects, Prune(x) PROVE IInv'
<1> USE DEF Prune
<1>1. /\ UNCHANGED <<gc, torn, priv, packed, own, files, kept>>
      /\ auth' = [auth EXCEPT ![x] = 0]
  BY GitFacts
<1>2. /\ \A z \in Objects \ {x} : auth'[z] = auth[z] /\ (z \in stored' <=> z \in stored)
      /\ stored' \subseteq Objects /\ pruned \subseteq pruned' /\ pruned' \subseteq Objects
      /\ Borrowed(x) => x \in pruned'
  BY DEF IInv, TypeOK
<1>3. gc.pc = "unlink" => gc.at \in Objects
  BY DEF IInv, GcInv
<1>4. Held(gc.at)' \/ ~Held(gc.at) \/ gc.pc # "unlink"
  BY <1>1, <1>2, <1>3 DEF Held, Identical, Borrowed
<1>5. OwnKept'
  BY <1>1, <1>2 DEF IInv, TypeOK, OwnKept, Readable, Borrowed
<1> QED
  BY <1>1, <1>2, <1>4, <1>5, AuthorityTakes DEF IInv, TypeOK

(***************************************************************************)
(* The theorems.                                                           *)
(***************************************************************************)
LEMMA Inductive == ASSUME IInv, [Next]_vars PROVE IInv'
<1>1. ASSUME UNCHANGED vars PROVE IInv'
  BY <1>1 DEF vars, store, gcVars, IInv, TypeOK, NumberInv, GcInv, Held, Identical, OwnKept,
              Readable, ReportedGone
<1> QED
  BY <1>1, StartStep, CensusStep, LeaseStep, AuthorityStep, PrivateStep, NextFanoutStep,
     NextObjectStep, VerifyStep, ComparedStep, UnlinkStep, SyncStep, EmptyFanoutStep, KillStep,
     PowerCutStep, WriteStep, PackPrivateStep, ImportStep, MoveRefStep, PackAuthorityStep,
     PruneStep
  DEF Next

LEMMA Initially == ASSUME Init PROVE IInv
<1>1. PICK mine \in SUBSET Objects, theirs \in SUBSET Objects,
           number \in [Objects -> 1..Cardinality(Objects)] :
        /\ \A x, y \in Objects : number[x] = number[y] => x = y
        /\ priv = [x \in Objects |-> IF x \in mine THEN number[x] ELSE 0]
        /\ auth = [x \in Objects |-> IF x \in theirs THEN number[x] + Cardinality(Objects) ELSE 0]
        /\ own = mine /\ kept \in SUBSET theirs
        /\ torn \in SUBSET {auth[x] : x \in mine \cap theirs}
  BY DEF Init
<1> DEFINE n == Cardinality(Objects)
<1>2. n \in Nat /\ \A x \in Objects : number[x] \in 1..n
  BY ObjectsNat
<1>3. \A x \in Objects : priv[x] \in 0..n /\ (auth[x] = 0 \/ auth[x] \in (n + 1)..(2 * n))
  BY <1>1, <1>2
<1>4. gc \in Jobs /\ gc.pc = "new"
  BY EndedType DEF Init, Outcomes
<1>5. /\ \A m \in 0..(2 * n) : m \in Files
      /\ 0 \in 0..MaxEnv /\ 0 \in 0..MaxFaults
  BY <1>2, BoundAssumption DEF Files
<1>6. TypeOK
  <2>1. priv \in [Objects -> Files] /\ auth \in [Objects -> Files]
    BY <1>1, <1>2, <1>3, <1>5
  <2>2. \A x, y \in Objects : priv[x] # 0 => priv[x] # auth[y] /\ (priv[x] = priv[y] => x = y)
    BY <1>1, <1>2, <1>3
  <2>3. torn \subseteq Files
    BY <1>1, <2>1
  <2>4. files \in Files /\ pending \in [Objects -> Files]
    BY <1>2, <1>5 DEF Init
  <2> QED
    BY <1>1, <1>4, <1>5, <2>1, <2>2, <2>3, <2>4 DEF Init, TypeOK
<1>7. NumberInv
  BY <1>2, <1>3 DEF Init, NumberInv
<1>8. GcInv
  BY <1>4 DEF GcInv
<1>9. OwnKept
  BY <1>1, <1>2 DEF OwnKept, Readable
<1>10. ReportedGone
  BY DEF Init, ReportedGone
<1> QED
  BY <1>6, <1>7, <1>8, <1>9, <1>10 DEF IInv

\* The invariant always holds.
THEOREM Invariant == Spec => []IInv
BY Initially, Inductive, PTL DEF Spec

\* The variables keep their types, and files in use keep numbers of their own.
THEOREM TypeCorrect == Spec => []TypeOK
<1>1. IInv => TypeOK
  BY DEF IInv
<1> QED
  BY <1>1, Invariant, PTL

\* gc_private_loose never takes what a session had itself out of its reach: whatever git does
\* in the session and in the authority meanwhile, the owner has pruned what is gone.
THEOREM OwnKeptCorrect == Spec => []OwnKept
<1>1. IInv => OwnKept
  BY DEF IInv
<1> QED
  BY <1>1, Invariant, PTL

\* What gc has reported as removed does not come back.
THEOREM ReportedGoneCorrect == Spec => []ReportedGone
<1>1. IInv => ReportedGone
  BY DEF IInv
<1> QED
  BY <1>1, Invariant, PTL
=============================================================================
