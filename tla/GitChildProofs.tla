---------------------------- MODULE GitChildProofs ----------------------------
(***************************************************************************)
(* Theorems about GitChild, for any descendants, pipes, limits, timeouts   *)
(* and faults.                                                             *)
(***************************************************************************)
EXTENDS GitChild, TLAPS

(***************************************************************************)
(* The inductive invariant.                                                *)
(***************************************************************************)
\* Where the owner is says how the call goes, and a child that was waited for ends it.
PlaceInv ==
  /\ result = "none" <=> pc \notin Cleanup \cup {"done"}
  /\ pc \in Cleanup => result \in {"failed", "unclean"}
  /\ leader = "reaped" => pc = "done"
  /\ pc = "wait" => mode = "direct"
  /\ mode = "direct" => holders = {} /\ seen = Pipes /\ pc \in Cleanup \cup {"wait", "done"}

\* The child runs, and leads its group, until its exit.
LeaderInv == IF leader = "running" THEN Leader \in grouped ELSE Leader \notin alive

\* A pipe whose end was seen is empty, and nobody can fill it again.
SeenInv == \A p \in seen : holders = {} /\ buf[p] = 0

\* The owner gives the group up only when there is nothing left that it could end there.
GroupInv ==
  /\ observed => leader # "running"
  /\ ~group /\ mode # "direct" /\ pc # "done" =>
       /\ leader = "lost" /\ pc \in Cleanup
       /\ PipesClosed \/ (~observed /\ (pc = "cleanup" \/ result = "unclean"))
  /\ pc = "terminate" /\ mode # "direct" => group

\* After the group was killed, or when nobody holds a pipe.
EndedInv ==
  pc \in {"drain", "clean"} /\ result = "failed" /\ mode # "direct" => holders \cap grouped = {}

IInv ==
  /\ TypeOK /\ PlaceInv /\ LeaderInv /\ SeenInv /\ GroupInv /\ EndedInv
  /\ OutputWhole /\ NeverAstray /\ FailureCleansUp

(***************************************************************************)
(* Lemmas.                                                                 *)
(***************************************************************************)
LEMMA MinType ==
  ASSUME NEW m \in Nat, NEW n \in Nat
  PROVE  Min({m, n}) \in Nat /\ Min({m, n}) <= m /\ Min({m, n}) <= n
<1>1. \E x \in {m, n} : \A y \in {m, n} : x <= y
  OBVIOUS
<1> QED
  BY <1>1 DEF Min

LEMMA NeedType ==
  Max({Answer, 1}) \in Nat /\ 1 \in 0..Max({Answer, 1}) /\ Answer \in 0..Max({Answer, 1})
<1>1. Answer \in Nat \ {0}
  BY SizeAssumption
<1>2. \E x \in {Answer, 1} : \A y \in {Answer, 1} : x >= y
  BY <1>1
<1>3. Max({Answer, 1}) \in {Answer, 1} /\ \A y \in {Answer, 1} : Max({Answer, 1}) >= y
  BY <1>2 DEF Max
<1> QED
  BY <1>1, <1>3

\* The numbers that steps assign.
LEMMA Numbers ==
  ASSUME TypeOK
  PROVE  /\ Closed \in 0..Closed /\ Capacity \in Nat \ {0} /\ MaxPending \in Nat /\ Deadline \in 0..IdleTime
         /\ Off \in 0..Off /\ GraceTime \in 0..Off /\ GraceTime # Off /\ CleanupTime \in 0..CleanupTime
         /\ Request \in 0..Request
         /\ \A n \in Nat : Less(n) \in 0..n
         /\ \A p \in Pipes : Retained(p) \in [Pipes -> 0..Limit]
         /\ [p \in Pipes |-> Min({kept[p] + buf[p], Limit})] \in [Pipes -> 0..Limit]
         /\ \A ps : Emptied(ps) \in [Pipes -> 0..Capacity] /\ \A p \in Pipes : p \in ps => Emptied(ps)[p] = 0
<1> USE SizeAssumption DEF TypeOK
<1>1. Deadline \in 0..IdleTime
  BY MinType DEF Deadline
<1>2. \A p \in Pipes : Min({kept[p] + buf[p], Limit}) \in 0..Limit
  BY MinType DEF Pipes
<1>3. \A ps : Emptied(ps) \in [Pipes -> 0..Capacity] /\ \A p \in Pipes : p \in ps => Emptied(ps)[p] = 0
  BY DEF Emptied
<1>4. \A p \in Pipes : Retained(p) \in [Pipes -> 0..Limit]
  BY <1>2 DEF Retained
<1>5. \A n \in Nat : Less(n) \in 0..n
  BY DEF Less
<1> QED
  BY <1>1, <1>2, <1>3, <1>4, <1>5 DEF Closed, Off

LEMMA FaultType == ASSUME TypeOK, Fault \/ UNCHANGED faults PROVE faults' \in 0..MaxFaults
BY SizeAssumption DEF Fault, TypeOK

\* A round of reading sees the end of the pipes it has emptied, when nobody holds them.
LEMMA SeenStep ==
  ASSUME TypeOK, SeenInv, NEW ps \in SUBSET Pipes, UNCHANGED holders,
         seen' \in {seen, SeenAfter(ps)}, buf' \in [Pipes -> 0..Capacity],
         \A p \in Pipes : IF p \in ps THEN buf'[p] = 0 ELSE buf'[p] = buf[p] \/ p \notin seen
  PROVE  SeenInv' /\ seen' \subseteq Pipes
BY DEF SeenInv, SeenAfter, TypeOK

(***************************************************************************)
(* The calls on a stream and a capture.                                    *)
(***************************************************************************)
\* A step of the owner before cleanup, after which it goes on or fails.
LEMMA CallStep ==
  ASSUME IInv, pc \notin Cleanup \cup {"wait", "done"},
         \/ pc' \in Calls \cup Capturing /\ UNCHANGED result
         \/ Fail,
         UNCHANGED <<mode, processVars, waitVars>>, TypeOK', SeenInv',
         seen \subseteq seen'
  PROVE  IInv'
<1> USE DEF IInv, processVars, waitVars, Fail, Calls, Capturing, Cleanup
<1>1. PlaceInv' /\ LeaderInv'
  BY DEF PlaceInv, LeaderInv
<1>2. GroupInv'
  BY DEF GroupInv, PlaceInv
<1>3. EndedInv' /\ OutputWhole' /\ NeverAstray' /\ FailureCleansUp'
  BY DEF EndedInv, OutputWhole, NeverAstray, FailureCleansUp
<1> QED
  BY <1>1, <1>2, <1>3

LEMMA BetweenStep == ASSUME IInv, Between PROVE IInv'
<1> USE DEF Between, outputVars, timeVars, processVars, waitVars
<1>1. TypeOK'
  BY Numbers, NeedType, SizeAssumption
  DEF IInv, TypeOK, Fail, Goto, Locations, Calls, Capturing, Cleanup
<1>2. SeenInv'
  BY DEF IInv, SeenInv
<1>3. (pc' \in Calls \cup Capturing /\ UNCHANGED result) \/ Fail
  BY DEF Goto, Calls, Capturing
<1> QED
  BY <1>1, <1>2, <1>3, CallStep DEF Cleanup

LEMMA WriteStep == ASSUME IInv, Write PROVE IInv'
<1>1. /\ pc = "write" /\ UNCHANGED <<mode, need, hard, grace, cleaning, processVars, waitVars>>
      /\ faults' \in 0..MaxFaults
  BY FaultType DEF Write, IInv
<1>2. /\ (pc' \in {"write", "read"} /\ UNCHANGED result) \/ Fail
      /\ left' \in {left, Deadline}
  BY DEF Write, WaitWrite, Goto, Progress, Fail
<1>3. stdin' \in 0..Closed /\ want' \in 0..Request
  BY Numbers DEF Write, WaitWrite, IInv, TypeOK, Closed
<1>4. pending' \in 0..MaxPending
  <2>1. buf["out"] \in Nat /\ pending \in 0..MaxPending /\ MaxPending \in Nat
    BY Numbers DEF IInv, TypeOK, Pipes
  <2> QED
    BY <2>1 DEF Write, WaitWrite, outputVars
<1>5. PICK ps \in SUBSET Pipes :
        \/ UNCHANGED <<buf, kept, seen>>
        \/ buf' = Emptied(ps) /\ kept' = Retained("err") /\ seen' = SeenAfter(ps)
  BY DEF Write, WaitWrite, DrainErr, outputVars, Pipes
<1>6. buf' \in [Pipes -> 0..Capacity] /\ kept' \in [Pipes -> 0..Limit]
  BY <1>5, Numbers DEF IInv, TypeOK, Pipes
<1>7. SeenInv' /\ seen' \subseteq Pipes /\ seen \subseteq seen'
  <2>1. UNCHANGED holders
    BY <1>1 DEF processVars
  <2>2. CASE UNCHANGED <<buf, kept, seen>>
    BY <2>1, <2>2 DEF IInv, TypeOK, SeenInv
  <2>3. CASE buf' = Emptied(ps) /\ seen' = SeenAfter(ps)
    <3>1. \A p \in Pipes : IF p \in ps THEN buf'[p] = 0 ELSE buf'[p] = buf[p]
      BY <2>3 DEF Emptied
    <3>2. seen \subseteq seen'
      BY <2>3 DEF SeenAfter
    <3> QED
      BY <1>6, <2>1, <2>3, <3>1, <3>2, SeenStep DEF IInv
  <2> QED
    BY <1>5, <2>2, <2>3
<1>8. TypeOK'
  BY <1>1, <1>2, <1>3, <1>4, <1>6, <1>7, Numbers
  DEF IInv, TypeOK, processVars, waitVars, Fail, Locations, Calls, Cleanup
<1> QED
  BY <1>1, <1>2, <1>7, <1>8, CallStep DEF Cleanup, Calls

LEMMA ReadStep == ASSUME IInv, Read PROVE IInv'
<1>1. /\ pc = "read" /\ UNCHANGED <<mode, want, stdin, hard, grace, cleaning, processVars, waitVars>>
      /\ faults' \in 0..MaxFaults
  BY FaultType DEF Read, IInv
<1>2. /\ (pc' \in {"read", "between", "out"} /\ UNCHANGED result) \/ Fail
      /\ left' \in {left, Deadline}
  BY DEF Read, Goto, Progress, Fail
<1>3. pending' \in 0..MaxPending /\ need' \in 0..Max({Answer, 1})
  <2> DEFINE most == Max({Answer, 1})
  <2>1. pending \in 0..MaxPending /\ MaxPending \in Nat /\ need \in 0..most
    BY Numbers DEF IInv, TypeOK
  <2>2. most \in Nat
    BY NeedType
  <2>3. pending' \in {pending, pending - 1} /\ (pending' # pending => pending > 0)
    BY DEF Read, outputVars
  <2>4. need' \in {need, need - 1} /\ (need' # need => need > 0)
    BY DEF Read
  <2> HIDE DEF most
  <2>5. need' \in 0..most
    BY <2>1, <2>2, <2>4
  <2>6. pending' \in 0..MaxPending
    BY <2>1, <2>3
  <2> QED
    BY <2>5, <2>6 DEF most
<1>4. PICK ps \in SUBSET Pipes :
        /\ kept' \in {kept, Retained("err")} /\ seen' \in {seen, SeenAfter(ps)}
        /\ buf' \in [Pipes -> 0..Capacity]
        /\ \A p \in Pipes : IF p \in ps THEN buf'[p] = 0 ELSE buf'[p] = buf[p] \/ buf[p] > 0
  <2> USE DEF Read, outputVars, Pipes, IInv, TypeOK
  <2>1. CASE UNCHANGED <<buf, kept, seen>>
    <3> WITNESS {} \in SUBSET Pipes
    <3> QED
      BY <2>1
  <2>2. CASE /\ buf' = [buf EXCEPT !["out"] = @ - 1, !["err"] = 0] /\ buf["out"] > 0
             /\ kept' = Retained("err") /\ seen' = SeenAfter({"err"})
    <3> WITNESS {"err"} \in SUBSET Pipes
    <3> QED
      BY <2>2, Numbers
  <2>3. CASE DrainErr({})
    <3> WITNESS {"err"} \in SUBSET Pipes
    <3> QED
      BY <2>3, Numbers DEF DrainErr, Emptied
  <2>4. CASE buf["out"] = 0 /\ holders = {} /\ seen' = seen \cup {"out"} /\ UNCHANGED <<buf, kept>>
    <3> WITNESS {"out"} \in SUBSET Pipes
    <3> QED
      BY <2>4 DEF SeenAfter
  <2> QED
    BY <2>1, <2>2, <2>3, <2>4
<1>5. SeenInv' /\ seen' \subseteq Pipes /\ seen \subseteq seen'
  <2>1. UNCHANGED holders
    BY <1>1 DEF processVars
  <2>2. \A p \in Pipes : buf[p] > 0 => p \notin seen
    BY DEF IInv, SeenInv, TypeOK
  <2>3. seen \subseteq seen'
    BY <1>4 DEF SeenAfter
  <2> QED
    BY <1>4, <2>1, <2>2, <2>3, SeenStep DEF IInv
<1>6. TypeOK'
  BY <1>1, <1>2, <1>3, <1>4, <1>5, Numbers
  DEF IInv, TypeOK, processVars, waitVars, Fail, Locations, Calls, Capturing, Cleanup, Pipes
<1> QED
  BY <1>1, <1>2, <1>5, <1>6, CallStep DEF Cleanup, Calls, Capturing

LEMMA DrainStep ==
  ASSUME IInv, NEW p \in Pipes, NEW to \in {"err", "observe"}, Drain(p, to)
  PROVE  IInv'
<1>1. /\ pc = p /\ UNCHANGED <<callVars, stdin, pending, timeVars, processVars, waitVars>>
      /\ faults' \in 0..MaxFaults
  BY FaultType DEF Drain, IInv
<1>2. (pc' = to /\ UNCHANGED result) \/ Fail
  BY DEF Drain, Goto
<1>3. \/ UNCHANGED <<buf, kept, seen>>
      \/ buf' = Emptied({p}) /\ kept' = Retained(p) /\ seen' = SeenAfter({p})
  BY DEF Drain
<1>4. buf' \in [Pipes -> 0..Capacity] /\ kept' \in [Pipes -> 0..Limit]
  BY <1>3, Numbers DEF IInv, TypeOK
<1>5. SeenInv' /\ seen' \subseteq Pipes /\ seen \subseteq seen'
  <2>1. UNCHANGED holders
    BY <1>1 DEF processVars
  <2>2. CASE UNCHANGED <<buf, kept, seen>>
    BY <2>1, <2>2 DEF IInv, TypeOK, SeenInv
  <2>3. CASE buf' = Emptied({p}) /\ seen' = SeenAfter({p})
    <3>1. \A q \in Pipes : IF q \in {p} THEN buf'[q] = 0 ELSE buf'[q] = buf[q]
      BY <2>3 DEF Emptied
    <3>2. seen \subseteq seen'
      BY <2>3 DEF SeenAfter
    <3> QED
      BY <1>4, <2>1, <2>3, <3>1, <3>2, SeenStep DEF IInv
  <2> QED
    BY <1>3, <2>2, <2>3
<1>6. TypeOK'
  BY <1>1, <1>2, <1>4, <1>5
  DEF IInv, TypeOK, callVars, timeVars, processVars, waitVars, Fail, Locations, Capturing, Cleanup
<1> QED
  BY <1>1, <1>2, <1>5, <1>6, CallStep DEF Cleanup, Capturing, Pipes, callVars

(***************************************************************************)
(* Waiting, and the ends of a capture.                                     *)
(***************************************************************************)
LEMMA ObserveStep == ASSUME IInv, Observe PROVE IInv'
<1> USE DEF Observe, ObserveTo, Goto, Fail, callVars, outputVars, processVars, IInv
<1>1. CASE observed \/ leader = "exited"
  <2>1. /\ observed' = TRUE /\ pc' = "reap" /\ grace' \in {grace, GraceTime}
        /\ UNCHANGED <<group, result>>
    BY <1>1
  <2>2. TypeOK'
    BY <2>1, Numbers DEF TypeOK, Locations, Capturing
  <2>3. PlaceInv' /\ LeaderInv' /\ SeenInv' /\ EndedInv' /\ OutputWhole' /\ NeverAstray' /\ FailureCleansUp'
    BY <2>1
    DEF PlaceInv, LeaderInv, SeenInv, EndedInv, OutputWhole, NeverAstray, FailureCleansUp,
        Cleanup
  <2>4. GroupInv'
    BY <1>1, <2>1 DEF GroupInv, PlaceInv, Cleanup
  <2> QED
    BY <2>2, <2>3, <2>4
<1>2. CASE ~observed /\ leader = "running"
  <2>1. pc' = "reap" /\ UNCHANGED <<grace, observed, group, result>>
    BY <1>2
  <2>2. TypeOK'
    BY <2>1 DEF TypeOK, Locations, Capturing
  <2>3. PlaceInv' /\ LeaderInv' /\ SeenInv' /\ EndedInv' /\ OutputWhole' /\ NeverAstray' /\ FailureCleansUp'
    BY <2>1
    DEF PlaceInv, LeaderInv, SeenInv, EndedInv, OutputWhole, NeverAstray, FailureCleansUp,
        Cleanup
  <2>4. GroupInv'
    BY <2>1 DEF GroupInv, Cleanup
  <2> QED
    BY <2>2, <2>3, <2>4
<1>3. CASE ~observed /\ leader = "lost"
  <2>1. pc' = "cleanup" /\ result' = "failed" /\ group' = FALSE /\ UNCHANGED <<grace, observed>>
    BY <1>3
  <2>2. TypeOK'
    BY <2>1 DEF TypeOK, Locations, Cleanup
  <2>3. PlaceInv' /\ LeaderInv' /\ SeenInv' /\ EndedInv' /\ OutputWhole' /\ NeverAstray' /\ FailureCleansUp'
    BY <2>1
    DEF PlaceInv, LeaderInv, SeenInv, EndedInv, OutputWhole, NeverAstray, FailureCleansUp,
        Cleanup
  <2>4. GroupInv'
    BY <1>3, <2>1 DEF GroupInv, Cleanup
  <2> QED
    BY <2>2, <2>3, <2>4
<1>4. leader # "reaped"
  BY DEF PlaceInv
<1> QED
  BY <1>1, <1>2, <1>3, <1>4 DEF TypeOK

\* Success is told where both pipes have ended and the child has, too.
LEMMA ReapStep == ASSUME IInv, Reap PROVE IInv'
<1> USE DEF Reap, Goto, Fail, Finish, callVars, outputVars, timeVars, IInv
<1>1. CASE (~PipesClosed \/ leader = "running") /\ Goto("check") /\ UNCHANGED <<leader, group>>
  <2>1. TypeOK'
    BY <1>1 DEF TypeOK, Locations, Capturing
  <2>2. PlaceInv' /\ LeaderInv' /\ SeenInv' /\ EndedInv' /\ OutputWhole' /\ NeverAstray' /\ FailureCleansUp'
    BY <1>1
    DEF PlaceInv, LeaderInv, SeenInv, EndedInv, OutputWhole, NeverAstray, FailureCleansUp,
        Cleanup
  <2>3. GroupInv'
    BY <1>1 DEF GroupInv, Cleanup
  <2> QED
    BY <2>1, <2>2, <2>3
<1>2. CASE PipesClosed /\ leader = "exited" /\ Finish("ok") /\ leader' = "reaped" /\ group' = FALSE
  <2>1. TypeOK'
    BY <1>2 DEF TypeOK, Locations
  <2>2. PlaceInv' /\ LeaderInv' /\ SeenInv' /\ EndedInv' /\ NeverAstray' /\ FailureCleansUp'
    BY <1>2 DEF PlaceInv, LeaderInv, SeenInv, EndedInv, NeverAstray, FailureCleansUp, Cleanup
  <2>3. GroupInv'
    BY <1>2 DEF GroupInv
  <2>4. OutputWhole'
    BY <1>2 DEF SeenInv, PipesClosed, Pipes, OutputWhole
  <2> QED
    BY <2>1, <2>2, <2>3, <2>4
<1>3. CASE PipesClosed /\ leader = "lost" /\ Fail /\ group' = FALSE /\ UNCHANGED leader
  <2>1. TypeOK'
    BY <1>3 DEF TypeOK, Locations, Cleanup
  <2>2. PlaceInv' /\ LeaderInv' /\ SeenInv' /\ EndedInv' /\ OutputWhole' /\ NeverAstray' /\ FailureCleansUp'
    BY <1>3
    DEF PlaceInv, LeaderInv, SeenInv, EndedInv, OutputWhole, NeverAstray, FailureCleansUp,
        Cleanup
  <2>3. GroupInv'
    BY <1>3 DEF GroupInv, Cleanup, PipesClosed
  <2> QED
    BY <2>1, <2>2, <2>3
<1>4. leader # "reaped"
  BY DEF PlaceInv
<1> QED
  BY <1>1, <1>2, <1>3, <1>4 DEF TypeOK

LEMMA CheckTimeStep == ASSUME IInv, CheckTime PROVE IInv'
<1> USE DEF CheckTime, callVars, outputVars, timeVars, processVars, waitVars
<1>1. (pc' = "out" /\ UNCHANGED result) \/ Fail
  BY DEF Goto
<1>2. TypeOK' /\ SeenInv'
  BY <1>1 DEF IInv, TypeOK, SeenInv, Fail, Locations, Capturing, Cleanup
<1> QED
  BY <1>1, <1>2, CallStep DEF Cleanup, Capturing

LEMMA WaitDirectStep == ASSUME IInv, WaitDirect PROVE IInv'
<1> USE DEF WaitDirect, callVars, outputVars, timeVars, IInv
<1>1. /\ pc = "wait" /\ mode = "direct" /\ holders = {} /\ seen = Pipes
      /\ faults' \in 0..MaxFaults
  BY FaultType DEF PlaceInv
<1>2. \/ pc' = "done" /\ result' = "ok" /\ leader' = "reaped" /\ UNCHANGED group
      \/ pc' = "done" /\ result' = "unclean" /\ leader' = leader /\ leader = "lost" /\ group' = FALSE
      \/ pc' = "cleanup" /\ result' = "failed" /\ UNCHANGED <<leader, group>>
  BY DEF Finish, Fail
<1>3. TypeOK'
  BY <1>1, <1>2 DEF TypeOK, Locations, Cleanup
<1>4. PlaceInv' /\ LeaderInv' /\ SeenInv'
  BY <1>1, <1>2 DEF PlaceInv, LeaderInv, SeenInv, Cleanup
<1>5. GroupInv' /\ EndedInv' /\ NeverAstray' /\ FailureCleansUp'
  BY <1>1, <1>2 DEF GroupInv, EndedInv, NeverAstray, FailureCleansUp
<1>6. OutputWhole'
  BY <1>1, <1>2 DEF SeenInv, OutputWhole
<1> QED
  BY <1>3, <1>4, <1>5, <1>6

(***************************************************************************)
(* Cleanup.                                                                *)
(***************************************************************************)
\* The group is there to be ended, or needs no ending, or the failure says that it may be left.
LEMMA StartCleanupStep == ASSUME IInv, StartCleanup PROVE IInv'
<1> USE DEF StartCleanup, ObserveTo, Goto, Unclean, callVars, outputVars, processVars, IInv
<1>1. PICK to \in {"terminate", "drain"} :
        \/ /\ observed \/ leader = "exited"
           /\ pc' = to /\ observed' = TRUE /\ UNCHANGED <<group, result>>
           /\ to = (IF PipesClosed THEN "drain" ELSE "terminate")
        \/ /\ ~observed /\ leader = "running" /\ pc' = to /\ to = "terminate"
           /\ UNCHANGED <<observed, group, result>>
        \/ /\ ~observed /\ leader = "lost" /\ pc' = to /\ to = "drain"
           /\ result' = "unclean" /\ group' = FALSE /\ UNCHANGED observed
  BY DEF PlaceInv, TypeOK, Cleanup
<1>2. TypeOK'
  BY <1>1, Numbers DEF TypeOK, Locations, Cleanup
<1>3. PlaceInv' /\ LeaderInv'
  BY <1>1 DEF PlaceInv, LeaderInv, Cleanup
<1>4. SeenInv' /\ OutputWhole' /\ NeverAstray' /\ FailureCleansUp'
  BY <1>1 DEF SeenInv, OutputWhole, NeverAstray, FailureCleansUp
<1>5. EndedInv'
  BY <1>1 DEF SeenInv, EndedInv, PipesClosed, Pipes
<1>6. GroupInv'
  BY <1>1 DEF GroupInv, PlaceInv, PipesClosed, Cleanup
<1> QED
  BY <1>2, <1>3, <1>4, <1>5, <1>6

LEMMA TerminateStep == ASSUME IInv, Terminate PROVE IInv'
<1> DEFINE killed == IF mode = "direct" THEN {Leader} ELSE grouped
           ended  == IF mode = "direct" THEN leader = "running" ELSE group
<1> USE DEF Terminate, Goto, Unclean, callVars, outputVars, timeVars, IInv
<1>1. leader # "reaped" /\ result \in {"failed", "unclean"} /\ pc = "terminate" /\ faults' \in 0..MaxFaults
  BY FaultType DEF PlaceInv, Cleanup
<1>2. CASE /\ ended /\ pc' = "drain" /\ UNCHANGED result
           /\ alive' = alive \ killed /\ holders' = holders \ killed /\ grouped' = grouped \ killed
           /\ leader' = (IF leader = "running" THEN "exited" ELSE leader)
           /\ astray' = (astray \/ leader = "reaped")
  <2>1. TypeOK'
    BY <1>1, <1>2 DEF TypeOK, Locations, Cleanup
  <2>2. PlaceInv' /\ LeaderInv' /\ SeenInv'
    BY <1>1, <1>2 DEF PlaceInv, LeaderInv, SeenInv, Cleanup
  <2>3. GroupInv' /\ OutputWhole' /\ NeverAstray' /\ FailureCleansUp'
    BY <1>1, <1>2 DEF GroupInv, OutputWhole, NeverAstray, FailureCleansUp, PipesClosed, Cleanup
  <2>4. EndedInv'
    BY <1>2 DEF EndedInv
  <2> QED
    BY <2>1, <2>2, <2>3, <2>4
<1>3. CASE /\ pc' = "drain" /\ UNCHANGED <<processVars, astray>>
           /\ (~ended /\ UNCHANGED result) \/ result' = "unclean"
  <2>1. TypeOK'
    BY <1>1, <1>3 DEF TypeOK, Locations, Cleanup, processVars
  <2>2. PlaceInv' /\ LeaderInv' /\ SeenInv'
    BY <1>1, <1>3 DEF PlaceInv, LeaderInv, SeenInv, Cleanup, processVars
  <2>3. GroupInv' /\ OutputWhole' /\ NeverAstray' /\ FailureCleansUp'
    BY <1>1, <1>3
    DEF GroupInv, OutputWhole, NeverAstray, FailureCleansUp, PipesClosed, Cleanup, processVars
  <2>4. EndedInv'
    BY <1>1, <1>3 DEF EndedInv, GroupInv
  <2> QED
    BY <2>1, <2>2, <2>3, <2>4
<1> QED
  BY <1>2, <1>3

LEMMA DrainAllStep == ASSUME IInv, DrainAll PROVE IInv'
<1> USE DEF DrainAll, Goto, Unclean, callVars, timeVars, processVars, waitVars, IInv
<1>1. /\ pc = "drain" /\ pc' = "clean" /\ result' \in {result, "unclean"} /\ faults' \in 0..MaxFaults
      /\ seen \subseteq seen'
  BY FaultType DEF SeenAfter
<1>2. buf' \in [Pipes -> 0..Capacity] /\ kept' \in [Pipes -> 0..Limit] /\ \A p \in Pipes : buf'[p] = 0
  BY Numbers
<1>3. SeenInv' /\ seen' \subseteq Pipes
  BY <1>2, SeenStep
<1>4. TypeOK'
  BY <1>1, <1>2, <1>3 DEF TypeOK, Locations, Cleanup
<1>5. PlaceInv' /\ LeaderInv'
  BY <1>1, <1>3 DEF PlaceInv, LeaderInv, TypeOK, Cleanup
<1>6. GroupInv' /\ EndedInv' /\ OutputWhole' /\ NeverAstray' /\ FailureCleansUp'
  BY <1>1, <1>3
  DEF GroupInv, EndedInv, OutputWhole, NeverAstray, FailureCleansUp, PipesClosed, TypeOK, Cleanup
<1> QED
  BY <1>3, <1>4, <1>5, <1>6

LEMMA CleanStep == ASSUME IInv, Clean PROVE IInv'
<1> USE DEF Clean, Goto, Finish, callVars, outputVars, timeVars, IInv
<1>1. pc = "clean" /\ result \in {"failed", "unclean"} /\ leader # "reaped"
  BY DEF PlaceInv, Cleanup
<1>2. \/ leader = "exited" /\ pc' = "done" /\ leader' = "reaped" /\ UNCHANGED result
      \/ leader \in {"lost", "running"} /\ pc' = "done" /\ result' = "unclean" /\ UNCHANGED leader
      \/ leader = "running" /\ pc' = "drain" /\ UNCHANGED <<leader, result>>
  <2>1. cleaning \in Nat
    BY SizeAssumption DEF TypeOK
  <2>2. CASE leader = "exited"
    BY <2>2
  <2>3. CASE leader = "lost"
    BY <2>3
  <2>4. CASE leader = "running" /\ cleaning = 0
    BY <2>4
  <2>5. CASE leader = "running" /\ cleaning # 0
    <3>1. cleaning > 0
      BY <2>1, <2>5
    <3> QED
      BY <2>5, <3>1
  <2> QED
    BY <1>1, <2>2, <2>3, <2>4, <2>5 DEF TypeOK
<1>3. group' \in BOOLEAN /\ (pc' # "done" => group' = group)
  BY DEF TypeOK
<1>4. TypeOK'
  BY <1>2, <1>3 DEF TypeOK, Locations, Cleanup
<1>5. PlaceInv' /\ LeaderInv' /\ SeenInv'
  BY <1>1, <1>2 DEF PlaceInv, LeaderInv, SeenInv, Cleanup
<1>6. GroupInv' /\ EndedInv' /\ OutputWhole' /\ NeverAstray'
  BY <1>1, <1>2, <1>3 DEF GroupInv, EndedInv, OutputWhole, NeverAstray, PipesClosed, Cleanup
<1>7. FailureCleansUp'
  BY <1>1, <1>2 DEF EndedInv, FailureCleansUp
<1> QED
  BY <1>4, <1>5, <1>6, <1>7

(***************************************************************************)
(* Everybody else.                                                         *)
(***************************************************************************)
LEMMA OutputStep == ASSUME IInv, NEW p \in Pipes, Output(p) PROVE IInv'
<1> USE DEF Output, callVars, timeVars, processVars, waitVars, IInv
<1>1. TypeOK'
  BY SizeAssumption DEF TypeOK
<1>2. SeenInv'
  BY DEF SeenInv
<1>3. PlaceInv' /\ LeaderInv' /\ GroupInv' /\ EndedInv' /\ NeverAstray' /\ FailureCleansUp' /\ OutputWhole'
  BY DEF PlaceInv, LeaderInv, GroupInv, EndedInv, NeverAstray, FailureCleansUp, OutputWhole,
         PipesClosed
<1> QED
  BY <1>1, <1>2, <1>3

LEMMA InputStep == ASSUME IInv, Input PROVE IInv'
<1> USE DEF Input, callVars, outputVars, timeVars, processVars, waitVars, IInv
<1>1. TypeOK'
  BY SizeAssumption DEF TypeOK, Closed
<1>2. /\ PlaceInv' /\ LeaderInv' /\ SeenInv' /\ GroupInv' /\ EndedInv' /\ NeverAstray' /\ FailureCleansUp'
      /\ OutputWhole'
  BY DEF PlaceInv, LeaderInv, SeenInv, GroupInv, EndedInv, NeverAstray, FailureCleansUp,
         OutputWhole, PipesClosed
<1> QED
  BY <1>1, <1>2

LEMMA ProcessStep == ASSUME IInv, Process PROVE IInv'
<1> USE DEF Process, callVars, outputVars, timeVars, waitVars, IInv
<1>1. /\ pc # "done" /\ faults' \in 0..MaxFaults
      /\ alive' \subseteq alive /\ holders' \subseteq holders /\ grouped' \subseteq grouped
      /\ grouped' \subseteq alive' /\ holders' \subseteq alive'
  BY FaultType DEF Quit, CloseOutput, Escape, Lose, TypeOK
<1>2. /\ LeaderInv'
      /\ \/ UNCHANGED leader
         \/ leader = "running" /\ leader' = "exited"
         \/ leader = "exited" /\ leader' = "lost"
  BY DEF Quit, CloseOutput, Escape, Lose, TypeOK, LeaderInv
<1>3. TypeOK'
  BY <1>1, <1>2 DEF TypeOK
<1>4. PlaceInv' /\ SeenInv'
  BY <1>1, <1>2 DEF PlaceInv, SeenInv
<1>5. GroupInv'
  BY <1>2 DEF GroupInv, PipesClosed
<1>6. EndedInv' /\ OutputWhole' /\ NeverAstray' /\ FailureCleansUp'
  BY <1>1 DEF EndedInv, OutputWhole, NeverAstray, FailureCleansUp
<1> QED
  BY <1>2, <1>3, <1>4, <1>5, <1>6

LEMMA TickStep == ASSUME IInv, Tick PROVE IInv'
<1> USE DEF Tick, callVars, outputVars, processVars, waitVars, IInv
<1>1. TypeOK'
  <2>1. \A m, n \in Nat : n \in 0..m => Less(n) \in 0..m
    BY DEF Less
  <2>2. left' \in 0..IdleTime /\ hard' \in 0..HardTime /\ cleaning' \in 0..CleanupTime
    BY <2>1, SizeAssumption DEF TypeOK
  <2>3. grace' \in 0..Off
    BY <2>1, SizeAssumption DEF TypeOK, Off
  <2> QED
    BY <2>2, <2>3 DEF TypeOK
<1>2. /\ PlaceInv' /\ LeaderInv' /\ SeenInv' /\ GroupInv' /\ EndedInv' /\ NeverAstray'
      /\ FailureCleansUp' /\ OutputWhole'
  BY DEF PlaceInv, LeaderInv, SeenInv, GroupInv, EndedInv, NeverAstray, FailureCleansUp,
         OutputWhole, PipesClosed
<1> QED
  BY <1>1, <1>2

LEMMA StutterStep == ASSUME IInv, UNCHANGED vars PROVE IInv'
BY DEF vars, callVars, outputVars, timeVars, processVars, waitVars, IInv, TypeOK, PlaceInv,
       LeaderInv, SeenInv, GroupInv, EndedInv, NeverAstray, FailureCleansUp, OutputWhole,
       PipesClosed

(***************************************************************************)
(* Theorems.                                                               *)
(***************************************************************************)
LEMMA InitInv == ASSUME Init PROVE IInv
<1> USE DEF Init
<1>1. pc \in {"out", "wait", "between"} /\ (pc = "wait" <=> mode = "direct") /\ result = "none"
  OBVIOUS
<1>2. TypeOK
  <2>1. stdin \in 0..Closed /\ grace \in 0..Off /\ cleaning \in 0..CleanupTime /\ faults \in 0..MaxFaults
    BY SizeAssumption DEF Closed, Off
  <2>2. want \in 0..Request /\ pending \in 0..MaxPending /\ left \in 0..IdleTime /\ hard \in 0..HardTime
    BY SizeAssumption
  <2>3. buf \in [Pipes -> 0..Capacity] /\ kept \in [Pipes -> 0..Limit]
    BY SizeAssumption
  <2>4. need \in 0..Max({Answer, 1})
    BY NeedType
  <2> QED
    BY <1>1, <2>1, <2>2, <2>3, <2>4 DEF TypeOK, Locations, Calls, Capturing
<1>3. PlaceInv /\ LeaderInv /\ SeenInv
  BY <1>1 DEF PlaceInv, LeaderInv, SeenInv, Cleanup, Pipes
<1>4. GroupInv /\ EndedInv /\ NeverAstray /\ FailureCleansUp /\ OutputWhole
  BY <1>1 DEF GroupInv, EndedInv, NeverAstray, FailureCleansUp, OutputWhole
<1> QED
  BY <1>2, <1>3, <1>4 DEF IInv

LEMMA NextInv == ASSUME IInv, [Next]_vars PROVE IInv'
<1>1. CASE Owner
  <2>1. CASE \E p \in Pipes : \E to \in {"err", "observe"} : Drain(p, to)
    BY <2>1, DrainStep
  <2> QED
    BY <1>1, <2>1, BetweenStep, WriteStep, ReadStep, ObserveStep, ReapStep, CheckTimeStep,
       StartCleanupStep, TerminateStep, DrainAllStep, CleanStep, WaitDirectStep DEF Owner, Pipes
<1>2. CASE \E p \in Pipes : Output(p)
  BY <1>2, OutputStep
<1>3. CASE Input
  BY <1>3, InputStep
<1>4. CASE Process
  BY <1>4, ProcessStep
<1>5. CASE Tick
  BY <1>5, TickStep
<1>6. CASE UNCHANGED vars
  BY <1>6, StutterStep
<1> QED
  BY <1>1, <1>2, <1>3, <1>4, <1>5, <1>6 DEF Next, Over

\* The inductive invariant holds of every child and its owner.
THEOREM Invariant == Spec => []IInv
<1>1. Init => IInv
  BY InitInv
<1>2. IInv /\ [Next]_vars => IInv'
  BY NextInv
<1> QED
  BY <1>1, <1>2, PTL DEF Spec

\* What is buffered and retained of the output keeps to its limits, and so does the rest of the state.
THEOREM TypeCorrect == Spec => []TypeOK
<1>1. IInv => TypeOK
  BY DEF IInv
<1> QED
  BY <1>1, Invariant, PTL

\* capture hands over output only when nobody is left to add to it.
THEOREM OutputWholeCorrect == Spec => []OutputWhole
<1>1. IInv => OutputWhole
  BY DEF IInv
<1> QED
  BY <1>1, Invariant, PTL

\* cleanup never signals a group whose leader was waited for.
THEOREM NeverAstrayCorrect == Spec => []NeverAstray
<1>1. IInv => NeverAstray
  BY DEF IInv
<1> QED
  BY <1>1, Invariant, PTL

\* A plain failure leaves no child to wait for and no writer in its group.
THEOREM FailureCleansUpCorrect == Spec => []FailureCleansUp
<1>1. IInv => FailureCleansUp
  BY DEF IInv
<1> QED
  BY <1>1, Invariant, PTL
=============================================================================
