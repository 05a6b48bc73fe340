------------------------ MODULE MaterializePoolProofs ------------------------
(***************************************************************************)
(* Theorems about MaterializePool, for any number of entries and workers,  *)
(* any depth of the channels and any number of faults.                     *)
(***************************************************************************)
EXTENDS MaterializePool, FiniteSetTheorems, TLAPS

\* Every entry has a worker.
LEMMA TargetType == \A e \in Nat : Target(e) \in Workers
  BY SizeAssumption DEF Target, Workers

\* The entries are the numbers below N ...
LEMMA EntryNat == \A e : e \in Entries <=> e \in Nat /\ e < N
  BY SizeAssumption DEF Entries

\* ... and the workers those below W.
LEMMA WorkerNat == \A w : w \in Workers <=> w \in Nat /\ w < W
  BY SizeAssumption DEF Workers

(* The invariant is preserved: first by what the dispatcher does.  A descriptor that
   cannot be cloned ends the call before any worker is there. *)
LEMMA CloneRootsStep ==
  ASSUME IInv, CloneRoots
  PROVE  IInv'
<1> USE SizeAssumption DEF IInv, CloneRoots, Fault, mainVars, workerVars,
           Ended, Running
<1>1. TypeOK'
  BY DEF TypeOK, MainSteps
<1>2. MainInv'
  BY DEF MainInv
<1>3. JoinInv'
  BY DEF JoinInv
<1>4. CancelInv'
  BY DEF CancelInv
<1>5. ChannelInv'
  BY DEF ChannelInv
<1>6. EntryInv'
  BY DEF EntryInv, Lost
<1>7. QED
  BY <1>1, <1>2, <1>3, <1>4, <1>5, <1>6

\* A new worker has nothing yet; one that cannot be started sends the call to Unwind.
LEMMA SpawnWorkerStep == ASSUME IInv, SpawnWorker PROVE IInv'
<1> USE SizeAssumption DEF IInv, mainVars, workerVars,
           Ended, Running
<1>1. CASE /\ spawned < W /\ spawned' = spawned + 1
           /\ pc' = [pc EXCEPT ![spawned] = "spawned"]
           /\ UNCHANGED <<main, open, cancelled, faults>>
<2> USE DEF SpawnWorker
<2>1. TypeOK'
  BY <1>1, WorkerNat DEF TypeOK
<2>2. MainInv'
  BY <1>1 DEF TypeOK, MainInv
<2>3. JoinInv'
  BY <1>1, WorkerNat DEF TypeOK, JoinInv
<2>4. CancelInv'
  BY <1>1 DEF TypeOK, JoinInv, CancelInv
<2>5. ChannelInv'
  BY DEF TypeOK, ChannelInv
<2>6. EntryInv'
  BY <1>1 DEF TypeOK, JoinInv, EntryInv, Lost
<2>7. QED
  BY <2>1, <2>2, <2>3, <2>4, <2>5, <2>6
<1>2. CASE /\ spawned < W /\ Fault
           /\ cancelled' = TRUE /\ open' = FALSE /\ main' = "unwind"
           /\ UNCHANGED <<spawned, pc>>
<2> USE DEF SpawnWorker
<2>1. TypeOK'
<3>1. faults' \in Nat
  BY DEF TypeOK, Fault
<3>2. QED
  BY <1>2, <3>1 DEF TypeOK, MainSteps
<2>2. MainInv'
  BY <1>2 DEF MainInv
<2>3. JoinInv'
  BY <1>2 DEF JoinInv
<2>4. CancelInv'
  BY <1>2 DEF CancelInv
<2>5. ChannelInv'
  BY DEF TypeOK, ChannelInv
<2>6. EntryInv'
  BY <1>2 DEF EntryInv, Lost
<2>7. QED
  BY <2>1, <2>2, <2>3, <2>4, <2>5, <2>6
<1>3. CASE /\ spawned = W /\ main' = "dispatch"
           /\ UNCHANGED <<spawned, pc, open, cancelled, faults>>
<2> USE DEF SpawnWorker
<2>1. TypeOK'
  BY <1>3 DEF TypeOK, MainSteps
<2>2. MainInv'
  BY <1>3 DEF MainInv
<2>3. JoinInv'
  BY <1>3 DEF JoinInv
<2>4. CancelInv'
  BY <1>3 DEF CancelInv
<2>5. ChannelInv'
  BY DEF TypeOK, ChannelInv
<2>6. EntryInv'
  BY <1>3 DEF EntryInv, Lost
<2>7. QED
  BY <2>1, <2>2, <2>3, <2>4, <2>5, <2>6
<1>4. QED
  BY <1>1, <1>2, <1>3 DEF SpawnWorker

\* The call has failed; the joins only move past workers that have ended.
LEMMA UnwindStep ==
  ASSUME IInv, Unwind
  PROVE  IInv'
<1> USE SizeAssumption DEF IInv, Unwind, mainVars, workerVars,
           Ended, Running
<1>1. TypeOK'
  BY DEF TypeOK, MainSteps
<1>2. MainInv'
  BY DEF TypeOK, MainInv
<1>3. JoinInv'
  BY WorkerNat DEF TypeOK, JoinInv
<1>4. CancelInv'
  BY DEF CancelInv
<1>5. ChannelInv'
  BY DEF ChannelInv
<1>6. EntryInv'
  BY DEF EntryInv, Lost
<1>7. QED
  BY <1>1, <1>2, <1>3, <1>4, <1>5, <1>6

\* A flag or a deadline that is seen becomes the dispatch failure that CancelInv asks for.
LEMMA CheckBeforeSendStep ==
  ASSUME IInv, CheckBeforeSend
  PROVE  IInv'
<1> USE SizeAssumption DEF IInv, CheckBeforeSend, StopDispatch, mainVars, workerVars,
           Ended, Running
<1>1. TypeOK'
  BY DEF TypeOK, MainSteps
<1>2. MainInv'
  BY DEF MainInv
<1>3. JoinInv'
  BY WorkerNat DEF MainInv, JoinInv
<1>4. CancelInv'
  BY DEF CancelInv
<1>5. ChannelInv'
  BY DEF ChannelInv
<1>6. EntryInv'
  BY DEF EntryInv, Lost
<1>7. QED
  BY <1>1, <1>2, <1>3, <1>4, <1>5, <1>6

\* The entry goes to its own worker's channel, which is alive, or stays, or dispatch fails.
LEMMA TrySendStep == ASSUME IInv, TrySend PROVE IInv'
<1> USE SizeAssumption DEF IInv, mainVars, workerVars,
           Ended, Running
<1> DEFINE w == Target(next)
<1>1. next \in Entries /\ next \in Nat /\ w \in Workers
  BY TargetType, EntryNat DEF TypeOK, MainInv, TrySend
<1>2. CASE /\ pc[w] \in Ended /\ StopDispatch /\ UNCHANGED <<queue, next>>
<2> USE DEF TrySend, StopDispatch
<2>1. TypeOK'
  BY <1>2 DEF TypeOK, MainSteps
<2>2. MainInv'
  BY <1>2 DEF MainInv
<2>3. JoinInv'
  BY WorkerNat DEF MainInv, JoinInv
<2>4. CancelInv'
  BY DEF CancelInv
<2>5. ChannelInv'
  BY <1>2 DEF ChannelInv
<2>6. EntryInv'
  BY <1>2 DEF EntryInv, Lost
<2>7. QED
  BY <2>1, <2>2, <2>3, <2>4, <2>5, <2>6
<1>3. CASE /\ pc[w] \notin Ended /\ main' = "dispatch"
           /\ queue' = [queue EXCEPT ![w] = @ \cup {next}] /\ next' = next + 1
           /\ UNCHANGED <<dispatchFailed, cancelled, open>>
<2> USE DEF TrySend
<2>1. TypeOK'
  BY <1>3, <1>1 DEF TypeOK, MainSteps, MainInv
<2>2. MainInv'
  BY <1>3 DEF MainInv
<2>3. JoinInv'
  BY WorkerNat DEF MainInv, JoinInv
<2>4. CancelInv'
  BY <1>3 DEF CancelInv
<2>5. ChannelInv'
  BY <1>3, EntryNat DEF TypeOK, MainInv, ChannelInv, EntryInv
<2>6. EntryInv'
  BY <1>3, <1>1 DEF TypeOK, EntryInv, Lost
<2>7. QED
  BY <2>1, <2>2, <2>3, <2>4, <2>5, <2>6
<1>4. CASE /\ pc[w] \notin Ended /\ main' = "dispatch"
           /\ UNCHANGED <<queue, next, dispatchFailed, cancelled, open>>
<2> USE DEF TrySend
<2>1. TypeOK'
  BY <1>4 DEF TypeOK, MainSteps
<2>2. MainInv'
  BY <1>4 DEF MainInv
<2>3. JoinInv'
  BY WorkerNat DEF MainInv, JoinInv
<2>4. CancelInv'
  BY <1>4 DEF CancelInv
<2>5. ChannelInv'
  BY <1>4 DEF ChannelInv
<2>6. EntryInv'
  BY <1>4 DEF EntryInv, Lost
<2>7. QED
  BY <2>1, <2>2, <2>3, <2>4, <2>5, <2>6
<1>5. QED
  BY <1>2, <1>3, <1>4 DEF TrySend

\* The senders are dropped after the last entry.
LEMMA DropSendersStep ==
  ASSUME IInv, DropSenders
  PROVE  IInv'
<1> USE SizeAssumption DEF IInv, DropSenders, mainVars, workerVars,
           Ended, Running
<1>1. TypeOK'
  BY DEF TypeOK, MainSteps
<1>2. MainInv'
  BY DEF MainInv
<1>3. JoinInv'
  BY WorkerNat DEF MainInv, JoinInv
<1>4. CancelInv'
  BY DEF CancelInv
<1>5. ChannelInv'
  BY DEF ChannelInv
<1>6. EntryInv'
  BY DEF EntryInv, Lost
<1>7. QED
  BY <1>1, <1>2, <1>3, <1>4, <1>5, <1>6

\* A joined worker that is not done is recorded before the next one is looked at.
LEMMA JoinStep ==
  ASSUME IInv, Join
  PROVE  IInv'
<1> USE SizeAssumption DEF IInv, Join, Reported, mainVars, workerVars,
           Ended, Running
<1>1. TypeOK'
<2>1. materialized' \in Nat
  BY WorkerNat DEF TypeOK
<2>2. joined' \in 0..W
  BY DEF TypeOK
<2>3. QED
  BY <2>1, <2>2 DEF TypeOK, MainSteps
<1>2. MainInv'
  BY DEF TypeOK, MainInv
<1>3. JoinInv'
<2>1. CASE joined < W /\ pc[joined] \in Ended /\ joined' = joined + 1
<3>1. joined \in Workers /\ \A v \in Workers : v < joined + 1 => v < joined \/ v = joined
  BY <2>1, WorkerNat DEF TypeOK
<3>2. workerFailed' = (workerFailed \/ pc[joined] # "done")
  BY <2>1
<3>3. QED
  BY <3>1, <3>2 DEF JoinInv
<2>2. CASE joined = W /\ UNCHANGED joined
  BY <2>2 DEF JoinInv
<2>3. QED
  BY <2>1, <2>2
<1>4. CancelInv'
  BY DEF CancelInv
<1>5. ChannelInv'
  BY DEF TypeOK, ChannelInv
<1>6. EntryInv'
  BY DEF TypeOK, EntryInv, Lost
<1>7. QED
  BY <1>1, <1>2, <1>3, <1>4, <1>5, <1>6

\* What was recorded decides.
LEMMA ReturnStep ==
  ASSUME IInv, Return
  PROVE  IInv'
<1> USE SizeAssumption DEF IInv, Return, mainVars, workerVars,
           Ended, Running
<1>1. TypeOK'
  BY DEF TypeOK, MainSteps
<1>2. MainInv'
  BY DEF MainInv
<1>3. JoinInv'
  BY DEF JoinInv
<1>4. CancelInv'
  BY DEF CancelInv
<1>5. ChannelInv'
  BY DEF ChannelInv
<1>6. EntryInv'
  BY DEF EntryInv, Lost
<1>7. QED
  BY <1>1, <1>2, <1>3, <1>4, <1>5, <1>6

(* Then by what a worker does.  It starts, or it is on its way to the flag. *)
LEMMA BeginStep ==
  ASSUME IInv, NEW w \in Workers, Begin(w)
  PROVE  IInv'
<1> USE SizeAssumption DEF IInv, Begin, Fault, WorkerGoto, mainVars, workerVars,
           Ended, Running
<1>1. TypeOK'
  BY DEF TypeOK
<1>2. MainInv'
  BY DEF MainInv
<1>3. JoinInv'
  BY DEF TypeOK, JoinInv
<1>4. CancelInv'
  BY DEF TypeOK, CancelInv
<1>5. ChannelInv'
  BY DEF TypeOK, ChannelInv
<1>6. EntryInv'
<2>1. \A v \in Workers :
        /\ (pc[v] = "write") = (pc'[v] = "write")
        /\ Lost(v) => Lost(v)'
  BY DEF TypeOK, Lost
<2>2. QED
  BY <2>1, TargetType, EntryNat DEF EntryInv
<1>7. QED
  BY <1>1, <1>2, <1>3, <1>4, <1>5, <1>6

\* A worker that ends because of the flag loses its entries to it.
LEMMA LookStep ==
  ASSUME IInv, NEW w \in Workers, Look(w)
  PROVE  IInv'
<1> USE SizeAssumption DEF IInv, Look, WorkerGoto, mainVars, workerVars,
           Ended, Running
<1>1. TypeOK'
  BY DEF TypeOK
<1>2. MainInv'
  BY DEF MainInv
<1>3. JoinInv'
  BY DEF JoinInv
<1>4. CancelInv'
  BY DEF CancelInv
<1>5. ChannelInv'
  BY DEF ChannelInv
<1>6. EntryInv'
  BY DEF EntryInv, Lost
<1>7. QED
  BY <1>1, <1>2, <1>3, <1>4, <1>5, <1>6

\* An entry moves from the channel to its worker; finding it disconnected, it is empty.
LEMMA ReceiveStep ==
  ASSUME IInv, NEW w \in Workers, Receive(w)
  PROVE  IInv'
<1> USE SizeAssumption DEF IInv, Receive, WorkerGoto, mainVars, workerVars,
           Ended, Running
<1>1. TypeOK'
  BY DEF TypeOK
<1>2. MainInv'
  BY DEF MainInv
<1>3. JoinInv'
  BY DEF TypeOK, JoinInv
<1>4. CancelInv'
  BY DEF TypeOK, CancelInv
<1>5. ChannelInv'
  BY DEF TypeOK, ChannelInv
<1>6. EntryInv'
  BY TargetType, EntryNat DEF TypeOK, EntryInv, Lost
<1>7. QED
  BY <1>1, <1>2, <1>3, <1>4, <1>5, <1>6

\* The entry in hand is written for the first time, or lost with its worker.
LEMMA WriteStep ==
  ASSUME IInv, NEW w \in Workers, Write(w)
  PROVE  IInv'
<1> USE SizeAssumption DEF IInv, Write, Fault, WorkerGoto, mainVars, workerVars,
           Ended, Running
<1>1. TypeOK'
  BY DEF TypeOK
<1>2. MainInv'
  BY DEF MainInv
<1>3. JoinInv'
  BY DEF TypeOK, JoinInv
<1>4. CancelInv'
  BY DEF TypeOK, CancelInv
<1>5. ChannelInv'
  BY DEF TypeOK, ChannelInv
<1>6. EntryInv'
  BY TargetType, EntryNat DEF TypeOK, ChannelInv, EntryInv, Lost
<1>7. QED
  BY <1>1, <1>2, <1>3, <1>4, <1>5, <1>6

\* The git child is waited for.
LEMMA FinishStep ==
  ASSUME IInv, NEW w \in Workers, Finish(w)
  PROVE  IInv'
<1> USE SizeAssumption DEF IInv, Finish, Fault, WorkerGoto, mainVars, workerVars,
           Ended, Running
<1>1. TypeOK'
  BY DEF TypeOK
<1>2. MainInv'
  BY DEF MainInv
<1>3. JoinInv'
  BY DEF TypeOK, JoinInv
<1>4. CancelInv'
  BY DEF TypeOK, CancelInv
<1>5. ChannelInv'
  BY DEF TypeOK, ChannelInv
<1>6. EntryInv'
<2>1. \A v \in Workers :
        /\ (pc[v] = "write") = (pc'[v] = "write")
        /\ Lost(v) => Lost(v)'
  BY DEF TypeOK, Lost
<2>2. QED
  BY <2>1, TargetType, EntryNat DEF EntryInv
<1>7. QED
  BY <1>1, <1>2, <1>3, <1>4, <1>5, <1>6

\* The flag goes up together with the failed worker that accounts for it.
LEMMA FailStep ==
  ASSUME IInv, NEW w \in Workers, Fail(w)
  PROVE  IInv'
<1> USE SizeAssumption DEF IInv, Fail, WorkerGoto, mainVars, workerVars,
           Ended, Running
<1>1. TypeOK'
  BY DEF TypeOK
<1>2. MainInv'
  BY DEF MainInv
<1>3. JoinInv'
  BY DEF JoinInv
<1>4. CancelInv'
  BY DEF TypeOK, CancelInv
<1>5. ChannelInv'
  BY DEF ChannelInv
<1>6. EntryInv'
  BY DEF EntryInv, Lost
<1>7. QED
  BY <1>1, <1>2, <1>3, <1>4, <1>5, <1>6

\* Time passes.
LEMMA ExpireStep ==
  ASSUME IInv, Expire
  PROVE  IInv'
<1> USE SizeAssumption DEF IInv, Expire, mainVars, workerVars,
           Ended, Running
<1>1. TypeOK'
  BY DEF TypeOK
<1>2. MainInv'
  BY DEF MainInv
<1>3. JoinInv'
  BY DEF JoinInv
<1>4. CancelInv'
  BY DEF CancelInv
<1>5. ChannelInv'
  BY DEF ChannelInv
<1>6. EntryInv'
  BY DEF EntryInv, Lost
<1>7. QED
  BY <1>1, <1>2, <1>3, <1>4, <1>5, <1>6

\* Dispatcher, workers, channels and entries agree in every reachable state
\* (materialize_entries, materialize_worker).
THEOREM Invariant == Spec => []IInv
<1>1. Init => IInv
<2> SUFFICES ASSUME Init PROVE IInv
  OBVIOUS
<2> USE SizeAssumption DEF Init
<2>1. TypeOK
<3>1. 0 \in 0..W /\ 0 \in 0..N
  OBVIOUS
<3>2. QED
  BY <3>1 DEF TypeOK, MainSteps
<2>2. MainInv /\ CancelInv
  BY DEF MainInv, CancelInv
<2>3. JoinInv /\ ChannelInv
  BY WorkerNat DEF JoinInv, ChannelInv
<2>4. EntryInv
  BY EntryNat DEF EntryInv
<2>5. QED
  BY <2>1, <2>2, <2>3, <2>4 DEF IInv
<1>2. IInv /\ [Next]_vars => IInv'
<2> SUFFICES ASSUME IInv, [Next]_vars PROVE IInv'
  OBVIOUS
<2>1. CASE Main
  BY <2>1, CloneRootsStep, SpawnWorkerStep, UnwindStep, CheckBeforeSendStep, TrySendStep,
     DropSendersStep, JoinStep, ReturnStep DEF Main
<2>2. ASSUME NEW w \in Workers, Worker(w) PROVE IInv'
  BY <2>2, BeginStep, LookStep, ReceiveStep, WriteStep, FinishStep, FailStep DEF Worker
<2>3. CASE Expire
  BY <2>3, ExpireStep
<2>4. CASE UNCHANGED vars
  BY <2>4 DEF vars, mainVars, workerVars, IInv, TypeOK, MainInv, JoinInv, CancelInv,
              ChannelInv, EntryInv, Lost
<2>5. QED
  BY <2>1, <2>2, <2>3, <2>4 DEF Next, Over
<1>3. QED
  BY <1>1, <1>2, PTL DEF Spec

\* Every reachable state is well typed.
THEOREM TypeCorrect == Spec => []TypeOK
<1>1. IInv => TypeOK
  BY DEF IInv
<1>2. QED
  BY <1>1, Invariant, PTL

\* materialize_entries returns Ok only if every entry has been written, once, and every
\* worker has finished: nobody failed, so the flag is down, so every channel was drained.
THEOREM SuccessCorrect == Spec => []SuccessIsComplete
<1>1. IInv => SuccessIsComplete
<2> SUFFICES ASSUME IInv, main = "ok" PROVE SuccessIsComplete
  BY DEF SuccessIsComplete
<2>1. spawned = W /\ joined = W /\ next = N /\ ~workerFailed /\ ~dispatchFailed
  BY DEF IInv, MainInv
<2>2. \A w \in Workers : pc[w] = "done"
  BY <2>1, WorkerNat DEF IInv, JoinInv
<2>3. ~cancelled
  BY <2>1, <2>2 DEF IInv, CancelInv
<2>4. \A w \in Workers : queue[w] = {}
  BY <2>2, <2>3 DEF IInv, ChannelInv
<2>5. \A e \in Entries : written[e] = 1
  BY <2>1, <2>2, <2>3, <2>4, EntryNat, TargetType DEF IInv, EntryInv, Lost
<2>6. QED
  BY <2>2, <2>5 DEF SuccessIsComplete
<1>2. QED
  BY <1>1, Invariant, PTL

\* No worker thread outlives materialize_entries, with success or without.
THEOREM NoStragglerCorrect == Spec => []NoStraggler
<1>1. IInv => NoStraggler
<2> SUFFICES ASSUME IInv, main \in {"ok", "failed"}, NEW w \in Workers
             PROVE  pc[w] \notin Running
  BY DEF NoStraggler
<2>1. joined = spawned
  BY DEF IInv, MainInv
<2>2. pc[w] = "unspawned" \/ pc[w] \in Ended
  BY <2>1, WorkerNat DEF IInv, TypeOK, JoinInv
<2>3. QED
  BY <2>2 DEF Running, Ended
<1>2. QED
  BY <1>1, Invariant, PTL

(* What the workers have counted.  The sets of entries it is about are finite. *)
LEMMA WrittenFinite ==
  /\ IsFiniteSet(Entries)
  /\ Cardinality(Entries) = N
  /\ \A w : IsFiniteSet(WrittenBy(w))
  /\ \A k : IsFiniteSet(WrittenUpTo(k))
<1>1. IsFiniteSet(Entries) /\ Cardinality(Entries) = N
<2>1. 0 \in Int /\ N - 1 \in Int
  BY SizeAssumption
<2>2. /\ IsFiniteSet(0..(N - 1))
      /\ Cardinality(0..(N - 1)) = IF 0 > N - 1 THEN 0 ELSE (N - 1) - 0 + 1
  BY <2>1, FS_Interval
<2>3. (IF 0 > N - 1 THEN 0 ELSE (N - 1) - 0 + 1) = N
  BY SizeAssumption
<2>4. QED
  BY <2>2, <2>3 DEF Entries
<1>2. ASSUME NEW w PROVE IsFiniteSet(WrittenBy(w))
<2>1. WrittenBy(w) \in SUBSET Entries
  BY DEF WrittenBy
<2>2. QED
  BY <1>1, <2>1, FS_Subset
<1>3. ASSUME NEW k PROVE IsFiniteSet(WrittenUpTo(k))
<2>1. WrittenUpTo(k) \in SUBSET Entries
  BY DEF WrittenUpTo
<2>2. QED
  BY <1>1, <2>1, FS_Subset
<1>4. QED
  BY <1>1, <1>2, <1>3

\* The first k + 1 workers have written what the first k have and what worker k has.
LEMMA NextReport ==
  ASSUME NEW k \in Nat
  PROVE  Cardinality(WrittenUpTo(k + 1))
           = Cardinality(WrittenUpTo(k)) + Cardinality(WrittenBy(k))
<1>1. WrittenUpTo(k + 1) = WrittenUpTo(k) \cup WrittenBy(k)
<2>1. \A e \in Entries : Target(e) \in Nat
  BY TargetType, EntryNat, WorkerNat
<2>2. \A e \in Entries : Target(e) < k + 1 <=> Target(e) < k \/ Target(e) = k
  BY <2>1
<2>3. QED
  BY <2>2 DEF WrittenUpTo, WrittenBy
<1>2. WrittenUpTo(k) \cap WrittenBy(k) = {}
<2>1. \A e \in WrittenBy(k) : e \notin WrittenUpTo(k)
  BY DEF WrittenUpTo, WrittenBy
<2>2. QED
  BY <2>1
<1>3. Cardinality(WrittenUpTo(k) \cap WrittenBy(k)) = 0
  BY <1>2, FS_EmptySet
<1>4. /\ Cardinality(WrittenUpTo(k)) \in Nat
      /\ Cardinality(WrittenBy(k)) \in Nat
  BY WrittenFinite, FS_CardinalityType
<1>5. Cardinality(WrittenUpTo(k) \cup WrittenBy(k))
        = Cardinality(WrittenUpTo(k)) + Cardinality(WrittenBy(k))
            - Cardinality(WrittenUpTo(k) \cap WrittenBy(k))
  BY WrittenFinite, FS_Union
<1>6. Cardinality(WrittenUpTo(k) \cup WrittenBy(k))
        = Cardinality(WrittenUpTo(k)) + Cardinality(WrittenBy(k))
  BY <1>3, <1>4, <1>5
<1>7. QED
  BY <1>1, <1>6

\* A worker that writes an entry has one more to its name ...
LEMMA WriterGains ==
  ASSUME IInv, NEW w \in Workers, pc[w] = "write",
         written' = [written EXCEPT ![held[w]] = @ + 1]
  PROVE  Cardinality(WrittenBy(w))' = Cardinality(WrittenBy(w)) + 1
<1>1. held[w] \in Entries /\ Target(held[w]) = w /\ written[held[w]] = 0
  BY DEF IInv, ChannelInv
<1>2. written'[held[w]] = 1 /\ \A e \in Entries \ {held[w]} : written'[e] = written[e]
  BY <1>1 DEF IInv, TypeOK
<1>3. WrittenBy(w)' = WrittenBy(w) \cup {held[w]} /\ held[w] \notin WrittenBy(w)
  BY <1>1, <1>2 DEF WrittenBy
<1>4. QED
  BY <1>3, WrittenFinite, FS_AddElement

\* ... and no other worker has.
LEMMA OthersKeep ==
  ASSUME IInv, NEW w \in Workers, pc[w] = "write",
         written' = [written EXCEPT ![held[w]] = @ + 1]
  PROVE  /\ \A v \in Workers \ {w} : WrittenBy(v)' = WrittenBy(v)
         /\ \A k \in 0..w : WrittenUpTo(k)' = WrittenUpTo(k)
<1>1. held[w] \in Entries /\ Target(held[w]) = w /\ written[held[w]] = 0
  BY DEF IInv, ChannelInv
<1>2. \A e \in Entries \ {held[w]} : written'[e] = written[e]
  BY <1>1 DEF IInv, TypeOK
<1>3. \A v \in Workers \ {w} : WrittenBy(v)' = WrittenBy(v)
  BY <1>1, <1>2 DEF WrittenBy
<1>4. \A k \in 0..w : \A e \in Entries : Target(e) < k => e # held[w]
  BY <1>1, WorkerNat
<1>5. \A k \in 0..w : WrittenUpTo(k)' = WrittenUpTo(k)
  BY <1>2, <1>4 DEF WrittenUpTo
<1>6. QED
  BY <1>3, <1>5

\* Join adds the report of a worker that ended well to those before it.
LEMMA JoinTally == ASSUME IInv, TallyInv, Join PROVE TallyInv'
<1>1. /\ UNCHANGED <<count, written>>
      /\ \A w : WrittenBy(w)' = WrittenBy(w)
      /\ \A k : WrittenUpTo(k)' = WrittenUpTo(k)
  BY DEF Join, workerVars, WrittenBy, WrittenUpTo
<1>2. ASSUME ~workerFailed', joined' # joined
      PROVE  materialized' = Cardinality(WrittenUpTo(joined'))
<2>1. /\ joined < W /\ joined' = joined + 1 /\ pc[joined] = "done" /\ ~workerFailed
      /\ materialized' = materialized + Reported(joined)
  BY <1>2 DEF Join, IInv, TypeOK
<2>2. joined \in Nat /\ joined \in Workers
  BY <2>1, WorkerNat DEF IInv, TypeOK
<2>3. Reported(joined) = Cardinality(WrittenBy(joined))
  BY <2>1, <2>2 DEF Reported, TallyInv
<2>4. materialized = Cardinality(WrittenUpTo(joined))
  BY <2>1 DEF TallyInv, Join
<2>5. QED
  BY <2>1, <2>2, <2>3, <2>4, NextReport
<1>3. ASSUME ~workerFailed', joined' = joined
      PROVE  materialized' = Cardinality(WrittenUpTo(joined'))
<2>1. joined \in Nat
  BY DEF IInv, TypeOK
<2>2. UNCHANGED <<materialized, workerFailed>>
  BY <1>3, <2>1 DEF Join
<2>3. QED
  BY <1>3, <2>2 DEF TallyInv, Join
<1>4. QED
  BY <1>1, <1>2, <1>3 DEF TallyInv

\* Write adds one to what the worker has counted, and to what it has written.
LEMMA WriteTally ==
  ASSUME IInv, TallyInv, NEW w \in Workers, Write(w)
  PROVE  TallyInv'
<1>1. pc[w] = "write" /\ UNCHANGED mainVars
  BY DEF Write
<1>2. CASE UNCHANGED <<written, count>>
<2>1. /\ \A v : WrittenBy(v)' = WrittenBy(v)
      /\ \A k : WrittenUpTo(k)' = WrittenUpTo(k)
  BY <1>2 DEF WrittenBy, WrittenUpTo
<2>2. QED
  BY <1>1, <1>2, <2>1 DEF TallyInv, mainVars
<1>3. CASE /\ written' = [written EXCEPT ![held[w]] = @ + 1]
           /\ count' = [count EXCEPT ![w] = @ + 1]
<2>1. Cardinality(WrittenBy(w))' = Cardinality(WrittenBy(w)) + 1
  BY <1>1, <1>3, WriterGains
<2>2. /\ \A v \in Workers \ {w} : WrittenBy(v)' = WrittenBy(v)
      /\ \A k \in 0..w : WrittenUpTo(k)' = WrittenUpTo(k)
  BY <1>1, <1>3, OthersKeep
<2>3. ASSUME NEW v \in Workers PROVE count'[v] = Cardinality(WrittenBy(v)')
<3>1. CASE v = w
  BY <1>3, <2>1, <3>1 DEF TallyInv, IInv, TypeOK
<3>2. CASE v # w
  BY <1>3, <2>2, <3>2 DEF TallyInv, IInv, TypeOK
<3>3. QED
  BY <3>1, <3>2
<2>4. joined \in 0..w
  BY <1>1, WorkerNat DEF IInv, TypeOK, JoinInv, Ended
<2>5. WrittenUpTo(joined)' = WrittenUpTo(joined)
<3>1. joined' = joined
  BY <1>1 DEF mainVars
<3>2. QED
  BY <2>2, <2>4, <3>1 DEF WrittenUpTo
<2>6. QED
  BY <1>1, <2>3, <2>5 DEF TallyInv, mainVars
<1>4. QED
  BY <1>2, <1>3 DEF Write

\* No other step writes or counts, or adds a report.
LEMMA QuietTally ==
  ASSUME TallyInv, UNCHANGED <<count, written, joined, materialized, workerFailed>>,
         main' \in {"unwind", "failed"} \/ main \notin {"unwind", "failed"}
  PROVE  TallyInv'
<1>1. /\ \A v : WrittenBy(v)' = WrittenBy(v)
      /\ \A k : WrittenUpTo(k)' = WrittenUpTo(k)
  BY DEF WrittenBy, WrittenUpTo
<1>2. QED
  BY <1>1 DEF TallyInv

\* The counts of the workers and the sum of the reports agree with what has been written
\* (materialize_worker, the joins of materialize_entries).
THEOREM Tally == Spec => []TallyInv
<1>1. Init => TallyInv
<2> SUFFICES ASSUME Init PROVE TallyInv
  OBVIOUS
<2>1. \A w : WrittenBy(w) = {}
  BY DEF Init, WrittenBy
<2>2. WrittenUpTo(0) = {}
  BY DEF Init, WrittenUpTo
<2>3. QED
  BY <2>1, <2>2, FS_EmptySet DEF Init, TallyInv
<1>2. IInv /\ TallyInv /\ [Next]_vars => TallyInv'
<2> SUFFICES ASSUME IInv, TallyInv, [Next]_vars PROVE TallyInv'
  OBVIOUS
<2>1. CASE Join
  BY <2>1, JoinTally
<2>2. CASE Unwind
<3>1. /\ main' \in {"unwind", "failed"}
      /\ UNCHANGED <<count, written>>
  BY <2>2 DEF Unwind, workerVars
<3>2. \A v : WrittenBy(v)' = WrittenBy(v)
  BY <3>1 DEF WrittenBy
<3>3. QED
  BY <3>1, <3>2 DEF TallyInv
<2>3. CASE CloneRoots \/ SpawnWorker \/ CheckBeforeSend \/ TrySend \/ DropSenders \/ Return
<3>1. /\ UNCHANGED <<count, written, joined, materialized, workerFailed>>
      /\ main \notin {"unwind", "failed"}
  BY <2>3 DEF CloneRoots, SpawnWorker, CheckBeforeSend, TrySend, DropSenders, Return,
              StopDispatch, workerVars
<3>2. QED
  BY <3>1, QuietTally
<2>4. ASSUME NEW w \in Workers, Worker(w) PROVE TallyInv'
<3>1. CASE Write(w)
  BY <3>1, WriteTally
<3>2. CASE Begin(w) \/ Look(w) \/ Receive(w) \/ Finish(w) \/ Fail(w)
<4>1. UNCHANGED <<count, written, mainVars>>
  BY <3>2 DEF Begin, Look, Receive, Finish, Fail
<4>2. QED
  BY <4>1, QuietTally DEF mainVars
<3>3. QED
  BY <2>4, <3>1, <3>2 DEF Worker
<2>5. CASE Expire \/ UNCHANGED vars
  BY <2>5, QuietTally DEF Expire, vars, mainVars, workerVars
<2>6. QED
  BY <2>1, <2>2, <2>3, <2>4, <2>5 DEF Next, Main, Over
<1>3. QED
  BY <1>1, <1>2, Invariant, PTL DEF Spec

\* When no worker and no send failed, the joined workers account for every entry of the
\* manifest: the check that would say otherwise never fires.
THEOREM AccountedCorrect == Spec => []Accounted
<1>1. IInv /\ TallyInv => Accounted
<2> SUFFICES ASSUME IInv, TallyInv, main = "return", ~workerFailed, ~dispatchFailed
             PROVE  materialized = N
  BY DEF Accounted
<2>1. spawned = W /\ joined = W /\ next = N
  BY DEF IInv, MainInv
<2>2. \A w \in Workers : pc[w] = "done"
  BY <2>1, WorkerNat DEF IInv, JoinInv
<2>3. ~cancelled
  BY <2>2 DEF IInv, CancelInv
<2>4. \A w \in Workers : queue[w] = {}
  BY <2>2, <2>3 DEF IInv, ChannelInv
<2>5. \A e \in Entries : written[e] = 1
  BY <2>1, <2>2, <2>3, <2>4, EntryNat, TargetType DEF IInv, EntryInv, Lost
<2>6. WrittenUpTo(joined) = Entries
  BY <2>1, <2>5, EntryNat, WorkerNat, TargetType DEF WrittenUpTo
<2>7. QED
  BY <2>6, WrittenFinite DEF TallyInv
<1>2. QED
  BY <1>1, Invariant, Tally, PTL
==============================================================================
