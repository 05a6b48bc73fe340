--------------------------- MODULE MaterializePool ---------------------------
(***************************************************************************)
(* materialize_entries: one dispatcher hands the entries of a manifest to  *)
(* worker threads over bounded channels, in turn; each worker fetches its  *)
(* blobs from a git child of its own and writes them into the template     *)
(* root.  A worker may fail or panic, the dispatcher may fail to start one,*)
(* the deadline may pass; then the rest is cancelled, and the call still   *)
(* joins every thread it started.                                          *)
(***************************************************************************)
EXTENDS Naturals, FiniteSets

CONSTANTS
  N,          \* entries of the manifest
  W,          \* worker_count
  Depth,      \* TREE_MATERIALIZE_QUEUE_DEPTH
  MaxFaults   \* bound: failed calls and panics

ASSUME SizeAssumption  == N \in Nat /\ W \in Nat \ {0} /\ Depth \in Nat \ {0}
ASSUME BoundAssumption == MaxFaults \in Nat

Entries == 0..(N - 1)
Workers == 0..(W - 1)

VARIABLES
  main,           \* where materialize_entries is
  spawned,        \* workers started
  next,           \* the entry to be sent
  joined,         \* workers joined
  dispatchFailed, \* dispatch_failure is set
  workerFailed,   \* worker_failure is set
  materialized,   \* what the joined workers have reported
  open,           \* the senders have not been dropped
  queue,          \* [Workers -> SUBSET Entries]: the channels
  cancelled,      \* the flag all threads share
  expired,        \* hard_deadline has passed
  pc,             \* [Workers -> ...]: where a worker is
  held,           \* [Workers -> Entries \cup {N}]: the entry it writes
  count,          \* [Workers -> Nat]: the entries it has counted
  written,        \* history, [Entries -> Nat]: how often an entry was written whole
  faults

mainVars == <<main, spawned, next, joined, dispatchFailed, workerFailed, materialized, open>>
workerVars == <<pc, held, count, written>>
vars == <<mainVars, queue, cancelled, expired, workerVars, faults>>

MainSteps == {"clone", "spawn", "unwind", "dispatch", "send", "join", "return", "ok", "failed"}
Ended     == {"done", "failed", "panicked"}
Running   == {"spawned", "loop", "recv", "write", "finish", "failing"}

\* senders[index % worker_count]
Target(e) == e % W

Fault == faults < MaxFaults /\ faults' = faults + 1

(***************************************************************************)
(* The dispatcher.                                                         *)
(***************************************************************************)
\* A descriptor of the root for every worker, before any is started.
CloneRoots ==
  /\ main = "clone"
  /\ \/ main' = "spawn" /\ UNCHANGED faults
     \/ main' = "failed" /\ Fault
  /\ UNCHANGED <<spawned, next, joined, dispatchFailed, workerFailed, materialized, open,
                 queue, cancelled, expired, workerVars>>

\* A thread that cannot be started cancels those that were.
SpawnWorker ==
  /\ main = "spawn"
  /\ \/ /\ spawned < W
        /\ spawned' = spawned + 1
        /\ pc' = [pc EXCEPT ![spawned] = "spawned"]
        /\ UNCHANGED <<main, open, cancelled, faults>>
     \/ /\ spawned < W /\ Fault
        /\ cancelled' = TRUE /\ open' = FALSE
        /\ main' = "unwind"
        /\ UNCHANGED <<spawned, pc>>
     \/ /\ spawned = W
        /\ main' = "dispatch"
        /\ UNCHANGED <<spawned, pc, open, cancelled, faults>>
  /\ UNCHANGED <<next, joined, dispatchFailed, workerFailed, materialized, queue, expired,
                 held, count, written>>

Unwind ==
  /\ main = "unwind"
  /\ \/ /\ joined < spawned /\ pc[joined] \in Ended
        /\ joined' = joined + 1
        /\ UNCHANGED main
     \/ /\ joined = spawned
        /\ main' = "failed"
        /\ UNCHANGED joined
  /\ UNCHANGED <<spawned, next, dispatchFailed, workerFailed, materialized, open, queue,
                 cancelled, expired, workerVars, faults>>

StopDispatch ==
  /\ dispatchFailed' = TRUE /\ cancelled' = TRUE
  /\ open' = FALSE
  /\ main' = "join"

\* The loop of enqueue_materialize_entry looks at the flag and at the clock ...
CheckBeforeSend ==
  /\ main = "dispatch" /\ next < N
  /\ IF cancelled \/ expired
       THEN StopDispatch
       ELSE main' = "send" /\ UNCHANGED <<dispatchFailed, cancelled, open>>
  /\ UNCHANGED <<spawned, next, joined, workerFailed, materialized, queue, expired,
                 workerVars, faults>>

\* ... and tries to send; a full channel is tried again 5 ms later.
TrySend ==
  LET w == Target(next)
  IN  /\ main = "send"
      /\ \/ /\ pc[w] \in Ended
            /\ StopDispatch
            /\ UNCHANGED <<queue, next>>
         \/ /\ pc[w] \notin Ended
            /\ main' = "dispatch"
            /\ IF Cardinality(queue[w]) < Depth
                 THEN /\ queue' = [queue EXCEPT ![w] = @ \cup {next}]
                      /\ next' = next + 1
                 ELSE UNCHANGED <<queue, next>>
            /\ UNCHANGED <<dispatchFailed, cancelled, open>>
      /\ UNCHANGED <<spawned, joined, workerFailed, materialized, expired, workerVars, faults>>

\* Mutant: the senders live as long as the call.
KeepSenders ==
  /\ main = "dispatch" /\ next = N
  /\ main' = "join"
  /\ UNCHANGED <<spawned, next, joined, dispatchFailed, workerFailed, materialized, open,
                 queue, cancelled, expired, workerVars, faults>>

\* drop(senders) after the last entry.
DropSenders ==
  /\ main = "dispatch" /\ next = N
  /\ open' = FALSE
  /\ main' = "join"
  /\ UNCHANGED <<spawned, next, joined, dispatchFailed, workerFailed, materialized, queue,
                 cancelled, expired, workerVars, faults>>

\* What the report of worker w adds; a failed or panicked one counts for nothing.
Reported(w) == IF pc[w] = "done" THEN count[w] ELSE 0

\* Mutant: a panic is taken for an empty report.
JoinIgnoresPanic ==
  /\ main = "join"
  /\ \/ /\ joined < W /\ pc[joined] \in Ended
        /\ joined' = joined + 1
        /\ materialized' = materialized + Reported(joined)
        /\ workerFailed' = (workerFailed \/ pc[joined] = "failed")
        /\ UNCHANGED <<main, cancelled>>
     \/ /\ joined = W
        /\ main' = "return"
        /\ UNCHANGED <<joined, materialized, workerFailed, cancelled>>
  /\ UNCHANGED <<spawned, next, dispatchFailed, open, queue, expired, workerVars, faults>>

\* Mutant: the first failure ends the joins.
JoinStops ==
  /\ main = "join"
  /\ \/ /\ joined < W /\ pc[joined] \in Ended
        /\ joined' = joined + 1
        /\ materialized' = materialized + Reported(joined)
        /\ workerFailed' = (pc[joined] # "done")
        /\ main' = IF pc[joined] # "done" THEN "failed" ELSE main
     \/ /\ joined = W
        /\ main' = "return"
        /\ UNCHANGED <<joined, materialized, workerFailed>>
  /\ UNCHANGED <<spawned, next, dispatchFailed, open, queue, cancelled, expired, workerVars,
                 faults>>

\* The workers are joined in order; the first failure is kept, and a panic that is the
\* first cancels the others.
Join ==
  /\ main = "join"
  /\ \/ /\ joined < W /\ pc[joined] \in Ended
        /\ joined' = joined + 1
        /\ materialized' = materialized + Reported(joined)
        /\ workerFailed' = (workerFailed \/ pc[joined] # "done")
        /\ cancelled' = (cancelled \/ (pc[joined] = "panicked" /\ ~workerFailed))
        /\ UNCHANGED main
     \/ /\ joined = W
        /\ main' = "return"
        /\ UNCHANGED <<joined, materialized, workerFailed, cancelled>>
  /\ UNCHANGED <<spawned, next, dispatchFailed, open, queue, expired, workerVars, faults>>

Return ==
  /\ main = "return"
  /\ main' = IF workerFailed \/ dispatchFailed \/ materialized # N THEN "failed" ELSE "ok"
  /\ UNCHANGED <<spawned, next, joined, dispatchFailed, workerFailed, materialized, open,
                 queue, cancelled, expired, workerVars, faults>>

(***************************************************************************)
(* A worker.                                                               *)
(***************************************************************************)
WorkerGoto(w, to) == pc' = [pc EXCEPT ![w] = to]

\* git cat-file --batch is started.
Begin(w) ==
  /\ pc[w] = "spawned"
  /\ \/ ~expired /\ WorkerGoto(w, "loop") /\ UNCHANGED faults
     \/ expired /\ WorkerGoto(w, "failing") /\ UNCHANGED faults
     \/ ~expired /\ Fault /\ WorkerGoto(w, "failing")
  /\ UNCHANGED <<mainVars, queue, cancelled, expired, held, count, written>>

\* The flag first, then the clock.
Look(w) ==
  /\ pc[w] = "loop"
  /\ WorkerGoto(w, IF cancelled THEN "done" ELSE IF expired THEN "failing" ELSE "recv")
  /\ UNCHANGED <<mainVars, queue, cancelled, expired, held, count, written, faults>>

\* recv_timeout: the channel is first in, first out, and entries are sent in order; an
\* empty one is waited for 10 ms, or is found disconnected.
Receive(w) ==
  /\ pc[w] = "recv"
  /\ \/ \E e \in queue[w] :
          /\ \A f \in queue[w] : e <= f
          /\ queue' = [queue EXCEPT ![w] = @ \ {e}]
          /\ held' = [held EXCEPT ![w] = e]
          /\ WorkerGoto(w, "write")
     \/ queue[w] = {} /\ open /\ WorkerGoto(w, "loop") /\ UNCHANGED <<queue, held>>
     \/ queue[w] = {} /\ ~open /\ WorkerGoto(w, "finish") /\ UNCHANGED <<queue, held>>
  /\ UNCHANGED <<mainVars, cancelled, expired, count, written, faults>>

\* Mutant: an entry that could not be written is passed over, and counted.
WriteSwallows(w) ==
  /\ pc[w] = "write"
  /\ \/ /\ written' = [written EXCEPT ![held[w]] = @ + 1]
        /\ UNCHANGED faults
     \/ Fault /\ UNCHANGED written
  /\ count' = [count EXCEPT ![w] = @ + 1]
  /\ held' = [held EXCEPT ![w] = N]
  /\ WorkerGoto(w, "loop")
  /\ UNCHANGED <<mainVars, queue, cancelled, expired>>

\* The blob is asked for, read and written; any of it may fail, or panic.
Write(w) ==
  /\ pc[w] = "write"
  /\ \/ /\ written' = [written EXCEPT ![held[w]] = @ + 1]
        /\ count' = [count EXCEPT ![w] = @ + 1]
        /\ WorkerGoto(w, "loop")
        /\ UNCHANGED faults
     \/ /\ Fault
        /\ \E to \in {"failing", "panicked"} : WorkerGoto(w, to)
        /\ UNCHANGED <<written, count>>
  /\ held' = [held EXCEPT ![w] = N]
  /\ UNCHANGED <<mainVars, queue, cancelled, expired>>

\* finish_clean waits for the git child and looks at its exit status.
Finish(w) ==
  /\ pc[w] = "finish"
  /\ \/ WorkerGoto(w, "done") /\ UNCHANGED faults
     \/ WorkerGoto(w, "failing") /\ Fault
  /\ UNCHANGED <<mainVars, queue, cancelled, expired, held, count, written>>

\* A failure raises the flag; the receiver is dropped after it, with the thread.
Fail(w) ==
  /\ pc[w] = "failing"
  /\ cancelled' = TRUE
  /\ WorkerGoto(w, "failed")
  /\ UNCHANGED <<mainVars, queue, expired, held, count, written, faults>>

(***************************************************************************)
(* Specification.                                                          *)
(***************************************************************************)
Expire ==
  /\ ~expired
  /\ expired' = TRUE
  /\ UNCHANGED <<mainVars, queue, cancelled, workerVars, faults>>

Init ==
  /\ main = "clone" /\ spawned = 0 /\ next = 0 /\ joined = 0
  /\ dispatchFailed = FALSE /\ workerFailed = FALSE /\ materialized = 0 /\ open = TRUE
  /\ queue = [w \in Workers |-> {}]
  /\ cancelled = FALSE /\ expired = FALSE
  /\ pc = [w \in Workers |-> "unspawned"]
  /\ held = [w \in Workers |-> N]
  /\ count = [w \in Workers |-> 0]
  /\ written = [e \in Entries |-> 0]
  /\ faults = 0

Main ==
  \/ CloneRoots \/ SpawnWorker \/ Unwind \/ CheckBeforeSend \/ TrySend \/ DropSenders
  \/ Join \/ Return
Worker(w) == Begin(w) \/ Look(w) \/ Receive(w) \/ Write(w) \/ Finish(w) \/ Fail(w)

\* The call is over; nothing else is.
Over == main \in {"ok", "failed"} /\ UNCHANGED vars

Next == Main \/ (\E w \in Workers : Worker(w)) \/ Expire \/ Over

Spec == Init /\ [][Next]_vars

\* Threads run on; the reads and writes of a git child have deadlines of their own.
FairSpec == Spec /\ WF_vars(Main) /\ \A w \in Workers : WF_vars(Worker(w))

(***************************************************************************)
(* Properties.                                                             *)
(***************************************************************************)
TypeOK ==
  /\ main \in MainSteps
  /\ spawned \in 0..W /\ next \in 0..N /\ joined \in 0..W
  /\ dispatchFailed \in BOOLEAN /\ workerFailed \in BOOLEAN /\ open \in BOOLEAN
  /\ cancelled \in BOOLEAN /\ expired \in BOOLEAN
  /\ materialized \in Nat /\ faults \in Nat
  /\ queue \in [Workers -> SUBSET Entries]
  /\ pc \in [Workers -> {"unspawned"} \cup Running \cup Ended]
  /\ held \in [Workers -> Entries \cup {N}]
  /\ count \in [Workers -> Nat]
  /\ written \in [Entries -> Nat]

\* When the call reports success every entry has been written whole, once, and no worker
\* failed or was cut short, whichever thread was how far when something went wrong.
SuccessIsComplete ==
  main = "ok" =>
    /\ \A e \in Entries : written[e] = 1
    /\ \A w \in Workers : pc[w] = "done"

\* When the call returns, with success or not, no thread of it is left that could still
\* write into the root: what comes next is sealing the tree, or giving it up.
NoStraggler == main \in {"ok", "failed"} => \A w \in Workers : pc[w] \notin Running

\* Workers that report no failure have accounted for the whole manifest: the last check of
\* materialize_entries ("did not account for the full manifest") never fires.
Accounted ==
  main = "return" /\ ~workerFailed /\ ~dispatchFailed => materialized = N

\* The call returns though nobody is sure to see the deadline pass: no thread waits for
\* an entry that will not come, or for room in a channel nobody empties.
Returns == <>(main \in {"ok", "failed"})

(***************************************************************************)
(* The inductive invariant of the proofs.                                  *)
(***************************************************************************)
\* What is settled where materialize_entries is.
MainInv ==
  /\ main = "clone" => spawned = 0
  /\ main = "send" => next < N
  /\ main \in {"clone", "spawn", "dispatch", "send"} =>
       joined = 0 /\ open /\ ~dispatchFailed /\ ~workerFailed
  /\ main \in {"dispatch", "send", "join", "return", "ok"} => spawned = W
  /\ main \in {"join", "return", "ok"} => ~open /\ (dispatchFailed \/ next = N)
  /\ main \in {"return", "ok"} => joined = W
  /\ main = "ok" => ~workerFailed /\ ~dispatchFailed
  /\ main = "failed" => joined = spawned
  /\ joined <= spawned

\* The workers that exist, and what those that were joined have reported.
JoinInv ==
  \A w \in Workers :
    /\ pc[w] = "unspawned" <=> spawned <= w
    /\ w < joined => pc[w] \in Ended
    /\ w < joined /\ pc[w] # "done" /\ main \in {"join", "return", "ok"} => workerFailed

\* The flag is raised for a reason that the call will report.
CancelInv ==
  cancelled /\ main \notin {"unwind", "failed"} =>
    dispatchFailed \/ workerFailed \/ \E w \in Workers : pc[w] = "failed"

\* What is in the channels and in the hands of the workers is still to be written.
ChannelInv ==
  \A w \in Workers :
    /\ \A e \in queue[w] : e < next /\ Target(e) = w /\ written[e] = 0
    /\ pc[w] = "write" => /\ held[w] \in Entries \ queue[w]
                          /\ held[w] < next /\ Target(held[w]) = w /\ written[held[w]] = 0
    /\ pc[w] = "finish" => queue[w] = {} /\ ~open
    /\ pc[w] = "done" => cancelled \/ (queue[w] = {} /\ ~open)

\* An entry that was sent is written, on its way, or lost with a worker that the call knows of.
Lost(w) == pc[w] \in {"failing", "failed", "panicked"} \/ (pc[w] = "done" /\ cancelled)

EntryInv ==
  \A e \in Entries :
    /\ written[e] \in {0, 1}
    /\ next <= e => written[e] = 0
    /\ e < next => \/ written[e] = 1
                   \/ e \in queue[Target(e)]
                   \/ pc[Target(e)] = "write" /\ held[Target(e)] = e
                   \/ Lost(Target(e))

\* Main, workers, channels and entries agree at every step of every thread: this is what
\* SuccessIsComplete and NoStraggler rest on.
IInv == TypeOK /\ MainInv /\ JoinInv /\ CancelInv /\ ChannelInv /\ EntryInv

\* The entries worker w has written, and those of the first k workers.
WrittenBy(w)   == {e \in Entries : Target(e) = w /\ written[e] = 1}
WrittenUpTo(k) == {e \in Entries : Target(e) < k /\ written[e] = 1}

\* A worker has counted what it wrote, and what the joined ones reported is the sum: this
\* is what Accounted rests on.
TallyInv ==
  /\ \A w \in Workers : count[w] = Cardinality(WrittenBy(w))
  /\ main \notin {"unwind", "failed"} /\ ~workerFailed =>
       materialized = Cardinality(WrittenUpTo(joined))
=============================================================================
