------------------------------- MODULE GitChild -------------------------------
(***************************************************************************)
(* A child process and its sole owner.  The owner writes requests and      *)
(* reads answers over nonblocking pipes, against a deadline, and in the    *)
(* end collects the output or cleans up.  The child leads a process group  *)
(* of its own; it and its descendants read, write, close, exit and leave   *)
(* the group as they like, and so does the clock.                          *)
(***************************************************************************)
EXTENDS Naturals, FiniteSets, FiniteSetsExt

CONSTANTS
  Leader,       \* the child
  Descendants,  \* its descendants, alive from the beginning
  Modes,        \* how it is used: SUBSET {"capture", "listing", "batch", "direct"}
  Capacity,     \* of a pipe
  Request,      \* what write_stdin is to write
  Answer,       \* what is to be read for it
  Limit,        \* DEFAULT_LIMIT, what is retained of a pipe
  MaxPending,   \* MAX_PENDING, what is buffered of the answers
  IdleTime, HardTime, GraceTime, CleanupTime, \* the timeouts, in ticks
  MaxFaults     \* bound: failing calls

ASSUME SizeAssumption ==
  /\ Leader \notin Descendants
  /\ {Capacity, Request, Answer, IdleTime, HardTime} \subseteq Nat \ {0}
  /\ {Limit, MaxPending, GraceTime, CleanupTime, MaxFaults} \subseteq Nat
  /\ IdleTime <= HardTime

Pipes == {"out", "err"}

VARIABLES
  mode, pc,
  want, need,   \* what is left to write and to read of a request
  stdin,        \* what the child has not read, or Closed
  buf,          \* [Pipes -> 0..Capacity]: what the owner has not read
  kept,         \* [Pipes -> 0..Limit]: what it retains
  pending,      \* stdout_pending
  seen,         \* the pipes whose end it has seen
  left, hard,   \* the ticks to the deadline and to the hard deadline
  grace,        \* the ticks to pipe_grace, or Off
  cleaning,     \* the ticks to the deadline of cleanup
  leader,       \* the child: running, exited and to be waited for, waited for, lost
  alive, grouped, holders, \* who runs, is in the group, can write to the pipes
  observed,     \* exit_observed
  group,        \* process_group is there
  result,
  astray,       \* history: the group was killed when its number was not the owner's
  faults

callVars    == <<mode, want, need>>
outputVars  == <<buf, kept, pending, seen>>
timeVars    == <<left, hard, grace, cleaning>>
processVars == <<leader, alive, grouped, holders>>
waitVars    == <<observed, group, astray>>
vars == <<callVars, pc, stdin, outputVars, timeVars, processVars, waitVars, result, faults>>

Closed == Capacity + 1
Off    == GraceTime + 1
Calls  == {"between", "write", "read"}
Capturing == {"out", "err", "observe", "reap", "check"}
Cleanup   == {"cleanup", "terminate", "drain", "clean"}
Locations == Calls \cup Capturing \cup Cleanup \cup {"wait", "done"}

Fault == faults < MaxFaults /\ faults' = faults + 1

Goto(to)   == pc' = to /\ UNCHANGED result
Finish(r)  == pc' = "done" /\ result' = r
Fail       == pc' = "cleanup" /\ result' = "failed"
Unclean(to) == pc' = to /\ result' = "unclean"

(***************************************************************************)
(* The pipes.                                                              *)
(***************************************************************************)
\* A read to the end of what is there; with nobody left to write it sees the end.
SeenAfter(ps) == IF holders = {} THEN seen \cup ps ELSE seen
Emptied(ps) == [p \in Pipes |-> IF p \in ps THEN 0 ELSE buf[p]]
Retained(p) == [kept EXCEPT ![p] = Min({@ + buf[p], Limit})]
Exceeds(p)  == kept[p] + buf[p] > Limit
PipesClosed == seen = Pipes

\* note_progress: the deadline moves, but not past the hard one.
Deadline == Min({IdleTime, hard})

\* Mutant: only the idle timeout counts.
SoftProgress(to) == Goto(to) /\ left' = IdleTime

Progress(to) ==
  IF hard = 0 THEN Fail /\ UNCHANGED left
  ELSE Goto(to) /\ left' = Deadline

(***************************************************************************)
(* A call on the batch stream.                                             *)
(***************************************************************************)
\* Between two calls the owner does other work; it may go on, finish, or drop the child.
Between ==
  /\ pc = "between"
  /\ \/ /\ mode = "batch"
        /\ want' = Request /\ need' = Answer /\ Goto("write")
        /\ UNCHANGED stdin
     \/ /\ mode = "batch" /\ stdin' = Closed /\ Goto("out")
        /\ UNCHANGED <<want, need>>
     \/ /\ mode = "listing" /\ Goto("read") /\ need' = 1
        /\ UNCHANGED <<want, stdin>>
     \/ Fail /\ UNCHANGED <<want, need, stdin>>
  /\ UNCHANGED <<mode, outputVars, timeVars, processVars, waitVars, faults>>

\* drain_batch_stderr ends every round of the loops.
DrainErr(ps) ==
  /\ buf' = Emptied(ps \cup {"err"})
  /\ kept' = Retained("err")
  /\ seen' = SeenAfter(ps \cup {"err"})

\* Mutant: stdout is left alone while a request is written.
WaitWriteErrOnly ==
  /\ IF Exceeds("err") THEN Fail ELSE Goto("write")
  /\ DrainErr({}) /\ UNCHANGED <<pending, left>>

\* wait_batch_write: the child may wait for room in its own pipes before it reads.
WaitWrite ==
  /\ IF pending + buf["out"] > MaxPending \/ Exceeds("err") THEN Fail /\ UNCHANGED <<pending, left>>
     ELSE /\ pending' = pending + buf["out"]
          /\ IF buf["out"] > 0 THEN Progress("write") ELSE Goto("write") /\ UNCHANGED left
  /\ DrainErr({"out"})

\* write_stdin.
Write ==
  /\ pc = "write"
  /\ \/ want = 0 /\ Goto("read") /\ UNCHANGED <<want, stdin, outputVars, left, faults>>
     \/ want > 0 /\ left = 0 /\ Fail /\ UNCHANGED <<want, stdin, outputVars, left, faults>>
     \/ /\ want > 0 /\ left > 0 /\ leader # "running"
        /\ Fail /\ UNCHANGED <<want, stdin, outputVars, left, faults>>
     \/ /\ want > 0 /\ left > 0 /\ alive # {} /\ stdin < Capacity
        /\ stdin' = stdin + 1 /\ want' = want - 1
        /\ IF Exceeds("err") THEN Fail /\ UNCHANGED left ELSE Progress("write")
        /\ DrainErr({})
        /\ UNCHANGED <<pending, faults>>
     \/ /\ want > 0 /\ left > 0 /\ alive # {} /\ stdin = Capacity
        /\ WaitWrite
        /\ UNCHANGED <<want, stdin, faults>>
     \/ Fault /\ Fail /\ UNCHANGED <<want, stdin, outputVars, left>>
  /\ UNCHANGED <<mode, need, hard, grace, cleaning, processVars, waitVars>>

\* read_exact_stdout, read_line_stdout and read_nul_record.
Read ==
  /\ pc = "read"
  /\ \/ need = 0 /\ Goto("between") /\ UNCHANGED <<need, outputVars, left, faults>>
     \/ need > 0 /\ left = 0 /\ Fail /\ UNCHANGED <<need, outputVars, left, faults>>
     \/ /\ need > 0 /\ left > 0 /\ pending > 0
        /\ pending' = pending - 1 /\ need' = need - 1
        /\ Progress("read")
        /\ UNCHANGED <<buf, kept, seen, faults>>
     \/ /\ need > 0 /\ left > 0 /\ pending = 0 /\ buf["out"] > 0
        /\ need' = need - 1
        /\ IF Exceeds("err") THEN Fail /\ UNCHANGED left ELSE Progress("read")
        /\ buf' = [buf EXCEPT !["out"] = @ - 1, !["err"] = 0]
        /\ kept' = Retained("err") /\ seen' = SeenAfter({"err"})
        /\ UNCHANGED <<pending, faults>>
     \/ /\ need > 0 /\ left > 0 /\ pending = 0 /\ buf["out"] = 0 /\ holders # {}
        /\ IF Exceeds("err") THEN Fail ELSE Goto("read")
        /\ DrainErr({})
        /\ UNCHANGED <<need, pending, left, faults>>
     \/ /\ need > 0 /\ left > 0 /\ pending = 0 /\ buf["out"] = 0 /\ holders = {}
        /\ seen' = seen \cup {"out"}
        /\ (mode = "listing" /\ Goto("out")) \/ Fail
        /\ UNCHANGED <<need, buf, kept, pending, left, faults>>
     \/ Fault /\ Fail /\ UNCHANGED <<need, outputVars, left>>
  /\ UNCHANGED <<mode, want, stdin, hard, grace, cleaning, processVars, waitVars>>

(***************************************************************************)
(* capture, one round of its loop.                                         *)
(***************************************************************************)
Drain(p, to) ==
  /\ pc = p
  /\ \/ /\ IF Exceeds(p) THEN Fail ELSE Goto(to)
        /\ buf' = Emptied({p}) /\ kept' = Retained(p) /\ seen' = SeenAfter({p})
        /\ UNCHANGED faults
     \/ Fault /\ Fail /\ UNCHANGED <<buf, kept, seen>>
  /\ UNCHANGED <<callVars, stdin, pending, timeVars, processVars, waitVars>>

\* Mutant: without WNOWAIT the exit is consumed when it is seen.
ObserveToReaped(running, exited, lost) ==
  /\ UNCHANGED <<alive, grouped, holders>>
  /\ CASE observed -> exited /\ UNCHANGED <<observed, group, leader>>
       [] ~observed /\ leader = "exited" ->
            observed' = TRUE /\ leader' = "reaped" /\ exited /\ UNCHANGED group
       [] ~observed /\ leader = "running" -> running /\ UNCHANGED <<observed, group, leader>>
       [] ~observed /\ leader = "lost" -> group' = FALSE /\ lost /\ UNCHANGED <<observed, leader>>

\* waitid reports an exit and, with WNOWAIT, leaves the child to be waited for.
ObserveTo(running, exited, lost) ==
  /\ UNCHANGED processVars
  /\ CASE observed \/ leader = "exited" -> observed' = TRUE /\ exited /\ UNCHANGED group
       [] ~observed /\ leader = "running" -> running /\ UNCHANGED <<observed, group>>
       [] ~observed /\ leader = "lost" -> group' = FALSE /\ lost /\ UNCHANGED observed

Observe ==
  /\ pc = "observe"
  /\ ObserveTo(Goto("reap") /\ UNCHANGED grace,
               Goto("reap") /\ grace' = IF grace = Off /\ ~PipesClosed THEN GraceTime ELSE grace,
               Fail /\ UNCHANGED grace)
  /\ UNCHANGED <<callVars, stdin, outputVars, left, hard, cleaning, astray, faults>>

\* Mutant: the child's exit is taken for the end of its output.
ReapAtExit ==
  /\ pc = "reap"
  /\ IF leader = "running" THEN Goto("check") /\ UNCHANGED leader
     ELSE Finish("ok") /\ leader' = "reaped"
  /\ UNCHANGED <<callVars, stdin, outputVars, timeVars, alive, grouped, holders, waitVars, faults>>

\* reap_if_exited and take_output, once both pipes have ended.
Reap ==
  /\ pc = "reap"
  /\ CASE ~PipesClosed \/ leader = "running" -> Goto("check") /\ UNCHANGED <<leader, group>>
       [] PipesClosed /\ leader = "exited" -> Finish("ok") /\ leader' = "reaped" /\ group' = FALSE
       [] PipesClosed /\ leader = "lost" -> Fail /\ group' = FALSE /\ UNCHANGED leader
  /\ UNCHANGED <<callVars, stdin, outputVars, timeVars, alive, grouped, holders,
                 observed, astray, faults>>

\* The deadline and the grace for an escaped pipe; else poll and go round again.
CheckTime ==
  /\ pc = "check"
  /\ IF left = 0 \/ grace = 0 THEN Fail ELSE Goto("out")
  /\ UNCHANGED <<callVars, stdin, outputVars, timeVars, processVars, waitVars, faults>>

(***************************************************************************)
(* cleanup.                                                                *)
(***************************************************************************)
\* Mutant: a child that has exited leaves nothing to terminate.
StartCleanupRunning ==
  /\ pc = "cleanup"
  /\ stdin' = Closed /\ cleaning' = CleanupTime
  /\ ObserveTo(Goto("terminate"), Goto("drain"), Unclean("drain"))
  /\ UNCHANGED <<callVars, outputVars, left, hard, grace, astray, faults>>

\* Closing stdin, then a look at the child; its group goes unless nothing holds a pipe.
StartCleanup ==
  /\ pc = "cleanup"
  /\ stdin' = Closed /\ cleaning' = CleanupTime
  /\ ObserveTo(Goto("terminate"),
               Goto(IF PipesClosed THEN "drain" ELSE "terminate"),
               Unclean("drain"))
  /\ UNCHANGED <<callVars, outputVars, left, hard, grace, astray, faults>>

\* kill_process_group; a child with the owner's own pipes is killed alone.
Terminate ==
  LET killed == IF mode = "direct" THEN {Leader} ELSE grouped
      done   == IF mode = "direct" THEN leader = "running" ELSE group
  IN  /\ pc = "terminate"
      /\ \/ /\ done /\ Goto("drain")
            /\ alive' = alive \ killed /\ holders' = holders \ killed /\ grouped' = grouped \ killed
            /\ leader' = IF leader = "running" THEN "exited" ELSE leader
            /\ astray' = (astray \/ leader = "reaped")
            /\ UNCHANGED faults
         \/ ~done /\ Goto("drain") /\ UNCHANGED <<processVars, astray, faults>>
         \/ done /\ Fault /\ Unclean("drain") /\ UNCHANGED <<processVars, astray>>
      /\ UNCHANGED <<callVars, stdin, outputVars, timeVars, observed, group>>

\* The loop drains the pipes, whatever they hold ...
DrainAll ==
  /\ pc = "drain"
  /\ buf' = Emptied(Pipes) /\ seen' = SeenAfter(Pipes)
  /\ kept' = [p \in Pipes |-> Min({kept[p] + buf[p], Limit})]
  /\ \/ Goto("clean") /\ UNCHANGED faults
     \/ Fault /\ Unclean("clean")
  /\ UNCHANGED <<callVars, stdin, pending, timeVars, processVars, waitVars>>

\* ... until the child is waited for or the time is over; it may then be left behind.
Clean ==
  /\ pc = "clean"
  /\ CASE leader \in {"exited", "reaped"} -> pc' = "done" /\ leader' = "reaped" /\ UNCHANGED result
       [] leader = "lost" -> Finish("unclean") /\ UNCHANGED leader
       [] leader = "running" /\ cleaning = 0 -> Finish("unclean") /\ UNCHANGED leader
       [] leader = "running" /\ cleaning > 0 -> Goto("drain") /\ UNCHANGED leader
  /\ group' = (group /\ pc' # "done")
  /\ UNCHANGED <<callVars, stdin, outputVars, timeVars, alive, grouped, holders,
                 observed, astray, faults>>

\* wait_direct, for as long as the program runs.
WaitDirect ==
  /\ pc = "wait"
  /\ \/ leader = "exited" /\ leader' = "reaped" /\ Finish("ok") /\ UNCHANGED <<group, faults>>
     \/ leader = "lost" /\ Finish("unclean") /\ group' = FALSE /\ UNCHANGED <<leader, faults>>
     \/ Fault /\ Fail /\ UNCHANGED <<leader, group>>
  /\ UNCHANGED <<callVars, stdin, outputVars, timeVars, alive, grouped, holders, observed, astray>>

(***************************************************************************)
(* The processes and the clock.                                            *)
(***************************************************************************)
\* A process puts something into a pipe that has room.
Output(p) ==
  /\ holders # {} /\ pc # "done" /\ buf[p] < Capacity
  /\ buf' = [buf EXCEPT ![p] = @ + 1]
  /\ UNCHANGED <<callVars, pc, stdin, kept, pending, seen, timeVars, processVars, waitVars,
                 result, faults>>

Input ==
  /\ leader = "running" /\ stdin \in 1..Capacity
  /\ stdin' = stdin - 1
  /\ UNCHANGED <<callVars, pc, outputVars, timeVars, processVars, waitVars, result, faults>>

Quit(d) ==
  /\ d \in alive
  /\ alive' = alive \ {d} /\ holders' = holders \ {d} /\ grouped' = grouped \ {d}
  /\ leader' = IF d = Leader THEN "exited" ELSE leader

CloseOutput(d) == d \in holders /\ holders' = holders \ {d} /\ UNCHANGED <<leader, alive, grouped>>

\* setsid or setpgid; the leader of a group cannot leave it.
Escape(d) ==
  d \in grouped \ {Leader} /\ grouped' = grouped \ {d} /\ UNCHANGED <<leader, alive, holders>>

\* Somebody else waits for the child, which the SIGCHLD disposition should rule out.
Lose == leader = "exited" /\ Fault /\ leader' = "lost" /\ UNCHANGED <<alive, grouped, holders>>

Process ==
  /\ pc # "done"
  /\ \/ (\E d \in alive : Quit(d) \/ CloseOutput(d) \/ Escape(d)) /\ UNCHANGED faults
     \/ Lose
  /\ UNCHANGED <<callVars, pc, stdin, outputVars, timeVars, waitVars, result>>

Less(n) == IF n = 0 THEN 0 ELSE n - 1

Tick ==
  /\ pc # "done"
  /\ {left, hard, cleaning} # {0} \/ grace \notin {0, Off}
  /\ left' = Less(left) /\ hard' = Less(hard) /\ cleaning' = Less(cleaning)
  /\ grace' = IF grace = Off THEN Off ELSE Less(grace)
  /\ UNCHANGED <<callVars, pc, stdin, outputVars, processVars, waitVars, result, faults>>

(***************************************************************************)
(* Specification.                                                          *)
(***************************************************************************)
Init ==
  /\ mode \in Modes
  /\ pc = CASE mode = "capture" -> "out" [] mode = "direct" -> "wait" [] OTHER -> "between"
  /\ want = 0 /\ need = 0 /\ pending = 0
  /\ stdin = IF mode = "batch" THEN 0 ELSE Closed
  /\ buf = [p \in Pipes |-> 0] /\ kept = [p \in Pipes |-> 0]
  /\ seen = IF mode = "direct" THEN Pipes ELSE {}
  /\ left = IdleTime /\ hard = HardTime /\ grace = Off /\ cleaning = 0
  /\ leader = "running" /\ alive = {Leader} \cup Descendants /\ grouped = alive
  /\ holders = IF mode = "direct" THEN {} ELSE alive
  /\ observed = FALSE /\ group = (mode # "direct") /\ astray = FALSE
  /\ result = "none" /\ faults = 0

Owner ==
  \/ Between \/ Write \/ Read
  \/ Drain("out", "err") \/ Drain("err", "observe") \/ Observe \/ Reap \/ CheckTime
  \/ StartCleanup \/ Terminate \/ DrainAll \/ Clean \/ WaitDirect

Over == pc = "done" /\ UNCHANGED vars

Next == Owner \/ (\E p \in Pipes : Output(p)) \/ Input \/ Process \/ Tick \/ Over

Spec == Init /\ [][Next]_vars

\* The owner's thread runs.  Nothing is assumed of the child, its descendants or the clock,
\* and no call has to fail.
FairSpec == Spec /\ WF_vars(Owner /\ UNCHANGED faults)

(***************************************************************************)
(* Properties.                                                             *)
(***************************************************************************)
TypeOK ==
  /\ mode \in Modes /\ pc \in Locations
  /\ want \in 0..Request /\ need \in 0..Max({Answer, 1})
  /\ stdin \in 0..Closed
  /\ buf \in [Pipes -> 0..Capacity] /\ kept \in [Pipes -> 0..Limit]
  /\ pending \in 0..MaxPending /\ seen \subseteq Pipes
  /\ left \in 0..IdleTime /\ hard \in 0..HardTime
  /\ grace \in 0..Off /\ cleaning \in 0..CleanupTime
  /\ leader \in {"running", "exited", "reaped", "lost"}
  /\ alive \subseteq {Leader} \cup Descendants /\ grouped \subseteq alive /\ holders \subseteq alive
  /\ observed \in BOOLEAN /\ group \in BOOLEAN /\ astray \in BOOLEAN
  /\ result \in {"none", "ok", "failed", "unclean"} /\ faults \in 0..MaxFaults

\* Output that is handed over is all there will ever be: nothing is left in the pipes,
\* nobody holds them, and the child's status is known (capture, take_output).
OutputWhole ==
  pc = "done" /\ result = "ok" =>
    /\ holders = {} /\ leader = "reaped"
    /\ \A p \in Pipes : buf[p] = 0

\* The group is never signalled after the child was waited for: its number may be
\* somebody else's by then (observe_exit with WNOWAIT, process_group).
NeverAstray == ~astray

\* A call that failed, and does not say that its cleanup did, has waited for the child,
\* and nothing in the child's group still holds its pipes (cleanup).
FailureCleansUp ==
  pc = "done" /\ result = "failed" /\ mode # "direct" =>
    leader = "reaped" /\ holders \cap grouped = {}

\* Whatever the child and its descendants do, keep open or keep sending, if only the clock
\* goes on the owner is through with them in the end (deadline, hard_deadline, pipe_grace,
\* CLEANUP_TIMEOUT): with each call on a batch, with a listing, however long it is, and with
\* a capture.  A direct child is waited for without a deadline.
Returns ==
  WF_vars(Tick) =>
    /\ mode = "batch" /\ pc # "between" ~> pc \in {"between", "done"}
    /\ mode \in {"capture", "listing"} ~> pc = "done"

\* No pipe stays full while the owner is in a call: it empties both while it waits for
\* room in the third, so that neither side waits for the other (wait_batch_write).
NoPipeStuck ==
  \A p \in Pipes :
    (buf[p] = Capacity /\ pc # "between") ~> (buf[p] < Capacity \/ pc \in {"between", "done"})
=============================================================================
