-------------------------- MODULE RecordTxnProofs --------------------------
(***************************************************************************)
(* Theorems about RecordTxn, for any number of transactions, stages and    *)
(* faults: records are whole, what succeeded is durable, and the record is *)
(* a register.                                                             *)
(***************************************************************************)
EXTENDS RecordTxn, TLAPS

(***************************************************************************)
(* The inductive invariant.                                                *)
(***************************************************************************)
\* What the final name leads to when t has succeeded.
Goal(t) == IF op[t] = "remove" THEN None ELSE t

Succeeded(t) == pc[t] = "done" /\ result[t] = "ok"
Settled(t)   == pc[t] = "return" \/ Succeeded(t)
Landed(t)    == pc[t] \in {"verify", "published", "displaced", "drop", "drop_unlink", "sync"}
                  \/ Settled(t)

\* Only whole inodes have the final name; a temporary that is not whole is the writer's own.
WholeInv ==
  \A d \in past : /\ d.final \in whole \cup {None}
                  /\ \A t \in Txns : d.tmp[t] \in whole \cup {t, None}

\* What is renamed has been written and synced.
ReadyInv(t) ==
  pc[t] \in {"commit", "link", "verify", "compare", "exchange", "published", "displaced",
             "drop", "drop_unlink", "rollback", "unswap", "restored"} => t \in whole

\* Which operation takes which steps.
OpInv(t) ==
  /\ pc[t] \in {"link", "verify"} => op[t] = "create"
  /\ pc[t] \in {"begin", "compare", "exchange", "published", "displaced", "drop", "drop_unlink",
                "rollback", "unswap", "restored"} => op[t] = "replace" /\ expected[t] # None
  /\ pc[t] \in {"open", "write", "commit"} =>
       op[t] = "create" \/ (op[t] = "replace" /\ expected[t] # None)
  /\ pc[t] \in {"read", "stat", "unlink"} => op[t] \in {"remove", "sweep"}
  /\ pc[t] = "precedes" => op[t] = "sweep"
  /\ pc[t] = "new" => op[t] = "sweep"

\* What can be found at the temporary name.
TmpInv(t) ==
  /\ pc[t] = "new" => \A d \in past : d.tmp[t] = None
  /\ pc[t] \in {"begin", "open", "precedes", "read", "stat", "unlink"} => dir.tmp[t] = None
  /\ pc[t] \in {"write", "commit", "link", "compare", "exchange"} => dir.tmp[t] \in {t, None}
  /\ pc[t] = "unswap" => dir.tmp[t] \in {expected[t], None}
  /\ (op[t] = "replace" /\ (pc[t] = "sync" \/ Settled(t))) => dir.tmp[t] = None

\* A transaction on its way to success has left its goal at the final name.
WriterInv(t) == op[t] # "sweep" /\ writer = t /\ Landed(t) => dir.final = Goal(t)

\* Once it has synced, so do all directories a power cut can leave.
SettledInv(t) ==
  op[t] # "sweep" /\ Settled(t) =>
    \A d \in past : /\ op[t] = "replace" => d.tmp[t] = None
                    /\ writer = t => d.final = Goal(t)

\* A transaction that cleans up reports a failure.
AbortInv(t) == pc[t] \in {"abort", "abort_unlink", "abort_sync"} =>
                 result[t] \in {"exists", "error", "doubt"}

Local(t) == /\ ReadyInv(t) /\ OpInv(t) /\ TmpInv(t)
            /\ WriterInv(t) /\ SettledInv(t) /\ AbortInv(t)

IInv == TypeOK /\ WholeInv /\ \A t \in Txns : Local(t)

(***************************************************************************)
(* Lemmas about the directory.                                             *)
(***************************************************************************)
\* A directory with one temporary name led elsewhere.
LEMMA TmpFacts ==
  ASSUME NEW d \in Directories, NEW t \in Txns, NEW l \in Links
  PROVE  LET e == [d EXCEPT !.tmp[t] = l]
         IN  e \in Directories /\ e.final = d.final /\ e.tmp = [d.tmp EXCEPT ![t] = l]
BY DEF Directories

\* The other transactions keep their part of the invariant, whatever t does.
LEMMA Others ==
  ASSUME IInv, NEW t \in Txns, NEW u \in Txns, u # t,
         pc'[u] = pc[u], result'[u] = result[u], op'[u] = op[u], expected'[u] = expected[u],
         whole \subseteq whole', past' \subseteq past \cup {dir'},
         dir'.tmp[u] \in {dir.tmp[u], None},
         writer' = t \/ (writer' = writer /\ dir'.final = dir.final)
  PROVE  Local(u)'
<1>1. Local(u)
  BY DEF IInv
<1>2. (Landed(u)' <=> Landed(u)) /\ (Settled(u)' <=> Settled(u)) /\ Goal(u)' = Goal(u)
  BY DEF Landed, Settled, Succeeded, Goal
<1>3. ReadyInv(u)' /\ OpInv(u)' /\ AbortInv(u)'
  BY <1>1 DEF Local, ReadyInv, OpInv, AbortInv
<1>4. TmpInv(u)'
  BY <1>1, <1>2 DEF IInv, TypeOK, Local, TmpInv
<1>5. WriterInv(u)'
  BY <1>1, <1>2 DEF Local, WriterInv
<1>6. SettledInv(u)'
  <2> SUFFICES ASSUME op[u] # "sweep", Settled(u), NEW d \in past'
               PROVE  /\ op[u] = "replace" => d.tmp[u] = None
                      /\ writer' = u => d.final = Goal(u)
    BY <1>2 DEF SettledInv
  <2>1. CASE d \in past
    BY <2>1, <1>1 DEF Local, SettledInv
  <2>2. CASE d = dir'
    <3>1. op[u] = "replace" => dir.tmp[u] = None
      BY <1>1 DEF Local, TmpInv
    <3>2. writer = u => dir.final = Goal(u)
      BY <1>1 DEF Local, WriterInv, Landed
    <3> QED
      BY <2>2, <3>1, <3>2
  <2> QED
    BY <2>1, <2>2
<1> QED
  BY <1>3, <1>4, <1>5, <1>6 DEF Local

\* What a step of t leaves alone of the other transactions.
Framed(t) ==
  /\ whole \subseteq whole' /\ past' \subseteq past \cup {dir'}
  /\ writer' = t \/ (writer' = writer /\ dir'.final = dir.final)
  /\ \A u \in Txns \ {t} :
       /\ pc'[u] = pc[u] /\ result'[u] = result[u]
       /\ op'[u] = op[u] /\ expected'[u] = expected[u]
       /\ dir'.tmp[u] \in {dir.tmp[u], None}

\* So that a step has to be looked at for t alone.
LEMMA Frame ==
  ASSUME IInv, NEW t \in Txns, Framed(t), TypeOK', WholeInv', Local(t)'
  PROVE  IInv'
<1>1. \A u \in Txns \ {t} : Local(u)'
  BY Others DEF Framed
<1> QED
  BY <1>1 DEF IInv

\* A transaction that has failed is out of the invariant.
LEMMA FailedLocal ==
  ASSUME NEW t \in Txns, pc'[t] = "done", result'[t] # "ok"
  PROVE  Local(t)'
BY DEF Local, ReadyInv, OpInv, TmpInv, WriterInv, SettledInv, AbortInv, Landed, Settled, Succeeded

\* A step that changes nothing but where t is.
LEMMA QuietStep ==
  ASSUME IInv, NEW t \in Txns, NEW to \in Locations, NEW code \in Results,
         UNCHANGED <<dir, past, whole, callVars, writer>>, faults' \in 0..MaxFaults,
         pc' = [pc EXCEPT ![t] = to], result' = [result EXCEPT ![t] = code],
         Local(t)'
  PROVE  IInv'
<1>1. TypeOK'
  BY DEF IInv, TypeOK, callVars
<1>2. WholeInv'
  BY DEF IInv, WholeInv
<1>3. Framed(t)
  BY DEF IInv, TypeOK, Framed, callVars
<1> QED
  BY <1>1, <1>2, <1>3, Frame

\* A failure that changes nothing.
LEMMA QuietFailure ==
  ASSUME IInv, NEW t \in Txns, NEW code \in Results \ {"ok"},
         UNCHANGED <<dir, past, whole, callVars, writer>>, faults' \in 0..MaxFaults,
         Finish(t, code)
  PROVE  IInv'
<1>1. pc'[t] = "done" /\ result'[t] # "ok"
  BY DEF Finish, IInv, TypeOK
<1> QED
  BY <1>1, FailedLocal, QuietStep DEF Finish, Locations

\* A fault is counted.
LEMMA FaultType == ASSUME TypeOK PROVE /\ Fault => faults' \in 0..MaxFaults
                                       /\ UNCHANGED faults => faults' \in 0..MaxFaults
BY BoundAssumption DEF Fault, TypeOK

\* t moves from one location to another, and nothing else happens.
Passes(t, at, to) ==
  /\ pc[t] = at /\ pc'[t] = to /\ result'[t] = result[t]
  /\ UNCHANGED <<dir, past, whole, callVars, writer>>

\* A comparison that succeeds leads on to a location whose part of the invariant holds.
LEMMA CheckStep ==
  ASSUME IInv, NEW t \in Txns, NEW at \in Running, NEW STATE ok,
         NEW to \in Locations, NEW code \in Results \ {"ok"},
         Check(t, at, ok, to, code),
         ok /\ Passes(t, at, to) => Local(t)'
  PROVE  IInv'
<1>1. faults' \in 0..MaxFaults
  BY FaultType DEF Check, IInv
<1>2. CASE ok
  <2>1. pc' = [pc EXCEPT ![t] = to] /\ result' = [result EXCEPT ![t] = result[t]]
    BY <1>2 DEF Check, Goto, IInv, TypeOK
  <2>2. pc'[t] = to /\ result'[t] = result[t] /\ result[t] \in Results
    BY <2>1 DEF IInv, TypeOK
  <2> QED
    BY <1>1, <1>2, <2>1, <2>2, QuietStep DEF Check, Passes
<1>3. CASE ~ok
  BY <1>1, <1>3, QuietFailure DEF Check
<1> QED
  BY <1>2, <1>3

(***************************************************************************)
(* The steps that change nothing but where a transaction is.               *)
(***************************************************************************)
\* The record is read before anything is made.
LEMMA BeginStep == ASSUME IInv, NEW t \in Txns, Begin(t) PROVE IInv'
<1>1. dir.final = expected[t] /\ Passes(t, "begin", "open") => Local(t)'
  BY DEF IInv, Passes, Local, ReadyInv, OpInv, TmpInv, WriterInv, SettledInv, AbortInv, Landed,
         Settled, Succeeded, Goal, callVars
<1> QED
  BY <1>1, CheckStep DEF Begin, Running, Locations, CommitSteps, UndoSteps, RemoveSteps, Results

\* An interrupted rename ends the call.
LEMMA UnknownStep == ASSUME IInv, NEW t \in Txns, Unknown(t) PROVE IInv'
<1>1. FALSE /\ Passes(t, "unknown", "done") => Local(t)'
  BY DEF IInv, Passes, Local, ReadyInv, OpInv, TmpInv, WriterInv, SettledInv, AbortInv, Landed,
         Settled, Succeeded, Goal, callVars
<1> QED
  BY <1>1, CheckStep DEF Unknown, Running, Locations, CommitSteps, UndoSteps, RemoveSteps, Results

\* Only its own exchange is undone.
LEMMA RollbackStep == ASSUME IInv, NEW t \in Txns, Rollback(t) PROVE IInv'
<1>1. dir.final = t /\ dir.tmp[t] = expected[t] /\ Passes(t, "rollback", "unswap") => Local(t)'
  BY DEF IInv, Passes, Local, ReadyInv, OpInv, TmpInv, WriterInv, SettledInv, AbortInv, Landed,
         Settled, Succeeded, Goal, callVars
<1> QED
  BY <1>1, CheckStep
  DEF Rollback, Running, Locations, CommitSteps, UndoSteps, RemoveSteps, Results

\* A temporary is swept if it precedes the record.
LEMMA PredecessorStep == ASSUME IInv, NEW t \in Txns, Predecessor(t) PROVE IInv'
<1>1. /\ expected[t] \in whole /\ Precedes(expected[t], dir.final) /\ Passes(t, "precedes", "read")
      => Local(t)'
  BY DEF IInv, Passes, Local, ReadyInv, OpInv, TmpInv, WriterInv, SettledInv, AbortInv, Landed,
         Settled, Succeeded, Goal, callVars
<1> QED
  BY <1>1, CheckStep
  DEF Predecessor, Running, Locations, CommitSteps, UndoSteps, RemoveSteps, Results

\* A new record is compared before its sync.
LEMMA VerifyStep == ASSUME IInv, NEW t \in Txns, Verify(t) PROVE IInv'
<1>1. dir.final = t /\ Passes(t, "verify", "sync") => Local(t)'
  BY DEF IInv, Passes, Local, ReadyInv, OpInv, TmpInv, WriterInv, SettledInv, AbortInv, Landed,
         Settled, Succeeded, Goal, callVars
<1> QED
  BY <1>1, CheckStep DEF Verify, Running, Locations, CommitSteps, UndoSteps, RemoveSteps, Results

\* A comparison that fails here cleans up.
LEMMA CommitStep == ASSUME IInv, NEW t \in Txns, Commit(t) PROVE IInv'
<1> USE DEF Commit
<1>1. CASE dir.tmp[t] = t
  <2> DEFINE to == IF op[t] = "create" THEN "link" ELSE "compare"
  <2>1. pc'[t] = to /\ pc' = [pc EXCEPT ![t] = to] /\ result' = [result EXCEPT ![t] = result[t]]
    BY <1>1 DEF Goto, IInv, TypeOK
  <2>2. Local(t)'
    BY <2>1
    DEF IInv, TypeOK, Local, ReadyInv, OpInv, TmpInv, WriterInv, SettledInv, AbortInv, Landed,
        Settled, Succeeded, Goal, callVars
  <2> QED
    BY <1>1, <2>1, <2>2, QuietStep, FaultType
    DEF IInv, TypeOK, Running, Locations, CommitSteps, UndoSteps, RemoveSteps, Results
<1>2. CASE dir.tmp[t] # t
  <2>1. pc'[t] = "abort" /\ result'[t] = "error"
    BY <1>2 DEF Abort, IInv, TypeOK
  <2>2. Local(t)'
    BY <2>1
    DEF IInv, Local, ReadyInv, OpInv, TmpInv, WriterInv, SettledInv, AbortInv, Landed, Settled,
        Succeeded, Goal, callVars
  <2> QED
    BY <1>2, <2>1, <2>2, QuietStep, FaultType
    DEF Abort, IInv, Running, Locations, CommitSteps, UndoSteps, RemoveSteps, Results
<1> QED
  BY <1>1, <1>2

LEMMA CompareStep == ASSUME IInv, NEW t \in Txns, Compare(t) PROVE IInv'
<1> USE DEF Compare
<1>1. CASE dir.final = expected[t]
  <2>1. /\ pc'[t] = "exchange" /\ pc' = [pc EXCEPT ![t] = "exchange"]
        /\ result' = [result EXCEPT ![t] = result[t]]
    BY <1>1 DEF Goto, IInv, TypeOK
  <2>2. Local(t)'
    BY <2>1
    DEF IInv, TypeOK, Local, ReadyInv, OpInv, TmpInv, WriterInv, SettledInv, AbortInv, Landed,
        Settled, Succeeded, Goal, callVars
  <2> QED
    BY <1>1, <2>1, <2>2, QuietStep, FaultType
    DEF IInv, TypeOK, Running, Locations, CommitSteps, UndoSteps, RemoveSteps, Results
<1>2. CASE dir.final # expected[t]
  <2>1. pc'[t] = "abort" /\ result'[t] = "error"
    BY <1>2 DEF Abort, IInv, TypeOK
  <2>2. Local(t)'
    BY <2>1
    DEF IInv, Local, ReadyInv, OpInv, TmpInv, WriterInv, SettledInv, AbortInv, Landed, Settled,
        Succeeded, Goal, callVars
  <2> QED
    BY <1>2, <2>1, <2>2, QuietStep, FaultType
    DEF Abort, IInv, Running, Locations, CommitSteps, UndoSteps, RemoveSteps, Results
<1> QED
  BY <1>1, <1>2

\* After an exchange both names are read, or it is undone.
LEMMA RereadStep ==
  ASSUME IInv, NEW t \in Txns, NEW at \in {"published", "displaced"}, NEW STATE ok,
         NEW to \in {"displaced", "drop"}, Reread(t, at, ok, to)
  PROVE  IInv'
<1>1. PICK where \in {to, "rollback"} : pc[t] = at /\ Goto(t, where)
  BY DEF Reread
<1>2. /\ pc'[t] = where /\ pc' = [pc EXCEPT ![t] = where]
      /\ result' = [result EXCEPT ![t] = result[t]]
  BY <1>1 DEF Goto, IInv, TypeOK
<1>3. UNCHANGED <<dir, past, whole, callVars, writer>> /\ faults' \in 0..MaxFaults
  BY FaultType DEF Reread, IInv
<1>4. Local(t)'
  BY <1>1, <1>2, <1>3
  DEF IInv, TypeOK, Local, ReadyInv, OpInv, TmpInv, WriterInv, SettledInv, AbortInv, Landed,
      Settled, Succeeded, Goal, callVars
<1> QED
  BY <1>2, <1>3, <1>4, QuietStep
  DEF IInv, TypeOK, Running, Locations, CommitSteps, UndoSteps, RemoveSteps, Results

\* A commit that does not find its binding at the end fails.
LEMMA ReturnStep == ASSUME IInv, NEW t \in Txns, Return(t) PROVE IInv'
<1>1. PICK code \in {"doubt", "error", "ok"} :
        /\ pc[t] = "return" /\ Finish(t, code)
        /\ UNCHANGED <<dir, past, whole, callVars, writer, faults>>
  BY DEF Return, Check
<1>2. /\ pc'[t] = "done" /\ pc' = [pc EXCEPT ![t] = "done"]
      /\ result' = [result EXCEPT ![t] = code]
  BY <1>1 DEF Finish, IInv, TypeOK
<1>3. Local(t)'
  BY <1>1, <1>2
  DEF IInv, TypeOK, Local, ReadyInv, OpInv, TmpInv, WriterInv, SettledInv, AbortInv, Landed,
      Settled, Succeeded, Goal, callVars
<1> QED
  BY <1>1, <1>2, <1>3, QuietStep, FaultType
  DEF IInv, TypeOK, Running, Locations, CommitSteps, UndoSteps, RemoveSteps, Results

\* An exchange that has been undone is cleaned up, or left to recovery.
LEMMA RestoredStep == ASSUME IInv, NEW t \in Txns, Restored(t) PROVE IInv'
<1>1. CASE Abort(t, "doubt")
  <2>1. pc'[t] = "abort" /\ result'[t] = "doubt"
    BY <1>1 DEF Abort, IInv, TypeOK
  <2>2. Local(t)'
    BY <2>1
    DEF IInv, Local, ReadyInv, OpInv, TmpInv, WriterInv, SettledInv, AbortInv, Landed, Settled,
        Succeeded, Goal, callVars
  <2> QED
    BY <1>1, <2>1, <2>2, QuietStep, FaultType
    DEF Restored, Abort, IInv, Running, Locations, CommitSteps, UndoSteps, RemoveSteps, Results
<1>2. CASE Finish(t, "doubt")
  BY <1>2, QuietFailure, FaultType DEF Restored, Results, IInv
<1> QED
  BY <1>1, <1>2 DEF Restored

\* A kill leaves everything as it is.
LEMMA KillStep == ASSUME IInv, NEW t \in Txns, Kill(t) PROVE IInv'
BY QuietFailure, FaultType DEF Kill, Results, IInv

(***************************************************************************)
(* The steps that change the directory.                                    *)
(***************************************************************************)
\* What may be put into the directory without breaking WholeInv.
LEMMA ChangeWhole ==
  ASSUME IInv, NEW t \in Txns, past' \subseteq past \cup {dir'}, whole \subseteq whole',
         dir'.final \in whole \cup {None}, dir'.tmp[t] \in whole \cup {t, None},
         \A u \in Txns \ {t} : dir'.tmp[u] \in {dir.tmp[u], None}
  PROVE  WholeInv'
<1> SUFFICES ASSUME NEW d \in past', NEW u \in Txns
             PROVE  d.final \in whole \cup {None} /\ d.tmp[u] \in whole \cup {u, None}
  BY DEF WholeInv
<1>1. CASE d \in past
  BY <1>1 DEF IInv, WholeInv
<1>2. CASE d = dir'
  BY <1>2 DEF IInv, WholeInv, TypeOK
<1> QED
  BY <1>1, <1>2

\* The same for TypeOK.
LEMMA ChangeType ==
  ASSUME IInv, NEW t \in Txns, dir' \in Directories, past' \subseteq past \cup {dir'},
         dir' \in past', whole' \subseteq Inodes,
         stage' \in [Inodes -> 1..Stages], op' \in [Txns -> Ops], expected' \in [Txns -> Links],
         target' \in [Txns -> Txns], NEW to \in Locations, NEW code \in Results,
         pc' = [pc EXCEPT ![t] = to], result' = [result EXCEPT ![t] = code],
         writer' \in {writer, t}, faults' \in 0..MaxFaults
  PROVE  TypeOK'
BY DEF IInv, TypeOK

\* A step that changes the directory of t, and nothing of another transaction but that it may
\* take away its temporary.
LEMMA ChangeStep ==
  ASSUME IInv, NEW t \in Txns, NEW to \in Locations, NEW code \in Results,
         pc' = [pc EXCEPT ![t] = to], result' = [result EXCEPT ![t] = code],
         UNCHANGED <<whole, callVars>>, faults' \in 0..MaxFaults,
         dir' \in Directories, past' \subseteq past \cup {dir'}, dir' \in past',
         writer' = t \/ (writer' = writer /\ dir'.final = dir.final),
         dir'.final \in whole \cup {None}, dir'.tmp[t] \in whole \cup {t, None},
         \A u \in Txns \ {t} : dir'.tmp[u] \in {dir.tmp[u], None},
         Local(t)'
  PROVE  IInv'
<1>1. TypeOK'
  BY ChangeType DEF IInv, TypeOK, callVars
<1>2. WholeInv'
  BY ChangeWhole
<1>3. Framed(t)
  BY DEF IInv, TypeOK, Framed, callVars
<1> QED
  BY <1>1, <1>2, <1>3, Frame

\* A temporary that could not be made leaves nothing.
LEMMA OpenStep == ASSUME IInv, NEW t \in Txns, Open(t) PROVE IInv'
<1>1. CASE Change([dir EXCEPT !.tmp[t] = t]) /\ Goto(t, "write") /\ UNCHANGED faults
  <2>1. /\ dir' \in Directories /\ dir'.final = dir.final
        /\ dir'.tmp = [dir.tmp EXCEPT ![t] = t] /\ past' = past \cup {dir'}
    BY <1>1, TmpFacts DEF Change, IInv, TypeOK, Links, Inodes
  <2>2. dir'.tmp[t] = t /\ \A u \in Txns \ {t} : dir'.tmp[u] = dir.tmp[u]
    BY <2>1 DEF IInv, TypeOK, Directories
  <2>3. /\ pc'[t] = "write" /\ pc' = [pc EXCEPT ![t] = "write"]
        /\ result' = [result EXCEPT ![t] = result[t]]
    BY <1>1 DEF Goto, IInv, TypeOK
  <2>4. Local(t)'
    BY <2>1, <2>2, <2>3
    DEF Open, IInv, TypeOK, Local, ReadyInv, OpInv, TmpInv, WriterInv, SettledInv, AbortInv,
        Landed, Settled, Succeeded, Goal, callVars
  <2>5. dir'.final \in whole \cup {None}
    BY <2>1 DEF IInv, TypeOK, WholeInv
  <2> QED
    BY <1>1, <2>1, <2>2, <2>3, <2>4, <2>5, ChangeStep, FaultType
    DEF Open, IInv, TypeOK, Running, Locations, CommitSteps, UndoSteps, RemoveSteps, Results
<1>2. CASE Fault /\ Finish(t, "error") /\ UNCHANGED <<dir, past>>
  BY <1>2, QuietFailure, FaultType DEF Open, Results, IInv
<1> QED
  BY <1>1, <1>2 DEF Open

\* What has been synced is whole.
LEMMA InitializeStep == ASSUME IInv, NEW t \in Txns, Initialize(t) PROVE IInv'
<1>1. CASE whole' = whole \cup {t} /\ Goto(t, "commit") /\ UNCHANGED faults
  <2>1. /\ pc'[t] = "commit" /\ pc' = [pc EXCEPT ![t] = "commit"]
        /\ result' = [result EXCEPT ![t] = result[t]]
    BY <1>1 DEF Goto, IInv, TypeOK
  <2>2. UNCHANGED <<dir, past, callVars, writer>>
    BY DEF Initialize
  <2>3. TypeOK'
    BY <1>1, <2>1, <2>2, ChangeType
    DEF IInv, TypeOK, callVars, Inodes, Running, Locations, CommitSteps, UndoSteps, RemoveSteps,
        Results
  <2>4. WholeInv'
    BY <1>1, <2>2 DEF IInv, WholeInv
  <2>5. Framed(t)
    BY <1>1, <2>1, <2>2 DEF IInv, TypeOK, Framed, callVars
  <2>6. Local(t)'
    BY <1>1, <2>1, <2>2
    DEF Initialize, IInv, TypeOK, Local, ReadyInv, OpInv, TmpInv, WriterInv, SettledInv,
        AbortInv, Landed, Settled, Succeeded, Goal, callVars
  <2> QED
    BY <2>3, <2>4, <2>5, <2>6, Frame
<1>2. CASE Fault /\ Abort(t, "error") /\ UNCHANGED whole
  <2>1. pc'[t] = "abort" /\ result'[t] = "error"
    BY <1>2 DEF Abort, IInv, TypeOK
  <2>2. Local(t)'
    BY <2>1 DEF IInv, Local, ReadyInv, OpInv, TmpInv, WriterInv, SettledInv, AbortInv, Landed,
         Settled, Succeeded, Goal, callVars
  <2> QED
    BY <1>2, <2>1, <2>2, QuietStep, FaultType
    DEF Initialize, Abort, IInv, Running, Locations, CommitSteps, UndoSteps, RemoveSteps, Results
<1> QED
  BY <1>1, <1>2 DEF Initialize

\* A failure that cleans up, or that cannot know what it has done, changes nothing yet.
LEMMA QuietUndo ==
  ASSUME IInv, NEW t \in Txns, NEW to \in {"abort", "unknown"},
         NEW code \in Results, to = "abort" => code \in {"exists", "error", "doubt"},
         pc' = [pc EXCEPT ![t] = to], result' = [result EXCEPT ![t] = code],
         UNCHANGED <<dir, past, whole, callVars, writer>>, faults' \in 0..MaxFaults
  PROVE  IInv'
<1>1. pc'[t] = to /\ result'[t] = code
  BY DEF IInv, TypeOK
<1>2. Local(t)'
  BY <1>1 DEF IInv, Local, ReadyInv, OpInv, TmpInv, WriterInv, SettledInv, AbortInv, Landed,
         Settled, Succeeded
<1> QED
  BY <1>2, QuietStep DEF Running, Locations, CommitSteps, UndoSteps, RemoveSteps, Results

\* The temporary becomes the record ...
LEMMA LinkStep == ASSUME IInv, NEW t \in Txns, Link(t) PROVE IInv'
<1> DEFINE free == dir.final = None /\ dir.tmp[t] # None
           linked == [dir EXCEPT !.final = dir.tmp[t], !.tmp[t] = None]
<1>1. CASE /\ free /\ Change(linked) /\ writer' = t
           /\ \/ Goto(t, "verify") /\ UNCHANGED faults
              \/ Fault /\ Goto(t, "unknown")
  <2>1. pc[t] = "link" /\ UNCHANGED <<whole, callVars>> /\ faults' \in 0..MaxFaults
    BY <1>1, FaultType DEF Link, IInv
  <2>2. dir.tmp[t] = t /\ t \in whole
    BY <1>1, <2>1 DEF IInv, Local, TmpInv, ReadyInv
  <2>3. /\ dir' \in Directories /\ dir'.final = t /\ dir'.tmp = [dir.tmp EXCEPT ![t] = None]
        /\ past' = past \cup {dir'}
    <3>1. dir \in Directories /\ t \in Links /\ None \in Links
      BY DEF IInv, TypeOK, Links, Inodes
    <3>2. dir' = [dir EXCEPT !.final = t, !.tmp[t] = None] /\ past' = past \cup {dir'}
      BY <1>1, <2>2 DEF Change
    <3> QED
      BY <3>1, <3>2 DEF Directories
  <2>4. dir'.tmp[t] = None /\ \A u \in Txns \ {t} : dir'.tmp[u] = dir.tmp[u]
    BY <2>3 DEF IInv, TypeOK, Directories
  <2>5. PICK to \in {"verify", "unknown"} : Goto(t, to)
    BY <1>1
  <2>6. /\ pc'[t] = to /\ pc' = [pc EXCEPT ![t] = to]
        /\ result' = [result EXCEPT ![t] = result[t]]
    BY <2>5 DEF Goto, IInv, TypeOK
  <2>7. Local(t)'
    BY <1>1, <2>1, <2>2, <2>3, <2>4, <2>6
    DEF IInv, TypeOK, Local, ReadyInv, OpInv, TmpInv, WriterInv, SettledInv, AbortInv, Landed,
        Settled, Succeeded, Goal, callVars
  <2> QED
    <3>1. to \in Locations /\ result[t] \in Results
      BY <2>5 DEF IInv, TypeOK, Locations, Running, CommitSteps
    <3>2. dir'.final \in whole /\ dir' \in past'
      BY <2>2, <2>3
    <3> QED
      BY <1>1, <2>1, <2>3, <2>4, <2>6, <2>7, <3>1, <3>2, ChangeStep
<1>2. CASE /\ IF free THEN Fault ELSE UNCHANGED faults
           /\ Abort(t, IF dir.final # None /\ dir.tmp[t] # None THEN "exists" ELSE "error")
           /\ UNCHANGED <<dir, past, writer>>
  <2>1. PICK code \in {"exists", "error"} : Abort(t, code)
    BY <1>2
  <2>2. UNCHANGED <<whole, callVars>> /\ faults' \in 0..MaxFaults
    BY <1>2, FaultType DEF Link, IInv
  <2> QED
    BY <1>2, <2>1, <2>2, QuietUndo DEF Abort, Results
<1>3. CASE /\ free /\ Fault /\ Goto(t, "unknown")
           /\ UNCHANGED <<dir, past, writer>>
  <2>1. result' = [result EXCEPT ![t] = result[t]] /\ result[t] \in Results
    BY <1>3 DEF Goto, IInv, TypeOK
  <2>2. UNCHANGED <<whole, callVars>> /\ faults' \in 0..MaxFaults
    BY <1>3, FaultType DEF Link, IInv
  <2> QED
    BY <1>3, <2>1, <2>2, QuietUndo DEF Goto
<1> QED
  BY <1>1, <1>2, <1>3 DEF Link

\* What an exchange does to the directory.
LEMMA ExchangedFacts ==
  ASSUME IInv, NEW t \in Txns, Change(Exchanged(t))
  PROVE  /\ dir' \in Directories /\ past' = past \cup {dir'}
         /\ dir'.final = dir.tmp[t] /\ dir'.tmp[t] = dir.final
         /\ \A u \in Txns \ {t} : dir'.tmp[u] = dir.tmp[u]
<1>1. dir \in Directories /\ dir.final \in Links /\ dir.tmp[t] \in Links
  BY DEF IInv, TypeOK, Directories
<1>2. dir' = [dir EXCEPT !.final = dir.tmp[t], !.tmp[t] = dir.final] /\ past' = past \cup {dir'}
  BY DEF Change, Exchanged
<1>3. /\ dir' \in Directories /\ dir'.final = dir.tmp[t]
      /\ dir'.tmp = [dir.tmp EXCEPT ![t] = dir.final]
  BY <1>1, <1>2 DEF Directories
<1> QED
  BY <1>1, <1>2, <1>3 DEF Directories

\* ... or changes places with it.
LEMMA ExchangeStep == ASSUME IInv, NEW t \in Txns, Exchange(t) PROVE IInv'
<1>1. CASE /\ Exchangeable(t) /\ Change(Exchanged(t)) /\ writer' = t
           /\ \/ Goto(t, "published") /\ UNCHANGED faults
              \/ Fault /\ Goto(t, "unknown")
  <2>1. pc[t] = "exchange" /\ UNCHANGED <<whole, callVars>> /\ faults' \in 0..MaxFaults
    BY <1>1, FaultType DEF Exchange, IInv
  <2>2. dir.tmp[t] = t /\ t \in whole /\ dir.final \in whole
    BY <1>1, <2>1 DEF IInv, TypeOK, WholeInv, Local, TmpInv, ReadyInv, Exchangeable
  <2>3. /\ dir' \in Directories /\ past' = past \cup {dir'}
        /\ dir'.final = t /\ dir'.tmp[t] = dir.final
        /\ \A u \in Txns \ {t} : dir'.tmp[u] = dir.tmp[u]
    BY <1>1, <2>2, ExchangedFacts
  <2>4. PICK to \in {"published", "unknown"} : Goto(t, to)
    BY <1>1
  <2>5. /\ pc'[t] = to /\ pc' = [pc EXCEPT ![t] = to]
        /\ result' = [result EXCEPT ![t] = result[t]]
    BY <2>4 DEF Goto, IInv, TypeOK
  <2>6. Local(t)'
    BY <1>1, <2>1, <2>2, <2>3, <2>5
    DEF IInv, TypeOK, Local, ReadyInv, OpInv, TmpInv, WriterInv, SettledInv, AbortInv, Landed,
        Settled, Succeeded, Goal, callVars
  <2> QED
    BY <1>1, <2>1, <2>2, <2>3, <2>5, <2>6, ChangeStep
    DEF IInv, TypeOK, Running, Locations, CommitSteps, UndoSteps, RemoveSteps, Results
<1>2. CASE /\ IF Exchangeable(t) THEN Fault ELSE UNCHANGED faults
           /\ Abort(t, "error")
           /\ UNCHANGED <<dir, past, writer>>
  <2>1. UNCHANGED <<whole, callVars>> /\ faults' \in 0..MaxFaults
    BY <1>2, FaultType DEF Exchange, IInv
  <2> QED
    BY <1>2, <2>1, QuietUndo DEF Abort, Results
<1>3. CASE /\ Exchangeable(t) /\ Fault /\ Goto(t, "unknown")
           /\ UNCHANGED <<dir, past, writer>>
  <2>1. result' = [result EXCEPT ![t] = result[t]] /\ result[t] \in Results
    BY <1>3 DEF Goto, IInv, TypeOK
  <2>2. UNCHANGED <<whole, callVars>> /\ faults' \in 0..MaxFaults
    BY <1>3, FaultType DEF Exchange, IInv
  <2> QED
    BY <1>3, <2>1, <2>2, QuietUndo DEF Goto
<1> QED
  BY <1>1, <1>2, <1>3 DEF Exchange

\* The exchange is undone, or fails.
LEMMA UnswapStep == ASSUME IInv, NEW t \in Txns, Unswap(t) PROVE IInv'
<1>1. CASE /\ Exchangeable(t) /\ Change(Exchanged(t)) /\ writer' = t
           /\ Goto(t, "restored")
           /\ UNCHANGED faults
  <2>1. pc[t] = "unswap" /\ UNCHANGED <<whole, callVars>> /\ faults' \in 0..MaxFaults
    BY <1>1, FaultType DEF Unswap, IInv
  <2>2. t \in whole /\ dir.final \in whole /\ dir.tmp[t] \in whole
    BY <1>1, <2>1 DEF IInv, TypeOK, WholeInv, Local, ReadyInv, Exchangeable
  <2>3. /\ dir' \in Directories /\ past' = past \cup {dir'}
        /\ dir'.final = dir.tmp[t] /\ dir'.tmp[t] = dir.final
        /\ \A u \in Txns \ {t} : dir'.tmp[u] = dir.tmp[u]
    BY <1>1, ExchangedFacts
  <2>4. /\ pc'[t] = "restored" /\ pc' = [pc EXCEPT ![t] = "restored"]
        /\ result' = [result EXCEPT ![t] = result[t]]
    BY <1>1 DEF Goto, IInv, TypeOK
  <2>5. Local(t)'
    BY <1>1, <2>1, <2>2, <2>3, <2>4
    DEF IInv, TypeOK, Local, ReadyInv, OpInv, TmpInv, WriterInv, SettledInv, AbortInv, Landed,
        Settled, Succeeded, Goal, callVars
  <2> QED
    BY <1>1, <2>1, <2>2, <2>3, <2>4, <2>5, ChangeStep
    DEF IInv, TypeOK, Running, Locations, CommitSteps, UndoSteps, RemoveSteps, Results
<1>2. CASE /\ IF Exchangeable(t) THEN Fault ELSE UNCHANGED faults
           /\ Finish(t, "doubt")
           /\ UNCHANGED <<dir, past, writer>>
  BY <1>2, QuietFailure, FaultType DEF Unswap, IInv, Results
<1> QED
  BY <1>1, <1>2 DEF Unswap

\* What the removal of a temporary does to the directory.
LEMMA WithoutFacts ==
  ASSUME IInv, NEW u \in Txns, Change(WithoutTmp(u))
  PROVE  /\ dir' \in Directories /\ past' = past \cup {dir'} /\ dir'.final = dir.final
         /\ dir'.final \in whole \cup {None}
         /\ dir'.tmp[u] = None /\ \A w \in Txns \ {u} : dir'.tmp[w] = dir.tmp[w]
<1>1. dir \in Directories /\ None \in Links /\ dir.final \in whole \cup {None}
  BY DEF IInv, TypeOK, WholeInv, Links
<1>2. dir' \in Directories /\ dir'.final = dir.final /\ dir'.tmp = [dir.tmp EXCEPT ![u] = None]
  BY <1>1, TmpFacts DEF Change, WithoutTmp
<1> QED
  BY <1>1, <1>2 DEF Change, Directories

Unlinks(t, u, at, to) ==
  /\ pc[t] = at /\ pc'[t] = to /\ result'[t] = result[t]
  /\ dir'.final = dir.final /\ past' = past \cup {dir'}
  /\ dir'.tmp[t] \in {dir.tmp[t], None} /\ (u = t => dir'.tmp[t] = None)
  /\ UNCHANGED <<whole, callVars, writer>>

\* A transaction moves on after such a removal, of its own temporary or of another's.
LEMMA WithoutStep ==
  ASSUME IInv, NEW t \in Txns, NEW u \in Txns, NEW at \in Running, NEW to \in Locations,
         NEW code \in Results \ {"ok"},
         UnlinkAt(t, at, dir.tmp[u] # None, to, WithoutTmp(u), code), UNCHANGED writer,
         Unlinks(t, u, at, to) => Local(t)'
  PROVE  IInv'
<1>1. UNCHANGED <<whole, callVars>> /\ faults' \in 0..MaxFaults
  BY FaultType DEF UnlinkAt, IInv
<1>2. CASE dir.tmp[u] # None
  <2>1. /\ dir' \in Directories /\ past' = past \cup {dir'} /\ dir'.final = dir.final
        /\ dir'.final \in whole \cup {None}
        /\ dir'.tmp[u] = None /\ \A w \in Txns \ {u} : dir'.tmp[w] = dir.tmp[w]
    BY <1>2, WithoutFacts DEF UnlinkAt
  <2>2. \A w \in Txns : dir'.tmp[w] \in {dir.tmp[w], None}
    BY <2>1
  <2>3. dir'.tmp[t] \in whole \cup {t, None}
    BY <2>2 DEF IInv, TypeOK, WholeInv
  <2>4. pc' = [pc EXCEPT ![t] = to] /\ result' = [result EXCEPT ![t] = result[t]]
    BY <1>2 DEF UnlinkAt, Goto, IInv, TypeOK
  <2>5. pc[t] = at /\ pc'[t] = to /\ result'[t] = result[t] /\ result[t] \in Results
    BY <2>4 DEF UnlinkAt, IInv, TypeOK
  <2>6. Local(t)'
    BY <1>1, <2>1, <2>2, <2>5 DEF Unlinks
  <2> QED
    BY <1>1, <2>1, <2>2, <2>3, <2>4, <2>5, <2>6, ChangeStep
<1>3. CASE dir.tmp[u] = None
  BY <1>1, <1>3, QuietFailure DEF UnlinkAt
<1> QED
  BY <1>2, <1>3

\* The displaced record is read again and unlinked.
LEMMA DropStep == ASSUME IInv, NEW t \in Txns, Drop(t) PROVE IInv'
<1>1. CASE Check(t, "drop", dir.tmp[t] = expected[t], "drop_unlink", "doubt")
  <2>1. dir.tmp[t] = expected[t] /\ Passes(t, "drop", "drop_unlink") => Local(t)'
    BY DEF IInv, Passes, Local, ReadyInv, OpInv, TmpInv, WriterInv, SettledInv, AbortInv, Landed,
         Settled, Succeeded, Goal, callVars
  <2> QED
    BY <1>1, <2>1, CheckStep DEF Running, Locations, CommitSteps, UndoSteps, RemoveSteps, Results
<1>2. CASE /\ UnlinkAt(t, "drop_unlink", dir.tmp[t] # None, "sync", WithoutTmp(t), "doubt")
           /\ UNCHANGED writer
  <2>1. Unlinks(t, t, "drop_unlink", "sync") => Local(t)'
    BY DEF Unlinks, IInv, Local, ReadyInv, OpInv, TmpInv, WriterInv, SettledInv, AbortInv, Landed,
         Settled, Succeeded, Goal, callVars
  <2> QED
    BY <1>2, <2>1, WithoutStep
    DEF Running, Locations, CommitSteps, UndoSteps, RemoveSteps, Results
<1> QED
  BY <1>1, <1>2 DEF Drop

\* A sync leaves one directory for a power cut.
LEMMA SyncStep == ASSUME IInv, NEW t \in Txns, Sync(t) PROVE IInv'
<1>1. CASE past' = {dir} /\ Goto(t, "return") /\ UNCHANGED faults
  <2>1. pc[t] = "sync" /\ UNCHANGED <<dir, whole, callVars, writer>> /\ faults' \in 0..MaxFaults
    BY <1>1, FaultType DEF Sync, IInv
  <2>2. /\ pc'[t] = "return" /\ pc' = [pc EXCEPT ![t] = "return"]
        /\ result' = [result EXCEPT ![t] = result[t]]
    BY <1>1 DEF Goto, IInv, TypeOK
  <2>3. Local(t)'
    BY <1>1, <2>1, <2>2
    DEF IInv, TypeOK, Local, ReadyInv, OpInv, TmpInv, WriterInv, SettledInv, AbortInv, Landed,
        Settled, Succeeded, Goal, callVars
  <2>4. "return" \in Locations /\ result[t] \in Results
    BY DEF Locations, Running, IInv, TypeOK
  <2>5. dir' \in Directories /\ dir.final \in whole \cup {None}
        /\ dir.tmp[t] \in whole \cup {t, None}
    BY <2>1 DEF IInv, TypeOK, WholeInv
  <2> QED
    BY <1>1, <2>1, <2>2, <2>3, <2>4, <2>5, ChangeStep
<1>2. CASE Fault /\ Finish(t, "doubt") /\ UNCHANGED past
  BY <1>2, QuietFailure, FaultType DEF Sync, IInv, Results
<1> QED
  BY <1>1, <1>2 DEF Sync

\* A transaction that fails takes its temporary away.
LEMMA CleanupStep == ASSUME IInv, NEW t \in Txns, Cleanup(t) PROVE IInv'
<1>1. CASE Check(t, "abort", dir.tmp[t] = t, "abort_unlink", "error")
  <2>1. dir.tmp[t] = t /\ Passes(t, "abort", "abort_unlink") => Local(t)'
    BY DEF IInv, Passes, Local, ReadyInv, OpInv, TmpInv, WriterInv, SettledInv, AbortInv, Landed,
         Settled, Succeeded, Goal, callVars
  <2> QED
    BY <1>1, <2>1, CheckStep DEF Running, Locations, CommitSteps, UndoSteps, RemoveSteps, Results
<1>2. CASE /\ UnlinkAt(t, "abort_unlink", dir.tmp[t] # None, "abort_sync", WithoutTmp(t), "error")
           /\ UNCHANGED writer
  <2>1. Unlinks(t, t, "abort_unlink", "abort_sync") => Local(t)'
    BY DEF Unlinks, IInv, Local, ReadyInv, OpInv, TmpInv, WriterInv, SettledInv, AbortInv, Landed,
         Settled, Succeeded, Goal, callVars
  <2> QED
    BY <1>2, <2>1, WithoutStep
    DEF Running, Locations, CommitSteps, UndoSteps, RemoveSteps, Results
<1>3. CASE /\ pc[t] = "abort_sync"
           /\ \/ past' = {dir} /\ Finish(t, result[t]) /\ UNCHANGED faults
              \/ Fault /\ Finish(t, "doubt") /\ UNCHANGED past
           /\ UNCHANGED <<dir, whole, callVars, writer>>
  <2>1. PICK code \in {"exists", "error", "doubt"} : Finish(t, code)
    BY <1>3 DEF IInv, Local, AbortInv
  <2>2. /\ pc'[t] = "done" /\ result'[t] # "ok" /\ pc' = [pc EXCEPT ![t] = "done"]
        /\ result' = [result EXCEPT ![t] = code]
    BY <2>1 DEF Finish, IInv, TypeOK
  <2>3. Local(t)'
    BY <2>2, FailedLocal
  <2>4. faults' \in 0..MaxFaults /\ "done" \in Locations /\ code \in Results
    BY <1>3, FaultType DEF IInv, Locations, Results
  <2>5. /\ dir' \in Directories /\ dir' \in past' /\ past' \subseteq past \cup {dir'}
        /\ dir.final \in whole \cup {None} /\ dir.tmp[t] \in whole \cup {t, None}
    BY <1>3 DEF IInv, TypeOK, WholeInv
  <2> QED
    BY <1>3, <2>2, <2>3, <2>4, <2>5, ChangeStep
<1> QED
  BY <1>1, <1>2, <1>3 DEF Cleanup

\* A removal empties the final name, a sweep the name of somebody's temporary.
LEMMA RemoveStep == ASSUME IInv, NEW t \in Txns, Remove(t) PROVE IInv'
<1>1. CASE Check(t, "read", Subject(t) = expected[t], "stat", "error")
  <2>1. Subject(t) = expected[t] /\ Passes(t, "read", "stat") => Local(t)'
    BY DEF IInv, Passes, Local, ReadyInv, OpInv, TmpInv, WriterInv, SettledInv, AbortInv, Landed,
         Settled, Succeeded, Goal, callVars
  <2> QED
    BY <1>1, <2>1, CheckStep DEF Running, Locations, CommitSteps, UndoSteps, RemoveSteps, Results
<1>2. CASE Check(t, "stat", Subject(t) = expected[t], "unlink", "error")
  <2>1. Subject(t) = expected[t] /\ Passes(t, "stat", "unlink") => Local(t)'
    BY DEF IInv, Passes, Local, ReadyInv, OpInv, TmpInv, WriterInv, SettledInv, AbortInv, Landed,
         Settled, Succeeded, Goal, callVars
  <2> QED
    BY <1>2, <2>1, CheckStep DEF Running, Locations, CommitSteps, UndoSteps, RemoveSteps, Results
<1>3. CASE /\ op[t] = "remove"
           /\ UnlinkAt(t, "unlink", dir.final # None, "sync", [dir EXCEPT !.final = None], "error")
           /\ writer' = IF dir.final # None THEN t ELSE writer
  <2>1. pc[t] = "unlink" /\ UNCHANGED <<whole, callVars>> /\ faults' \in 0..MaxFaults
    BY <1>3, FaultType DEF UnlinkAt, IInv
  <2>2. CASE dir.final # None
    <3>1. /\ dir' \in Directories /\ dir'.final = None /\ dir'.tmp = dir.tmp
          /\ past' = past \cup {dir'}
      BY <1>3, <2>2 DEF UnlinkAt, Change, IInv, TypeOK, Directories, Links
    <3>2. dir'.tmp[t] = None /\ \A u \in Txns \ {t} : dir'.tmp[u] = dir.tmp[u]
      BY <2>1, <3>1 DEF IInv, Local, TmpInv
    <3>3. /\ pc'[t] = "sync" /\ pc' = [pc EXCEPT ![t] = "sync"]
          /\ result' = [result EXCEPT ![t] = result[t]] /\ result[t] \in Results
      BY <1>3, <2>2 DEF UnlinkAt, Goto, IInv, TypeOK
    <3>4. Local(t)'
      BY <1>3, <2>1, <2>2, <3>1, <3>2, <3>3
      DEF IInv, Local, ReadyInv, OpInv, TmpInv, WriterInv, SettledInv, AbortInv, Landed, Settled,
          Succeeded, Goal, callVars
    <3>5. "sync" \in Locations
      BY DEF Locations, Running
    <3> QED
      BY <1>3, <2>1, <2>2, <3>1, <3>2, <3>3, <3>4, <3>5, ChangeStep
  <2>3. CASE dir.final = None
    BY <1>3, <2>1, <2>3, QuietFailure DEF UnlinkAt, Results
  <2> QED
    BY <2>2, <2>3
<1>4. CASE /\ op[t] = "sweep"
           /\ UnlinkAt(t, "unlink", dir.tmp[target[t]] # None, "sync", WithoutTmp(target[t]),
                       "error")
           /\ UNCHANGED writer
  <2> DEFINE u == target[t]
  <2>1. u \in Txns
    BY DEF IInv, TypeOK
  <2>2. Unlinks(t, u, "unlink", "sync") => Local(t)'
    BY <1>4
    DEF Unlinks, IInv, Local, ReadyInv, OpInv, TmpInv, WriterInv, SettledInv, AbortInv, Landed,
        Settled, Succeeded, Goal, callVars
  <2>3. "unlink" \in Running /\ "sync" \in Locations /\ "error" \in Results \ {"ok"}
    BY DEF Running, Locations, RemoveSteps, Results
  <2> HIDE DEF u
  <2>4. UnlinkAt(t, "unlink", dir.tmp[u] # None, "sync", WithoutTmp(u), "error") /\ UNCHANGED writer
    BY <1>4 DEF u
  <2> QED
    BY <2>1, <2>2, <2>3, <2>4, WithoutStep
<1> QED
  BY <1>1, <1>2, <1>3, <1>4 DEF Remove

\* A call begins with nothing of its own in the directory.
LEMMA StartStep == ASSUME IInv, NEW t \in Txns, NEW o \in Ops, Start(t, o) PROVE IInv'
<1>1. /\ pc[t] = "new" /\ op' = [op EXCEPT ![t] = o]
      /\ UNCHANGED <<dir, past, whole, writer, faults, result>>
  BY DEF Start, Goto
<1>2. op'[t] = o /\ \A u \in Txns \ {t} : op'[u] = op[u]
  BY <1>1 DEF IInv, TypeOK
<1>3. PICK to \in {"open", "begin", "read", "precedes"} :
        /\ pc' = [pc EXCEPT ![t] = to]
        /\ to = "open" => o = "create"
        /\ to = "begin" => o = "replace" /\ expected'[t] # None
        /\ to = "read" => o = "remove"
        /\ to = "precedes" => o = "sweep"
  BY DEF Start, Goto, IInv, TypeOK
<1>4. pc'[t] = to /\ \A u \in Txns \ {t} : pc'[u] = pc[u]
  BY <1>3 DEF IInv, TypeOK
<1>5. /\ stage' \in [Inodes -> 1..Stages] /\ expected' \in [Txns -> Links]
      /\ target' \in [Txns -> Txns]
      /\ \A u \in Txns \ {t} : expected'[u] = expected[u]
  <2>1. dir.final \in Links /\ \A u \in Txns : dir.tmp[u] \in Links
    BY DEF IInv, TypeOK, Directories
  <2>2. dir.final # None => StagesAfter(dir.final) \subseteq 1..Stages
    BY <2>1, BoundAssumption DEF StagesAfter, IInv, TypeOK, Links
  <2> QED
    BY <2>1, <2>2, BoundAssumption DEF Start, IInv, TypeOK, Inodes
<1>6. TypeOK'
  BY <1>1, <1>3, <1>5
  DEF IInv, TypeOK, Running, Locations, CommitSteps, UndoSteps, RemoveSteps, Results
<1>7. WholeInv'
  BY <1>1 DEF IInv, WholeInv
<1>8. Framed(t)
  BY <1>1, <1>2, <1>4, <1>5 DEF Framed, IInv, TypeOK
<1>9. Local(t)'
  BY <1>1, <1>2, <1>3, <1>4
  DEF IInv, TypeOK, Local, ReadyInv, OpInv, TmpInv, WriterInv, SettledInv, AbortInv, Landed,
      Settled, Succeeded, Goal, callVars
<1> QED
  BY <1>6, <1>7, <1>8, <1>9, Frame

(***************************************************************************)
(* The theorems.                                                           *)
(***************************************************************************)
\* A power cut leaves a directory that the invariant speaks of already.
LEMMA PowerCutStep == ASSUME IInv, PowerCut PROVE IInv'
<1>1. /\ dir' \in past /\ past' = {dir'} /\ UNCHANGED <<whole, callVars>>
      /\ faults' \in 0..MaxFaults /\ writer' \in {writer, None}
      /\ writer' # None => dir'.final = dir.final /\ writer' = writer
  BY FaultType DEF PowerCut, IInv
<1>2. \A t \in Txns :
        /\ pc[t] \in Running => pc'[t] = "done" /\ result'[t] = "killed"
        /\ pc[t] \notin Running => pc'[t] = pc[t] /\ result'[t] = result[t]
  BY DEF PowerCut
<1>3. TypeOK'
  <2>1. pc' \in [Txns -> Locations] /\ result' \in [Txns -> Results]
    BY DEF PowerCut, IInv, TypeOK, Locations, Results
  <2> QED
    BY <1>1, <2>1 DEF IInv, TypeOK, callVars
<1>4. WholeInv'
  BY <1>1 DEF IInv, WholeInv
<1>5. ASSUME NEW t \in Txns PROVE Local(t)'
  <2>1. CASE pc[t] \in Running
    <3>1. pc'[t] = "done" /\ result'[t] # "ok"
      BY <1>2, <2>1
    <3> QED
      BY <3>1, FailedLocal
  <2>2. CASE pc[t] = "new"
    <3>1. pc'[t] = "new" /\ op'[t] = "sweep"
      BY <1>1, <1>2, <2>2
      DEF IInv, Local, OpInv, callVars, Running, Locations, CommitSteps, UndoSteps, RemoveSteps,
          Results
    <3>2. \A d \in past' : d.tmp[t] = None
      BY <1>1, <2>2 DEF IInv, Local, TmpInv
    <3> QED
      BY <3>1, <3>2 DEF Local, ReadyInv, OpInv, TmpInv, WriterInv, SettledInv, AbortInv, Landed,
         Settled, Succeeded, Goal, callVars
  <2>3. CASE pc[t] = "done"
    <3>1. pc'[t] = "done" /\ result'[t] = result[t]
      BY <1>2, <2>3 DEF Running, Locations, CommitSteps, UndoSteps, RemoveSteps, Results
    <3>2. op'[t] = op[t] /\ expected'[t] = expected[t]
      BY <1>1 DEF callVars
    <3>3. SettledInv(t)'
      BY NameAssumption, <1>1, <2>3, <3>1, <3>2
      DEF IInv, Local, SettledInv, Settled, Succeeded, Goal
    <3>4. WriterInv(t)'
      BY NameAssumption, <1>1, <2>3, <3>1, <3>2
      DEF IInv, Local, WriterInv, Landed, Settled, Succeeded, Goal
    <3> QED
      BY <1>1, <2>3, <3>1, <3>2, <3>3, <3>4
      DEF IInv, Local, ReadyInv, OpInv, TmpInv, WriterInv, SettledInv, AbortInv, Landed, Settled,
          Succeeded, Goal, callVars
  <2> QED
    BY <2>1, <2>2, <2>3 DEF IInv, TypeOK, Locations
<1> QED
  BY <1>3, <1>4, <1>5 DEF IInv

\* Every step of a transaction preserves the invariant ...
LEMMA StepInductive == ASSUME IInv, NEW t \in Txns, Step(t) PROVE IInv'
<1>1. CASE Published(t)
  BY <1>1, RereadStep DEF Published
<1>2. CASE Displaced(t)
  BY <1>2, RereadStep DEF Displaced
<1> QED
  BY <1>1, <1>2, BeginStep, OpenStep, InitializeStep, CommitStep, LinkStep, CompareStep,
     ExchangeStep, UnknownStep, DropStep, VerifyStep, SyncStep, ReturnStep, RollbackStep,
     UnswapStep, RestoredStep, CleanupStep, PredecessorStep, RemoveStep
  DEF Step

\* ... and so does every other step.
LEMMA Inductive == ASSUME IInv, [Next]_vars PROVE IInv'
<1>1. ASSUME UNCHANGED vars PROVE IInv'
  BY <1>1 DEF vars, IInv, TypeOK, WholeInv, Local, ReadyInv, OpInv, TmpInv, WriterInv,
              SettledInv, AbortInv, Landed, Settled, Succeeded, Goal
<1> QED
  BY <1>1, StartStep, StepInductive, KillStep, PowerCutStep DEF Next, Over

\* The invariant holds at the beginning.
LEMMA Initially == ASSUME Init PROVE IInv
<1>1. dir \in Directories /\ past = {dir} /\ whole = {dir.final} \ {None}
      /\ \A t \in Txns : dir.tmp[t] = None
  BY DEF Init, Directories, Links, Inodes
<1>2. TypeOK
  <2>1. stage \in [Inodes -> 1..Stages]
    BY BoundAssumption DEF Init
  <2>2. whole \subseteq Inodes
    BY <1>1 DEF Directories, Links
  <2> QED
    BY <1>1, <2>1, <2>2, BoundAssumption
    DEF Init, TypeOK, Links, Inodes, Ops, Results, Locations, Running
<1>3. WholeInv
  BY <1>1 DEF WholeInv
<1>4. ASSUME NEW t \in Txns PROVE Local(t)
  <2>1. pc[t] = "new" /\ op[t] = "sweep"
    BY DEF Init
  <2> QED
    BY <1>1, <2>1 DEF Local, ReadyInv, OpInv, TmpInv, WriterInv, SettledInv, AbortInv, Landed,
                      Settled, Succeeded
<1> QED
  BY <1>2, <1>3, <1>4 DEF IInv

\* It always holds.
THEOREM Invariant == Spec => []IInv
BY Initially, Inductive, PTL DEF Spec

\* The variables keep their types.
THEOREM TypeCorrect == Spec => []TypeOK
<1>1. IInv => TypeOK
  BY DEF IInv
<1> QED
  BY <1>1, Invariant, PTL

\* However many transactions there are and however they are killed, the record that a power
\* cut leaves is complete or there is none: commit_new and commit_exchange rename what
\* initialize has synced.
THEOREM FinalWholeCorrect == Spec => []FinalWhole
<1>1. IInv => FinalWhole
  BY DEF IInv, WholeInv, FinalWhole
<1> QED
  BY <1>1, Invariant, PTL

\* What sync_record_parent has been through for is durable: a success that no other
\* transaction has followed is what a power cut leaves.
THEOREM AckedDurableCorrect == Spec => []AckedDurable
<1>1. IInv => AckedDurable
  BY DEF IInv, Local, SettledInv, Settled, Succeeded, Goal, AckedDurable
<1> QED
  BY <1>1, Invariant, PTL

(***************************************************************************)
(* A record is kept.  Nothing but the unlinks takes a record out of the    *)
(* directory, and each of them takes what its transaction has named,       *)
(* unless it is blind.                                                     *)
(***************************************************************************)
\* One transaction at a time holds HOME.
HomeInv ==
  \A t, u \in Txns :
    /\ pc[t] \in Running /\ UnderHome(op[t], stage[t])
    /\ pc[u] \in Running /\ UnderHome(op[u], stage[u])
    => t = u

\* What an unlink of a temporary name can take.
UnlinkInv(t) ==
  /\ pc[t] = "drop_unlink" => dir.tmp[t] \in {expected[t], None}
  /\ pc[t] = "abort_unlink" => dir.tmp[t] \in {t, None}

\* Success is reported at the end only, and nothing is written before the beginning.
EndInv(t) ==
  /\ result[t] = "ok" => pc[t] = "done"
  /\ pc[t] = "new" => t \notin whole

\* A sweep has a temporary of an earlier stage in view, and keeps it unless it is blind.
Sweeping(t) == op[t] = "sweep" /\ pc[t] \in {"precedes", "read", "stat", "unlink"}
SweepInv(t) ==
  Sweeping(t) =>
    /\ pc[target[t]] \notin {"new", "begin", "open"}
    /\ pc[t] # "precedes" => expected[t] \in whole /\ stage[expected[t]] < Stages
    /\ pc[t] = "unlink" => dir.tmp[target[t]] \in {expected[t], None} \/ Blind(t)

\* What has been renamed is linked; once it has synced, and what was there at the
\* beginning, in all directories a power cut can leave.
Placed(i) == pc[i] \in {"displaced", "drop", "drop_unlink", "sync"} /\ op[i] \in {"create", "replace"}
PlacedInv == \A i \in Txns : Placed(i) => Excused(i) \/ Linked(dir, i)

Owed(i) == \/ i = Origin /\ i \in whole
           \/ i \in Txns /\ op[i] \in {"create", "replace"} /\ Settled(i)
OwedInv == \A i \in Inodes : Owed(i) => Excused(i) \/ \A d \in past : Linked(d, i)

KeptInv ==
  /\ HomeInv /\ PlacedInv /\ OwedInv
  /\ \A t \in Txns : UnlinkInv(t) /\ EndInv(t) /\ SweepInv(t)

\* How a transaction moves on ...
Advances(t) ==
  /\ pc[t] \in Running /\ UNCHANGED callVars
  /\ whole \subseteq whole' /\ whole' \subseteq whole \cup {t}
  /\ \A u \in Txns \ {t} : pc'[u] = pc[u] /\ result'[u] = result[u]
  /\ pc'[t] \notin {"new", "begin", "precedes"} /\ (pc'[t] = "open" => pc[t] = "begin")
  /\ pc[t] \in {"sync", "return"} => Through(t)'
  /\ pc[t] \in UndoSteps => GivenUp(t)'
  /\ result'[t] = "ok" => pc[t] = "return" /\ pc'[t] = "done"
  /\ pc'[t] = "return" => pc[t] = "sync" /\ dir' = dir /\ past' = {dir}
  /\ Placed(t)' => Placed(t) \/ dir'.final = t
  /\ Sweeping(t)' => /\ Sweeping(t)
                     /\ pc[t] = "precedes" => expected[t] \in whole /\ stage[expected[t]] < Stages
  /\ pc'[t] = "unlink" => Subject(t) = expected[t] /\ dir' = dir
  /\ pc'[t] = "drop_unlink" => dir'.tmp[t] = expected[t]
  /\ pc'[t] = "abort_unlink" => dir'.tmp[t] = t

\* ... and what it does to the directory.
Lost(t, i) == Through(t)' /\ (expected[t] = i \/ Blind(t))
Relinks(t) ==
  /\ past' \subseteq past \cup {dir'}
  /\ \A u \in Txns \ {t} : dir'.tmp[u] \in {dir.tmp[u], None}
  /\ \/ dir'.tmp[t] \in {dir.tmp[t], None} \/ pc[t] \in {"open", "unswap"}
     \/ pc[t] = "exchange" /\ dir.tmp[t] # None
  /\ \A i \in Inodes : Linked(dir, i) =>
       Linked(dir', i) \/ Lost(t, i) \/ (i = t /\ pc'[t] = "abort_sync")

LEMMA Unmoved == ASSUME NEW t \in Txns, dir' = dir, past' \subseteq past \cup {dir} PROVE Relinks(t)
BY DEF Relinks, Linked

\* What excuses a lost record lasts.
LEMMA ExcuseLasts ==
  ASSUME IInv, NEW t \in Txns, Advances(t)
  PROVE  /\ \A u \in Txns : (Through(u) => Through(u)') /\ (GivenUp(u) => GivenUp(u)')
         /\ \A u \in Txns : Blind(u) => Blind(u)'
         /\ \A i : Excused(i) => Excused(i)'
<1>1. ASSUME NEW u \in Txns PROVE (Through(u) => Through(u)') /\ (GivenUp(u) => GivenUp(u)')
  <2>1. CASE u = t
    BY <2>1 DEF Advances, Through, GivenUp, Running, CommitSteps, UndoSteps, RemoveSteps
  <2>2. CASE u # t
    BY <2>2 DEF Advances, Through, GivenUp, callVars
  <2> QED
    BY <2>1, <2>2
<1>2. ASSUME NEW u \in Txns PROVE Blind(u) => Blind(u)'
  BY <1>1 DEF Advances, callVars, Blind, IInv, TypeOK
<1>3. ASSUME NEW i PROVE Excused(i) => Excused(i)'
  BY <1>1, <1>2 DEF Excused, Advances, callVars
<1> QED
  BY <1>1, <1>2, <1>3

\* A sweep keeps its temporary in view: whoever has it at his name and can put something
\* else there does not hold HOME, so his own record is of the last stage.
LEMMA SweepKeeps ==
  ASSUME IInv, KeptInv, NEW t \in Txns, Advances(t), Relinks(t), NEW s \in Txns
  PROVE  SweepInv(s)'
<1> SUFFICES ASSUME Sweeping(s)' PROVE SweepInv(s)'
  BY DEF SweepInv
<1> DEFINE u == target[s]
<1>1. u \in Txns /\ UNCHANGED <<stage, op, expected, target>>
  BY DEF IInv, TypeOK, Advances, callVars
<1>2. Sweeping(s) /\ SweepInv(s)
  <2>1. Sweeping(s)
    BY DEF Advances, Sweeping, callVars
  <2> QED
    BY <2>1 DEF KeptInv
<1>3. pc'[u] \notin {"new", "begin", "open"}
  BY <1>1, <1>2 DEF SweepInv, Advances
<1>4. pc'[s] # "precedes" => expected[s] \in whole' /\ stage[expected[s]] < Stages
  BY <1>2 DEF SweepInv, Advances
<1>5. ASSUME pc'[s] = "unlink" PROVE dir'.tmp[u] \in {expected[s], None} \/ Blind(s)'
  <2>1. CASE s = t
    <3>1. Subject(s) = expected[s] /\ dir' = dir
      BY <1>5, <2>1 DEF Advances
    <3>2. dir.tmp[u] = expected[s]
      BY <1>2, <3>1 DEF Subject, Sweeping
    <3> QED
      BY <3>1, <3>2
  <2>2. CASE s # t
    <3>1. pc[s] = "unlink" /\ (dir.tmp[u] \in {expected[s], None} \/ Blind(s))
      BY <1>2, <1>5, <2>2 DEF Advances, SweepInv
    <3>2. CASE Blind(s)
      BY <3>2, ExcuseLasts
    <3>3. CASE dir'.tmp[u] \in {dir.tmp[u], None}
      BY <3>1, <3>3, <3>2
    <3>4. CASE dir'.tmp[u] \notin {dir.tmp[u], None} /\ ~Blind(s)
      <4>1. u = t /\ (pc[u] = "unswap" \/ (pc[u] = "exchange" /\ dir.tmp[u] # None))
        BY <1>1, <1>2, <3>4 DEF Relinks, SweepInv
      <4>2. ~UnderHome(op[u], stage[u])
        <5>1. UnderHome(op[s], stage[s]) /\ pc[s] \in Running /\ pc[u] \in Running /\ u # s
          BY <1>2, <2>2, <3>1, <4>1 DEF Sweeping, UnderHome, Running, RemoveSteps, Advances
        <5> QED
          BY <1>1, <5>1 DEF KeptInv, HomeInv
      <4>3. CASE pc[u] = "unswap"
        <5>1. GivenUp(u)'
          BY <1>1, <4>1, <4>3 DEF Advances, UndoSteps
        <5> QED
          BY <1>1, <1>2, <4>2, <5>1 DEF Blind, Sweeping
      <4>4. CASE pc[u] = "exchange" /\ dir.tmp[u] # None
        <5>1. dir.tmp[u] = u /\ op[u] = "replace"
          BY <1>1, <4>4 DEF IInv, Local, TmpInv, OpInv
        <5>2. expected[s] = u
          BY <3>1, <3>4, <4>4, <5>1
        <5>3. stage[u] < Stages
          BY <1>2, <3>1, <5>2 DEF SweepInv
        <5> QED
          BY <4>2, <5>1, <5>3 DEF UnderHome
      <4> QED
        BY <4>1, <4>3, <4>4
    <3> QED
      BY <3>2, <3>3, <3>4
  <2> QED
    BY <2>1, <2>2
<1> QED
  BY <1>1, <1>3, <1>4, <1>5 DEF SweepInv

\* So that it is enough to know how a transaction moves on and what it unlinks.
LEMMA KeptFrame ==
  ASSUME IInv, KeptInv, NEW t \in Txns, Advances(t), Relinks(t)
  PROVE  KeptInv'
<1>0. UNCHANGED <<stage, op, expected, target>> /\ (\A i : Excused(i) => Excused(i)')
  BY ExcuseLasts DEF Advances, callVars
<1>1. HomeInv'
  <2>1. \A u \in Txns : pc'[u] \in Running => pc[u] \in Running
    BY DEF Advances
  <2> QED
    BY <1>0, <2>1 DEF KeptInv, HomeInv
<1>2. \A u \in Txns : UnlinkInv(u)'
  BY <1>0 DEF KeptInv, UnlinkInv, Advances, Relinks
<1>3. \A u \in Txns : EndInv(u)'
  BY DEF KeptInv, EndInv, Advances
<1>4. \A u \in Txns : SweepInv(u)'
  BY SweepKeeps
<1>5. ASSUME NEW i \in Inodes, Linked(dir, i), ~(i = t /\ pc'[t] = "abort_sync")
      PROVE  Excused(i)' \/ Linked(dir', i)
  <2>1. CASE Lost(t, i)
    <3>1. Through(t)' /\ (expected'[t] = i \/ Blind(t)')
      BY <1>0, <2>1, ExcuseLasts DEF Lost
    <3> QED
      BY <3>1 DEF Excused
  <2> QED
    BY <1>5, <2>1 DEF Relinks
<1>6. PlacedInv'
  <2> SUFFICES ASSUME NEW i \in Txns, Placed(i)' PROVE Excused(i)' \/ Linked(dir, i)'
    BY DEF PlacedInv
  <2>1. i \in Inodes /\ ~(i = t /\ pc'[t] = "abort_sync")
    BY DEF Placed, Inodes
  <2>2. CASE Placed(i)
    <3>1. Excused(i) \/ Linked(dir, i)
      BY <2>2 DEF KeptInv, PlacedInv
    <3> QED
      BY <1>0, <1>5, <2>1, <3>1 DEF Linked
  <2>3. CASE ~Placed(i)
    <3>1. i = t
      BY <1>0, <2>3 DEF Advances, Placed
    <3> QED
      BY <2>3, <3>1 DEF Advances, Linked
  <2> QED
    BY <2>2, <2>3
<1>7. OwedInv'
  <2> SUFFICES ASSUME NEW i \in Inodes, Owed(i)', ~Excused(i)', NEW d \in past'
               PROVE  Linked(d, i)'
    BY DEF OwedInv
  <2>1. ~(i = t /\ pc'[t] = "abort_sync") /\ ~Excused(i)
    BY <1>0, NameAssumption DEF Owed, Settled, Succeeded
  <2>2. CASE Owed(i)
    <3>1. \A e \in past : Linked(e, i)
      BY <2>1, <2>2 DEF KeptInv, OwedInv
    <3>2. Linked(dir', i)
      BY <1>5, <2>1, <3>1 DEF IInv, TypeOK
    <3> QED
      BY <3>1, <3>2 DEF Relinks, Linked
  <2>3. CASE ~Owed(i)
    <3>1. i = t /\ i \in Txns /\ op[i] \in {"create", "replace"} /\ pc'[t] = "return"
      <4>1. i # Origin
        BY <2>3, NameAssumption DEF Owed, Advances
      <4>2. i \in Txns /\ op[i] \in {"create", "replace"} /\ Settled(i)' /\ ~Settled(i)
        BY <1>0, <2>3, <4>1 DEF Owed
      <4>3. i = t
        BY <4>2 DEF Settled, Succeeded, Advances
      <4> QED
        BY <4>2, <4>3 DEF Settled, Succeeded, Advances
    <3>2. pc[t] = "sync" /\ dir' = dir /\ past' = {dir}
      BY <3>1 DEF Advances
    <3>3. Linked(dir, i)
      BY <2>1, <3>1, <3>2 DEF KeptInv, PlacedInv, Placed
    <3> QED
      BY <3>2, <3>3 DEF Linked
  <2> QED
    BY <2>2, <2>3
<1> QED
  BY <1>1, <1>2, <1>3, <1>4, <1>6, <1>7 DEF KeptInv

(***************************************************************************)
(* The steps, one by one.                                                  *)
(***************************************************************************)
Kept(t) == Advances(t) /\ Relinks(t)

\* A comparison moves on or ends.
LEMMA CheckKept ==
  ASSUME IInv, KeptInv, NEW t \in Txns, NEW at \in Running, NEW STATE ok, NEW to, NEW code,
         Check(t, at, ok, to, code),
         code \in {"error", "doubt"} \/ (code = "ok" /\ at = "return"),
         at \in {"sync", "return"} => op[t] \in {"create", "replace"} \/ code # "error",
         ok => /\ to \in Running \ {"begin", "precedes", "return"}
               /\ to = "open" => at = "begin"
               /\ at \notin {"sync", "return"} /\ (at \in UndoSteps => to \in UndoSteps)
               /\ to \in {"displaced", "drop", "drop_unlink", "sync"} /\ op[t] \in {"create", "replace"} =>
                    at \in {"displaced", "drop", "drop_unlink"} \/ dir.final = t
               /\ to \in {"read", "stat", "unlink"} =>
                    /\ at \in {"precedes", "read", "stat"}
                    /\ at = "precedes" => expected[t] \in whole /\ stage[expected[t]] < Stages
               /\ to = "unlink" => Subject(t) = expected[t]
               /\ to = "drop_unlink" => dir.tmp[t] = expected[t]
               /\ to = "abort_unlink" => dir.tmp[t] = t
  PROVE  Kept(t)
<1>1. UNCHANGED <<dir, past, whole, callVars>> /\ pc[t] = at
  BY DEF Check
<1>2. Relinks(t)
  BY <1>1, Unmoved DEF Check
<1>3. CASE ok
  <2>1. /\ pc'[t] = to /\ result' = result /\ \A u \in Txns \ {t} : pc'[u] = pc[u]
        /\ result[t] # "ok"
    BY <1>1, <1>3
    DEF Check, Goto, IInv, TypeOK, KeptInv, EndInv, Running, CommitSteps, UndoSteps, RemoveSteps
  <2> QED
    BY <1>1, <1>2, <1>3, <2>1
    DEF Kept, Advances, Placed, Sweeping, GivenUp, callVars, Running, CommitSteps, UndoSteps,
        RemoveSteps
<1>4. CASE ~ok
  <2>1. /\ pc'[t] = "done" /\ result'[t] = code
        /\ \A u \in Txns \ {t} : pc'[u] = pc[u] /\ result'[u] = result[u]
    BY <1>4 DEF Check, Finish, IInv, TypeOK
  <2> QED
    BY <1>1, <1>2, <2>1
    DEF Kept, Advances, Placed, Sweeping, GivenUp, Through, callVars, Running, CommitSteps,
        UndoSteps, RemoveSteps
<1> QED
  BY <1>3, <1>4

\* An end without success.
LEMMA EndKept ==
  ASSUME IInv, KeptInv, NEW t \in Txns, NEW code \in Results \ {"ok"}, Finish(t, code),
         pc[t] \in Running, pc[t] \in {"sync", "return"} => code # "error",
         UNCHANGED <<dir, whole, callVars>>, past' \subseteq past \cup {dir}
  PROVE  Kept(t)
<1>1. /\ pc'[t] = "done" /\ result'[t] = code
      /\ \A u \in Txns \ {t} : pc'[u] = pc[u] /\ result'[u] = result[u]
  BY DEF Finish, IInv, TypeOK
<1>2. Relinks(t)
  BY Unmoved
<1> QED
  BY <1>1, <1>2 DEF Kept, Advances, Placed, Sweeping, GivenUp, Through

\* A move on inside a commit, or back out of it.
Within == Running \ {"begin", "open", "precedes", "return", "read", "stat", "unlink", "drop_unlink",
                     "abort_unlink"}
LEMMA MoveKept ==
  ASSUME IInv, KeptInv, NEW t \in Txns, NEW to \in Within,
         Goto(t, to) \/ (to = "abort" /\ \E code \in {"exists", "error", "doubt"} : Abort(t, code)),
         pc[t] \in Running \ {"sync", "return"}, pc[t] \in UndoSteps => to \in UndoSteps,
         to \in {"displaced", "drop", "sync"} =>
           op[t] = "sweep" \/ op[t] = "remove" \/ Placed(t) \/ dir'.final = t,
         whole' \in {whole, whole \cup {t}}, UNCHANGED callVars, Relinks(t)
  PROVE  Kept(t)
<1>1. /\ pc'[t] = to /\ \A u \in Txns \ {t} : pc'[u] = pc[u] /\ result'[u] = result[u]
      /\ result'[t] # "ok"
  BY DEF Goto, Abort, IInv, TypeOK, KeptInv, EndInv, Running, CommitSteps, UndoSteps, RemoveSteps
<1>2. pc'[t] \in Running /\ pc'[t] \notin {"begin", "open", "precedes", "return", "read", "stat",
                                             "unlink", "drop_unlink", "abort_unlink"}
  BY <1>1 DEF Within
<1>3. Placed(t)' => Placed(t) \/ dir'.final = t
  BY <1>1, <1>2 DEF Placed, callVars
<1>4. ~Sweeping(t)' /\ pc'[t] # "new"
  BY <1>2 DEF Sweeping, Running, CommitSteps, UndoSteps, RemoveSteps
<1>5. pc[t] \in UndoSteps => GivenUp(t)'
  BY <1>1 DEF GivenUp
<1> QED
  BY <1>1, <1>2, <1>3, <1>4, <1>5 DEF Kept, Advances

LEMMA BeginKept == ASSUME IInv, KeptInv, NEW t \in Txns, Begin(t) PROVE Kept(t)
BY CheckKept DEF Begin, Running, CommitSteps, UndoSteps, RemoveSteps

LEMMA UnknownKept == ASSUME IInv, KeptInv, NEW t \in Txns, Unknown(t) PROVE Kept(t)
BY CheckKept DEF Unknown, Running

\* A temporary is opened where nothing is.
LEMMA OpenKept == ASSUME IInv, KeptInv, NEW t \in Txns, Open(t) PROVE Kept(t)
<1>1. CASE Change([dir EXCEPT !.tmp[t] = t]) /\ Goto(t, "write") /\ UNCHANGED faults
  <2>1. /\ dir'.final = dir.final /\ dir'.tmp = [dir.tmp EXCEPT ![t] = t]
        /\ past' = past \cup {dir'} /\ t \in Links
    BY <1>1, TmpFacts DEF Change, IInv, TypeOK, Links, Inodes
  <2>2. dir.tmp[t] = None /\ pc[t] = "open"
    BY DEF Open, IInv, Local, TmpInv
  <2>3. \A u \in Txns \ {t} : dir'.tmp[u] = dir.tmp[u]
    BY <2>1 DEF IInv, TypeOK, Directories
  <2>4. \A i \in Inodes : Linked(dir, i) => Linked(dir', i)
    BY <2>1, <2>2, <2>3, NameAssumption DEF Linked, Inodes
  <2>5. Relinks(t)
    BY <2>1, <2>2, <2>3, <2>4 DEF Relinks
  <2> QED
    BY <1>1, <2>2, <2>5, MoveKept DEF Open, Within, Running, CommitSteps, UndoSteps
<1>2. CASE Fault /\ Finish(t, "error") /\ UNCHANGED <<dir, past>>
  BY <1>2, EndKept DEF Open, Running, CommitSteps, Results
<1> QED
  BY <1>1, <1>2 DEF Open

LEMMA InitializeKept == ASSUME IInv, KeptInv, NEW t \in Txns, Initialize(t) PROVE Kept(t)
<1>1. Relinks(t)
  BY Unmoved DEF Initialize
<1> QED
  BY <1>1, MoveKept DEF Initialize, Within, Running, CommitSteps, UndoSteps

LEMMA CommitKept == ASSUME IInv, KeptInv, NEW t \in Txns, Commit(t) PROVE Kept(t)
<1>1. Relinks(t)
  BY Unmoved DEF Commit
<1> QED
  BY <1>1, MoveKept DEF Commit, Within, Running, CommitSteps, UndoSteps

LEMMA CompareKept == ASSUME IInv, KeptInv, NEW t \in Txns, Compare(t) PROVE Kept(t)
<1>1. Relinks(t)
  BY Unmoved DEF Compare
<1> QED
  BY <1>1, MoveKept DEF Compare, Within, Running, CommitSteps, UndoSteps

\* The temporary of a new record gets the final name, which was free.
LEMMA LinkKept == ASSUME IInv, KeptInv, NEW t \in Txns, Link(t) PROVE Kept(t)
<1>1. CASE /\ dir.final = None /\ dir.tmp[t] # None
           /\ Change([dir EXCEPT !.final = dir.tmp[t], !.tmp[t] = None])
           /\ \E to \in {"verify", "unknown"} : Goto(t, to)
  <2>1. /\ dir'.final = dir.tmp[t] /\ dir'.tmp = [dir.tmp EXCEPT ![t] = None]
        /\ past' = past \cup {dir'}
    BY <1>1 DEF Change, IInv, TypeOK, Directories
  <2>2. dir'.tmp[t] = None /\ \A u \in Txns \ {t} : dir'.tmp[u] = dir.tmp[u]
    BY <2>1 DEF IInv, TypeOK, Directories
  <2>3. \A i \in Inodes : Linked(dir, i) => Linked(dir', i)
    BY <1>1, <2>1, <2>2, NameAssumption DEF Linked, Inodes
  <2>4. Relinks(t)
    BY <2>1, <2>2, <2>3 DEF Relinks
  <2> QED
    BY <1>1, <2>4, MoveKept DEF Link, Within, Running, CommitSteps, UndoSteps
<1>2. CASE UNCHANGED <<dir, past>>
  <2>1. Relinks(t)
    BY <1>2, Unmoved
  <2> QED
    BY <1>2, <2>1, MoveKept DEF Link, Within, Running, CommitSteps, UndoSteps
<1> QED
  BY <1>1, <1>2 DEF Link

\* An exchange keeps what there is.
LEMMA ExchangeRelinks ==
  ASSUME IInv, NEW t \in Txns, Exchangeable(t), Change(Exchanged(t)),
         pc[t] \in {"exchange", "unswap"}
  PROVE  Relinks(t)
<1>1. \A i : Linked(dir, i) => Linked(dir', i)
  BY ExchangedFacts DEF Linked
<1> QED
  BY <1>1, ExchangedFacts DEF Relinks, Exchangeable

LEMMA ExchangeKept == ASSUME IInv, KeptInv, NEW t \in Txns, Exchange(t) PROVE Kept(t)
<1>1. Relinks(t)
  BY ExchangeRelinks, Unmoved DEF Exchange
<1> QED
  BY <1>1, MoveKept DEF Exchange, Within, Running, CommitSteps, UndoSteps

LEMMA UnswapKept == ASSUME IInv, KeptInv, NEW t \in Txns, Unswap(t) PROVE Kept(t)
<1>1. CASE Exchangeable(t) /\ Change(Exchanged(t)) /\ Goto(t, "restored")
  <2>1. Relinks(t)
    BY <1>1, ExchangeRelinks DEF Unswap
  <2> QED
    BY <1>1, <2>1, MoveKept DEF Unswap, Within, Running, CommitSteps, UndoSteps
<1>2. CASE Finish(t, "doubt") /\ UNCHANGED <<dir, past>>
  BY <1>2, EndKept DEF Unswap, Running, UndoSteps, Results
<1> QED
  BY <1>1, <1>2 DEF Unswap

\* Both names are read.
LEMMA RereadKept ==
  ASSUME IInv, KeptInv, NEW t \in Txns, NEW at, NEW STATE ok, NEW to, Reread(t, at, ok, to),
         (at = "published" /\ to = "displaced" /\ (ok => dir.final = t))
           \/ (at = "displaced" /\ to = "drop")
  PROVE  Kept(t)
<1>1. Relinks(t)
  BY Unmoved DEF Reread
<1>2. at = "displaced" => Placed(t)
  BY DEF Reread, Placed, IInv, Local, OpInv
<1> QED
  BY <1>1, <1>2, MoveKept DEF Reread, Within, Running, CommitSteps, UndoSteps

LEMMA VerifyKept == ASSUME IInv, KeptInv, NEW t \in Txns, Verify(t) PROVE Kept(t)
BY CheckKept DEF Verify, Running, CommitSteps, UndoSteps, RemoveSteps

LEMMA RollbackKept == ASSUME IInv, KeptInv, NEW t \in Txns, Rollback(t) PROVE Kept(t)
BY CheckKept DEF Rollback, Running, CommitSteps, UndoSteps, RemoveSteps

LEMMA RestoredKept == ASSUME IInv, KeptInv, NEW t \in Txns, Restored(t) PROVE Kept(t)
<1>1. Relinks(t)
  BY Unmoved DEF Restored
<1>2. CASE Abort(t, "doubt")
  BY <1>1, <1>2, MoveKept DEF Restored, Within, Running, CommitSteps, UndoSteps
<1>3. CASE Finish(t, "doubt")
  BY <1>3, EndKept DEF Restored, Running, UndoSteps, Results
<1> QED
  BY <1>2, <1>3 DEF Restored

\* The sync leaves one directory.
LEMMA SyncKept == ASSUME IInv, KeptInv, NEW t \in Txns, Sync(t) PROVE Kept(t)
<1>1. CASE past' = {dir} /\ Goto(t, "return")
  <2>1. /\ pc'[t] = "return" /\ \A u \in Txns \ {t} : pc'[u] = pc[u] /\ result'[u] = result[u]
        /\ result'[t] # "ok"
    BY <1>1 DEF Sync, Goto, IInv, TypeOK, KeptInv, EndInv
  <2>2. Relinks(t)
    BY <1>1, Unmoved DEF Sync
  <2> QED
    BY <1>1, <2>1, <2>2
    DEF Sync, Kept, Advances, Placed, Sweeping, Through, Running, UndoSteps
<1>2. CASE Finish(t, "doubt") /\ UNCHANGED past
  BY <1>2, EndKept DEF Sync, Running, Results
<1> QED
  BY <1>1, <1>2 DEF Sync

LEMMA ReturnKept == ASSUME IInv, KeptInv, NEW t \in Txns, Return(t) PROVE Kept(t)
BY CheckKept DEF Return, Running

\* A sweep looks at a direct predecessor only.
LEMMA PredecessorKept == ASSUME IInv, KeptInv, NEW t \in Txns, Predecessor(t) PROVE Kept(t)
<1>1. Precedes(expected[t], dir.final) /\ expected[t] \in whole => stage[expected[t]] < Stages
  BY BoundAssumption DEF Precedes, IInv, TypeOK, Directories, Links
<1> QED
  BY <1>1, CheckKept DEF Predecessor, Running, CommitSteps, UndoSteps, RemoveSteps

\* A killed process does nothing more.
LEMMA KillKept == ASSUME IInv, KeptInv, NEW t \in Txns, Kill(t) PROVE Kept(t)
BY EndKept DEF Kill, Results

\* An unlink at a temporary name takes what is there.
LEMMA WithoutRelinks ==
  ASSUME IInv, NEW t \in Txns, NEW u \in Txns, Change(WithoutTmp(u)),
         \A i \in Inodes : dir.tmp[u] = i => Lost(t, i) \/ (i = t /\ pc'[t] = "abort_sync")
  PROVE  Relinks(t)
<1>1. /\ past' = past \cup {dir'} /\ dir'.final = dir.final
      /\ dir'.tmp[u] = None /\ \A w \in Txns \ {u} : dir'.tmp[w] = dir.tmp[w]
  BY WithoutFacts
<1>2. \A i \in Inodes : Linked(dir, i) =>
        Linked(dir', i) \/ Lost(t, i) \/ (i = t /\ pc'[t] = "abort_sync")
  BY <1>1 DEF Linked
<1>3. \A w \in Txns : dir'.tmp[w] \in {dir.tmp[w], None}
  BY <1>1
<1> QED
  BY <1>1, <1>2, <1>3 DEF Relinks

\* What a replacement drops is what it expected ...
LEMMA DropKept == ASSUME IInv, KeptInv, NEW t \in Txns, Drop(t) PROVE Kept(t)
<1>1. CASE Check(t, "drop", dir.tmp[t] = expected[t], "drop_unlink", "doubt")
  BY <1>1, CheckKept DEF Running, CommitSteps, UndoSteps, RemoveSteps
<1>2. CASE UnlinkAt(t, "drop_unlink", dir.tmp[t] # None, "sync", WithoutTmp(t), "doubt")
  <2>1. pc[t] = "drop_unlink" /\ op[t] = "replace" /\ UNCHANGED <<whole, callVars>>
    BY <1>2 DEF UnlinkAt, IInv, Local, OpInv
  <2>2. CASE dir.tmp[t] # None
    <3>1. pc'[t] = "sync"
      BY <1>2, <2>2 DEF UnlinkAt, Goto, IInv, TypeOK
    <3>2. \A i \in Inodes : dir.tmp[t] = i => Lost(t, i)
      BY <2>1, <2>2, <3>1 DEF KeptInv, UnlinkInv, Lost, Through
    <3>3. Relinks(t)
      BY <1>2, <2>2, <3>2, WithoutRelinks DEF UnlinkAt
    <3>4. Placed(t)
      BY <2>1 DEF Placed
    <3> QED
      BY <1>2, <2>1, <2>2, <3>3, <3>4, MoveKept
      DEF UnlinkAt, Within, Running, CommitSteps, UndoSteps
  <2>3. CASE dir.tmp[t] = None
    BY <1>2, <2>1, <2>3, EndKept DEF UnlinkAt, Running, CommitSteps, Results
  <2> QED
    BY <2>2, <2>3
<1> QED
  BY <1>1, <1>2 DEF Drop

\* ... what one that fails takes away is its own ...
LEMMA CleanupKept == ASSUME IInv, KeptInv, NEW t \in Txns, Cleanup(t) PROVE Kept(t)
<1>1. CASE Check(t, "abort", dir.tmp[t] = t, "abort_unlink", "error")
  BY <1>1, CheckKept DEF Running, CommitSteps, UndoSteps, RemoveSteps
<1>2. CASE UnlinkAt(t, "abort_unlink", dir.tmp[t] # None, "abort_sync", WithoutTmp(t), "error")
  <2>1. pc[t] = "abort_unlink" /\ UNCHANGED <<whole, callVars>>
    BY <1>2 DEF UnlinkAt
  <2>2. CASE dir.tmp[t] # None
    <3>1. pc'[t] = "abort_sync"
      BY <1>2, <2>2 DEF UnlinkAt, Goto, IInv, TypeOK
    <3>2. dir.tmp[t] = t
      BY <2>1, <2>2 DEF KeptInv, UnlinkInv
    <3>3. Relinks(t)
      BY <1>2, <2>2, <3>1, <3>2, WithoutRelinks DEF UnlinkAt
    <3> QED
      BY <1>2, <2>1, <2>2, <3>3, MoveKept DEF UnlinkAt, Within, Running, UndoSteps
  <2>3. CASE dir.tmp[t] = None
    BY <1>2, <2>1, <2>3, EndKept DEF UnlinkAt, Running, UndoSteps, Results
  <2> QED
    BY <2>2, <2>3
<1>3. CASE /\ pc[t] = "abort_sync"
           /\ \/ past' = {dir} /\ Finish(t, result[t]) /\ UNCHANGED faults
              \/ Fault /\ Finish(t, "doubt") /\ UNCHANGED past
           /\ UNCHANGED <<dir, whole, callVars, writer>>
  <2>1. PICK code \in {"exists", "error", "doubt"} : Finish(t, code)
    BY <1>3 DEF IInv, Local, AbortInv
  <2>2. past' \subseteq past \cup {dir'}
    BY <1>3
  <2>3. pc[t] \in Running \ {"sync", "return"} /\ code \in Results \ {"ok"}
    BY <1>3 DEF Running, UndoSteps, Results
  <2> QED
    BY <1>3, <2>1, <2>2, <2>3, EndKept
<1> QED
  BY <1>1, <1>2, <1>3 DEF Cleanup

\* ... and what a removal or a sweep takes excuses it.
LEMMA RemoveKept == ASSUME IInv, KeptInv, NEW t \in Txns, Remove(t) PROVE Kept(t)
<1>0. pc[t] \in {"read", "stat", "unlink"} => op[t] \in {"remove", "sweep"}
  BY DEF IInv, Local, OpInv
<1>1. CASE Check(t, "read", Subject(t) = expected[t], "stat", "error")
  BY <1>1, CheckKept DEF Running, CommitSteps, UndoSteps, RemoveSteps
<1>2. CASE Check(t, "stat", Subject(t) = expected[t], "unlink", "error")
  BY <1>2, CheckKept DEF Running, CommitSteps, UndoSteps, RemoveSteps
<1>3. CASE /\ op[t] = "remove"
           /\ UnlinkAt(t, "unlink", dir.final # None, "sync", [dir EXCEPT !.final = None], "error")
  <2>1. pc[t] = "unlink" /\ UNCHANGED <<whole, callVars>>
    BY <1>3 DEF UnlinkAt
  <2>2. CASE dir.final # None
    <3>1. pc'[t] = "sync"
      BY <1>3, <2>2 DEF UnlinkAt, Goto, IInv, TypeOK
    <3>2. dir'.tmp = dir.tmp /\ past' = past \cup {dir'}
      BY <1>3, <2>2 DEF UnlinkAt, Change, IInv, TypeOK, Directories
    <3>3. \A i \in Inodes : Lost(t, i)
      BY <1>3, <3>1 DEF Lost, Through, Blind
    <3>4. Relinks(t)
      BY <3>2, <3>3 DEF Relinks
    <3> QED
      BY <1>3, <2>1, <2>2, <3>4, MoveKept DEF UnlinkAt, Within, Running, RemoveSteps, UndoSteps
  <2>3. CASE dir.final = None
    BY <1>3, <2>1, <2>3, EndKept DEF UnlinkAt, Running, RemoveSteps, Results
  <2> QED
    BY <2>2, <2>3
<1>4. CASE /\ op[t] = "sweep"
           /\ UnlinkAt(t, "unlink", dir.tmp[target[t]] # None, "sync", WithoutTmp(target[t]),
                       "error")
  <2>1. PICK u \in Txns : u = target[t]
    BY DEF IInv, TypeOK
  <2>2. /\ UnlinkAt(t, "unlink", dir.tmp[u] # None, "sync", WithoutTmp(u), "error")
        /\ pc[t] = "unlink" /\ UNCHANGED <<whole, callVars>>
    BY <1>4, <2>1 DEF UnlinkAt
  <2>3. CASE dir.tmp[u] # None
    <3>1. pc'[t] = "sync"
      BY <2>2, <2>3 DEF UnlinkAt, Goto, IInv, TypeOK
    <3>2. dir.tmp[u] = expected[t] \/ Blind(t)
      BY <1>4, <2>1, <2>2, <2>3 DEF KeptInv, SweepInv, Sweeping
    <3>3. \A i \in Inodes : dir.tmp[u] = i => Lost(t, i)
      BY <3>1, <3>2 DEF Lost, Through
    <3>4. Relinks(t)
      BY <2>2, <2>3, <3>3, WithoutRelinks DEF UnlinkAt
    <3> QED
      BY <1>4, <2>2, <2>3, <3>4, MoveKept DEF UnlinkAt, Within, Running, RemoveSteps, UndoSteps
  <2>4. CASE dir.tmp[u] = None
    BY <2>2, <2>4, EndKept DEF UnlinkAt, Running, RemoveSteps, Results
  <2> QED
    BY <2>3, <2>4
<1> QED
  BY <1>1, <1>2, <1>3, <1>4 DEF Remove

\* Every step of a transaction keeps what has to be kept.
LEMMA StepKept == ASSUME IInv, KeptInv, NEW t \in Txns, Step(t) \/ Kill(t) PROVE KeptInv'
<1>1. Published(t) \/ Displaced(t) => Kept(t)
  BY RereadKept DEF Published, Displaced
<1>2. Kept(t)
  BY <1>1, BeginKept, OpenKept, InitializeKept, CommitKept, LinkKept, CompareKept, ExchangeKept,
     UnknownKept, DropKept, VerifyKept, SyncKept, ReturnKept, RollbackKept, UnswapKept,
     RestoredKept, CleanupKept, PredecessorKept, RemoveKept, KillKept
  DEF Step
<1> QED
  BY <1>2, KeptFrame DEF Kept

\* A call begins: it changes nothing on disk, and it waits for HOME if it needs it.
LEMMA StartKept ==
  ASSUME IInv, KeptInv, NEW t \in Txns, NEW o \in Ops, Start(t, o)
  PROVE  KeptInv'
<1>1. /\ pc[t] = "new" /\ t \notin whole /\ UNCHANGED <<dir, past, whole, result>>
      /\ result[t] # "ok"
  BY DEF Start, Goto, KeptInv, EndInv
<1>2. /\ pc'[t] \in {"open", "begin", "read", "precedes"} /\ op'[t] = o
      /\ pc'[t] = "read" => o = "remove"
      /\ pc'[t] = "precedes" => o = "sweep"
      /\ o = "sweep" => target'[t] \in Txns /\ dir.tmp[target'[t]] # None
  BY DEF Start, Goto, IInv, TypeOK
<1>3. \A u \in Txns \ {t} :
        /\ pc'[u] = pc[u] /\ op'[u] = op[u] /\ expected'[u] = expected[u]
        /\ target'[u] = target[u] /\ stage'[u] = stage[u]
  BY DEF Start, Goto, IInv, TypeOK, Inodes
<1>4. \A i \in Inodes \ {t} : stage'[i] = stage[i]
  BY DEF Start, IInv, TypeOK
<1>5. \A u \in Txns : target[u] \in Txns
  BY DEF IInv, TypeOK
<1>6. \A u \in Txns : GivenUp(u) => u # t
  BY <1>1 DEF GivenUp, UndoSteps
<1>7. \A u \in Txns \ {t} : (Blind(u) => Blind(u)') /\ (Through(u) => Through(u)')
  <2>1. \A u \in Txns \ {t} : Through(u) => Through(u)'
    BY <1>1, <1>3 DEF Through
  <2>2. ASSUME NEW u \in Txns \ {t}, Blind(u) PROVE Blind(u)'
    <3>1. CASE op[u] = "remove"
      BY <1>3, <3>1 DEF Blind
    <3>2. CASE op[u] = "sweep" /\ GivenUp(target[u]) /\ ~UnderHome(op[target[u]], stage[target[u]])
      <4>1. PICK v \in Txns \ {t} : v = target[u]
        BY <1>5, <1>6, <3>2
      <4>2. GivenUp(v)' /\ ~UnderHome(op'[v], stage'[v]) /\ target'[u] = v /\ op'[u] = "sweep"
        BY <1>1, <1>3, <3>2, <4>1 DEF GivenUp
      <4> QED
        BY <4>2 DEF Blind
    <3> QED
      BY <2>2, <3>1, <3>2 DEF Blind
  <2> QED
    BY <2>1, <2>2
<1>8. ~Through(t)
  BY <1>1 DEF Through
<1>9. \A i : Excused(i) => Excused(i)'
  BY <1>3, <1>7, <1>8 DEF Excused
<1>10. HomeInv'
  <2>1. ASSUME NEW u \in Txns \ {t}, pc'[u] \in Running, UnderHome(op'[u], stage'[u]),
               UnderHome(op'[t], stage'[t])
        PROVE  FALSE
    <3>1. UnderHome(op[u], stage[u]) /\ pc[u] \in Running
      BY <1>3, <2>1
    <3>2. HomeFree
      BY <1>2, <2>1 DEF Start
    <3> QED
      BY <3>1, <3>2 DEF HomeFree
  <2>2. ASSUME NEW u \in Txns \ {t}, NEW v \in Txns \ {t},
               pc'[u] \in Running, UnderHome(op'[u], stage'[u]),
               pc'[v] \in Running, UnderHome(op'[v], stage'[v])
        PROVE  u = v
    BY <1>3, <2>2 DEF KeptInv, HomeInv
  <2> QED
    BY <2>1, <2>2 DEF HomeInv
<1>11. PlacedInv'
  <2> SUFFICES ASSUME NEW i \in Txns, Placed(i)' PROVE Excused(i)' \/ Linked(dir, i)'
    BY DEF PlacedInv
  <2>1. i # t
    BY <1>2 DEF Placed
  <2>2. Placed(i)
    BY <1>3, <2>1 DEF Placed
  <2> QED
    BY <1>1, <1>9, <2>2 DEF KeptInv, PlacedInv, Linked
<1>12. OwedInv'
  <2> SUFFICES ASSUME NEW i \in Inodes, Owed(i)' PROVE Excused(i)' \/ \A d \in past' : Linked(d, i)'
    BY DEF OwedInv
  <2>1. i # t
    BY <1>2, NameAssumption DEF Owed, Settled, Succeeded
  <2>2. Owed(i)
    BY <1>1, <1>3, <2>1 DEF Owed, Settled, Succeeded
  <2> QED
    BY <1>1, <1>9, <2>2 DEF KeptInv, OwedInv, Linked
<1>13. ASSUME NEW u \in Txns PROVE UnlinkInv(u)' /\ EndInv(u)' /\ SweepInv(u)'
  <2>1. CASE u = t
    <3>1. UnlinkInv(u)' /\ EndInv(u)'
      BY <1>1, <1>2, <2>1 DEF UnlinkInv, EndInv
    <3>2. ASSUME Sweeping(u)' PROVE SweepInv(u)'
      <4>1. o = "sweep" /\ pc'[t] = "precedes"
        BY <1>2, <2>1, <3>2 DEF Sweeping
      <4>2. PICK v \in Txns : v = target'[t] /\ dir.tmp[v] # None
        BY <1>2, <4>1
      <4>3. pc[v] \notin {"new", "begin", "open"}
        BY <4>2 DEF IInv, TypeOK, Local, TmpInv
      <4>4. pc'[v] = pc[v]
        BY <1>1, <1>3, <4>3
      <4> QED
        BY <2>1, <4>1, <4>2, <4>3, <4>4 DEF SweepInv
    <3> QED
      BY <3>1, <3>2 DEF SweepInv
  <2>2. CASE u # t
    <3>1. UnlinkInv(u)' /\ EndInv(u)'
      BY <1>1, <1>3, <2>2 DEF KeptInv, UnlinkInv, EndInv
    <3>2. ASSUME Sweeping(u)' PROVE SweepInv(u)'
      <4>1. Sweeping(u) /\ SweepInv(u)
        BY <1>3, <2>2, <3>2 DEF Sweeping, KeptInv
      <4>2. PICK v \in Txns \ {t} : v = target[u] /\ pc[v] \notin {"new", "begin", "open"}
        BY <1>1, <1>5, <4>1 DEF SweepInv
      <4>3. pc[u] # "precedes" => expected[u] \in Inodes \ {t}
        BY <1>1, <4>1 DEF SweepInv, IInv, TypeOK
      <4> QED
        BY <1>1, <1>3, <1>4, <1>7, <2>2, <4>1, <4>2, <4>3 DEF SweepInv
    <3> QED
      BY <3>1, <3>2 DEF SweepInv
  <2> QED
    BY <2>1, <2>2
<1> QED
  BY <1>10, <1>11, <1>12, <1>13 DEF KeptInv

\* A power cut ends every transaction, in a directory the invariant speaks of already.
LEMMA PowerCutKept == ASSUME IInv, KeptInv, PowerCut PROVE KeptInv'
<1>1. /\ dir' \in past /\ past' = {dir'}
      /\ UNCHANGED <<whole, stage, op, expected, target>>
  BY DEF PowerCut, callVars
<1>2. \A t \in Txns :
        /\ pc[t] \in Running => pc'[t] = "done" /\ result'[t] = "killed"
        /\ pc[t] \notin Running => pc'[t] = pc[t] /\ result'[t] = result[t]
  BY DEF PowerCut
<1>3. \A t \in Txns : pc'[t] \in {"new", "done"}
  BY <1>2 DEF IInv, TypeOK, Locations
<1>4. \A t \in Txns : (Through(t) => Through(t)') /\ (GivenUp(t) => GivenUp(t)')
  BY <1>1, <1>2 DEF Through, GivenUp, Running
<1>5. \A t \in Txns : Blind(t) => Blind(t)'
  BY <1>1, <1>4 DEF Blind, IInv, TypeOK
<1>6. \A i : Excused(i) => Excused(i)'
  BY <1>1, <1>4, <1>5 DEF Excused
<1>7. HomeInv' /\ PlacedInv'
  BY <1>3 DEF HomeInv, PlacedInv, Placed, Running, CommitSteps, UndoSteps, RemoveSteps
<1>8. OwedInv'
  <2> SUFFICES ASSUME NEW i \in Inodes, Owed(i)' PROVE Excused(i)' \/ \A d \in past' : Linked(d, i)'
    BY DEF OwedInv
  <2>1. Owed(i)
    BY <1>1, <1>2, <1>3 DEF Owed, Settled, Succeeded
  <2> QED
    BY <1>1, <1>6, <2>1 DEF KeptInv, OwedInv, Linked
<1>9. \A t \in Txns : UnlinkInv(t)' /\ SweepInv(t)'
  BY <1>3 DEF UnlinkInv, SweepInv, Sweeping
<1>10. \A t \in Txns : EndInv(t)'
  BY <1>1, <1>2, <1>3 DEF KeptInv, EndInv
<1> QED
  BY <1>7, <1>8, <1>9, <1>10 DEF KeptInv

\* At the beginning there is at most one record, and nobody has begun.
LEMMA InitiallyKept == ASSUME Init PROVE KeptInv
<1>1. \A t \in Txns : pc[t] = "new" /\ result[t] = "none"
  BY DEF Init
<1>2. past = {dir} /\ whole = {dir.final} \ {None} /\ dir.final \in {Origin, None}
  BY DEF Init
<1>3. \A i \in Inodes : Owed(i) => \A d \in past : Linked(d, i)
  BY <1>1, <1>2 DEF Owed, Settled, Succeeded, Linked
<1>4. \A t \in Txns : t \notin whole
  BY <1>2, NameAssumption
<1> QED
  BY <1>1, <1>3, <1>4
  DEF KeptInv, HomeInv, PlacedInv, OwedInv, Placed, UnlinkInv, EndInv, SweepInv, Sweeping,
      Running, CommitSteps, UndoSteps, RemoveSteps

\* Nothing is taken from the directory but what its taker has named, or what a removal, or a
\* sweep beside a command that takes back its exchange, finds under a name it looked at before.
THEOREM Keeping == Spec => []KeptInv
<1>1. IInv /\ KeptInv /\ [Next]_vars => KeptInv'
  <2> SUFFICES ASSUME IInv, KeptInv, [Next]_vars PROVE KeptInv'
    OBVIOUS
  <2>1. CASE UNCHANGED vars
    BY <2>1
    DEF vars, KeptInv, HomeInv, PlacedInv, OwedInv, Owed, Settled, Succeeded, Excused, Through,
        Blind, GivenUp, Linked, Placed, UnlinkInv, EndInv, SweepInv, Sweeping
  <2> QED
    BY <2>1, StartKept, StepKept, PowerCutKept DEF Next, Over
<1> QED
  BY <1>1, InitiallyKept, Invariant, PTL DEF Spec

\* A record that was there or was acknowledged is on disk under some name, whatever a power
\* cut leaves, until somebody who named it has dropped it (commit_exchange,
\* rollback_exchange_if_owned, cleanup_unpublished_record, unlink_capability).
THEOREM RecordKeptCorrect == Spec => []RecordKept
<1>1. IInv /\ KeptInv => RecordKept
  <2> SUFFICES ASSUME IInv, KeptInv, NEW i \in whole,
                      i = Origin \/ (result[i] = "ok" /\ op[i] \in {"create", "replace"})
               PROVE  Excused(i) \/ \A d \in past : Linked(d, i)
    BY DEF RecordKept
  <2>1. i \in Inodes
    BY DEF IInv, TypeOK
  <2>2. Owed(i)
    BY <2>1 DEF Owed, Settled, Succeeded, KeptInv, EndInv, Inodes
  <2> QED
    BY <2>1, <2>2 DEF KeptInv, OwedInv
<1> QED
  BY <1>1, Invariant, Keeping, PTL

(***************************************************************************)
(* The record is a register.                                               *)
(***************************************************************************)
\* The variables of the register.
Reg     == dir.final
Recent  == {d.final : d \in past}
Job(t)  == [kind |-> op[t],
            from |-> IF op[t] \in {"replace", "remove"} THEN expected[t] ELSE None]
Jobs    == [t \in Txns |-> Job(t)]
Effects == [t \in Txns |-> Effect(t)]

Active(s) == s \in {"pending", "applied", "settled", "spoilt"}

\* A running transaction is active in the register, and one that has failed is not.
LEMMA EffectRunning == ASSUME IInv, NEW t \in Txns, pc[t] \in Running PROVE Active(Effect(t))
BY DEF Effect, Active, Running, CommitSteps, UndoSteps, RemoveSteps, IInv, Local, OpInv

LEMMA EffectFailed ==
  ASSUME NEW t \in Txns, pc'[t] = "done", result'[t] # "ok"
  PROVE  Effect(t)' = "failed"
BY DEF Effect

\* How an active transaction may move on while the register stays as it is.
QuietMove(a, b) ==
  \/ a = b
  \/ a \in {"pending", "applied"} /\ b = "spoilt"
  \/ Active(a) /\ b = "failed"
  \/ a = "settled" /\ b = "ok"

\* Only t does anything, and it leaves the temporaries of the others.
Alone(t) ==
  \A u \in Txns \ {t} :
    /\ pc'[u] = pc[u] /\ result'[u] = result[u]
    /\ op'[u] = op[u] /\ expected'[u] = expected[u]
    /\ dir'.tmp[u] = dir.tmp[u]

LEMMA OthersEffect ==
  ASSUME NEW t \in Txns, Alone(t)
  PROVE  Effects' = [Effects EXCEPT ![t] = Effect(t)']
<1>1. \A u \in Txns \ {t} : Effect(u)' = Effect(u)
  BY DEF Effect, Alone
<1> QED
  BY <1>1 DEF Effects

LEMMA JobsSame == ASSUME UNCHANGED callVars PROVE Jobs' = Jobs
BY DEF Jobs, Job, callVars

\* The register of a directory that has changed, or been synced.
LEMMA RecentChanged == ASSUME past' = past \cup {dir'} PROVE Recent' = Recent \cup {Reg'}
BY DEF Recent, Reg

LEMMA RecentSame ==
  ASSUME IInv, dir'.final = dir.final, past' = past \cup {dir'} \/ past' = past
  PROVE  Recent' = Recent
BY DEF Recent, IInv, TypeOK

LEMMA RecentSynced == ASSUME past' = {dir'} PROVE Recent' = {Reg'}
BY DEF Recent, Reg

RegisterStep == [Register!Next]_Register!vars

\* A step that leaves the register is a stutter, or one of Spoil, Fail and Ok.
LEMMA QuietRefines ==
  ASSUME NEW t \in Txns, Alone(t), Reg' = Reg, Recent' = Recent, UNCHANGED callVars,
         QuietMove(Effect(t), Effect(t)')
  PROVE  RegisterStep
<1>1. /\ Effects' = [Effects EXCEPT ![t] = Effect(t)'] /\ Jobs' = Jobs
      /\ Effects[t] = Effect(t)
  BY OthersEffect, JobsSame DEF Effects
<1>2. CASE Effect(t)' = Effect(t)
  <2>1. Effects' = Effects
    BY <1>1, <1>2 DEF Effects
  <2> QED
    BY <1>1, <2>1 DEF RegisterStep, Register!vars, Reg, Recent, Jobs, Job, Effects
<1>3. CASE Effect(t) \in {"pending", "applied"} /\ Effect(t)' = "spoilt"
  <2>1. Register!Spoil(t)
    BY <1>1, <1>3 DEF Register!Spoil, Register!Become, Reg, Recent, Jobs, Job, Effects
  <2> QED
    BY <2>1 DEF RegisterStep, Register!Next
<1>4. CASE Active(Effect(t)) /\ Effect(t)' = "failed"
  <2>1. Register!Fail(t)
    BY <1>1, <1>4 DEF Register!Fail, Register!Become, Active, Reg, Recent, Jobs, Job, Effects
  <2> QED
    BY <2>1 DEF RegisterStep, Register!Next
<1>5. CASE Effect(t) = "settled" /\ Effect(t)' = "ok"
  <2>1. Register!Ok(t)
    BY <1>1, <1>5 DEF Register!Ok, Register!Become, Reg, Recent, Jobs, Job, Effects
  <2> QED
    BY <2>1 DEF RegisterStep, Register!Next
<1> QED
  BY <1>2, <1>3, <1>4, <1>5 DEF QuietMove

\* Where a step leads t.
LEMMA Leads ==
  ASSUME IInv, NEW t \in Txns
  PROVE  /\ \A to : Goto(t, to) => pc'[t] = to /\ result'[t] = result[t]
         /\ \A code : Finish(t, code) => pc'[t] = "done" /\ result'[t] = code
         /\ \A code : Abort(t, code) => pc'[t] = "abort" /\ result'[t] = code
         /\ ((\E to : Goto(t, to)) \/ (\E code : Finish(t, code) \/ Abort(t, code))) =>
              \A u \in Txns \ {t} : pc'[u] = pc[u] /\ result'[u] = result[u]
BY DEF Goto, Finish, Abort, IInv, TypeOK

\* Nothing but the location and the result of t changes.
Quiet(t) ==
  /\ UNCHANGED <<dir, past, callVars>>
  /\ \A u \in Txns \ {t} : pc'[u] = pc[u] /\ result'[u] = result[u]

LEMMA QuietAlone ==
  ASSUME NEW t \in Txns, Quiet(t), QuietMove(Effect(t), Effect(t)')
  PROVE  RegisterStep
<1>1. Alone(t) /\ Reg' = Reg /\ Recent' = Recent /\ UNCHANGED callVars
  BY DEF Quiet, Alone, callVars, Reg, Recent
<1> QED
  BY <1>1, QuietRefines

\* A failure that changes nothing is a failure in the register.
LEMMA FailureRefines ==
  ASSUME IInv, NEW t \in Txns, NEW code, code # "ok", pc[t] \in Running, Finish(t, code),
         UNCHANGED <<dir, past, callVars>>
  PROVE  RegisterStep
<1>1. /\ pc'[t] = "done" /\ result'[t] # "ok"
      /\ \A u \in Txns \ {t} : pc'[u] = pc[u] /\ result'[u] = result[u]
  BY Leads
<1>2. Active(Effect(t)) /\ Effect(t)' = "failed"
  BY <1>1, EffectRunning, EffectFailed
<1> QED
  BY <1>1, <1>2, QuietAlone DEF Quiet, QuietMove

LEMMA CheckRefines ==
  ASSUME IInv, NEW t \in Txns, NEW at \in Running, NEW STATE ok,
         NEW to \in Locations, NEW code \in Results \ {"ok"},
         Check(t, at, ok, to, code),
         ok /\ Passes(t, at, to) => QuietMove(Effect(t), Effect(t)')
  PROVE  RegisterStep
<1>1. CASE ok
  <2>1. /\ pc'[t] = to /\ result'[t] = result[t]
        /\ \A u \in Txns \ {t} : pc'[u] = pc[u] /\ result'[u] = result[u]
    BY <1>1, Leads DEF Check
  <2>2. Passes(t, at, to)
    BY <2>1 DEF Check, Passes
  <2> QED
    BY <1>1, <2>1, <2>2, QuietAlone DEF Check, Quiet
<1>2. CASE ~ok
  BY <1>2, FailureRefines DEF Check
<1> QED
  BY <1>1, <1>2

\* The comparisons of a commit.
LEMMA BeginRefines == ASSUME IInv, NEW t \in Txns, Begin(t) PROVE RegisterStep
<1>1. dir.final = expected[t] /\ Passes(t, "begin", "open") => QuietMove(Effect(t), Effect(t)')
  BY DEF Passes, QuietMove, Active, Effect, callVars
<1> QED
  BY <1>1, CheckRefines
  DEF Begin, Running, Locations, CommitSteps, UndoSteps, RemoveSteps, Results

LEMMA UnknownRefines == ASSUME IInv, NEW t \in Txns, Unknown(t) PROVE RegisterStep
<1>1. FALSE /\ Passes(t, "unknown", "done") => QuietMove(Effect(t), Effect(t)')
  BY DEF Passes, QuietMove, Active, Effect, callVars
<1> QED
  BY <1>1, CheckRefines
  DEF Unknown, Running, Locations, CommitSteps, UndoSteps, RemoveSteps, Results

LEMMA RollbackRefines == ASSUME IInv, NEW t \in Txns, Rollback(t) PROVE RegisterStep
<1>1. /\ dir.final = t /\ dir.tmp[t] = expected[t] /\ Passes(t, "rollback", "unswap")
      => QuietMove(Effect(t), Effect(t)')
  BY DEF Passes, QuietMove, Active, Effect, callVars
<1> QED
  BY <1>1, CheckRefines
  DEF Rollback, Running, Locations, CommitSteps, UndoSteps, RemoveSteps, Results

LEMMA PredecessorRefines == ASSUME IInv, NEW t \in Txns, Predecessor(t) PROVE RegisterStep
<1>1. /\ expected[t] \in whole /\ Precedes(expected[t], dir.final) /\ Passes(t, "precedes", "read")
      => QuietMove(Effect(t), Effect(t)')
  BY DEF Passes, QuietMove, Active, Effect, callVars
<1> QED
  BY <1>1, CheckRefines
  DEF Predecessor, Running, Locations, CommitSteps, UndoSteps, RemoveSteps, Results

LEMMA VerifyRefines == ASSUME IInv, NEW t \in Txns, Verify(t) PROVE RegisterStep
<1>1. dir.final = t /\ Passes(t, "verify", "sync") => QuietMove(Effect(t), Effect(t)')
  BY DEF Passes, QuietMove, Active, Effect, callVars, IInv, Local, OpInv
<1> QED
  BY <1>1, CheckRefines
  DEF Verify, Running, Locations, CommitSteps, UndoSteps, RemoveSteps, Results

\* Those that lead on to a cleanup.
LEMMA CommitRefines == ASSUME IInv, NEW t \in Txns, Commit(t) PROVE RegisterStep
<1>1. /\ pc[t] = "commit" /\ pc'[t] \in {"link", "compare", "abort"}
      /\ pc'[t] = "abort" => result'[t] = "error"
      /\ Quiet(t)
  BY Leads DEF Commit, Quiet
<1>2. Effect(t) = "pending" /\ Effect(t)' = "pending"
  BY <1>1 DEF Effect
<1> QED
  BY <1>1, <1>2, QuietAlone DEF QuietMove

LEMMA CompareRefines == ASSUME IInv, NEW t \in Txns, Compare(t) PROVE RegisterStep
<1>1. /\ pc[t] = "compare" /\ pc'[t] \in {"exchange", "abort"}
      /\ pc'[t] = "abort" => result'[t] = "error"
      /\ Quiet(t)
  BY Leads DEF Compare, Quiet
<1>2. Effect(t) = "pending" /\ Effect(t)' = "pending"
  BY <1>1 DEF Effect
<1> QED
  BY <1>1, <1>2, QuietAlone DEF QuietMove

\* What the exchange displaced decides whether it was the swap.
LEMMA PublishedRefines == ASSUME IInv, NEW t \in Txns, Published(t) PROVE RegisterStep
<1>1. pc[t] = "published" /\ pc'[t] \in {"displaced", "rollback"} /\ Quiet(t)
  BY Leads DEF Published, Reread, Quiet
<1>2. QuietMove(Effect(t), Effect(t)')
  BY <1>1 DEF Effect, QuietMove, Quiet, callVars
<1> QED
  BY <1>1, <1>2, QuietAlone

LEMMA DisplacedRefines == ASSUME IInv, NEW t \in Txns, Displaced(t) PROVE RegisterStep
<1>1. /\ pc[t] = "displaced" /\ pc'[t] \in {"drop", "rollback"} /\ Quiet(t)
      /\ pc'[t] = "drop" => dir.tmp[t] = expected[t]
  BY Leads DEF Displaced, Reread, Quiet
<1>2. op'[t] = op[t] /\ op[t] = "replace"
  BY <1>1 DEF Quiet, callVars, IInv, Local, OpInv
<1>3. QuietMove(Effect(t), Effect(t)')
  BY <1>1, <1>2 DEF Effect, QuietMove
<1> QED
  BY <1>1, <1>3, QuietAlone

LEMMA ReturnRefines == ASSUME IInv, NEW t \in Txns, Return(t) PROVE RegisterStep
<1>1. PICK code \in {"doubt", "error", "ok"} :
        pc[t] = "return" /\ Finish(t, code) /\ UNCHANGED <<dir, past, callVars>>
  BY DEF Return, Check
<1>2. pc'[t] = "done" /\ Quiet(t)
  BY <1>1, Leads DEF Quiet
<1>3. QuietMove(Effect(t), Effect(t)')
  BY <1>1, <1>2 DEF Effect, QuietMove, Active
<1> QED
  BY <1>2, <1>3, QuietAlone

LEMMA RestoredRefines == ASSUME IInv, NEW t \in Txns, Restored(t) PROVE RegisterStep
<1>1. CASE Abort(t, "doubt")
  <2>1. pc[t] = "restored" /\ pc'[t] = "abort" /\ result'[t] = "doubt" /\ Quiet(t)
    BY <1>1, Leads DEF Restored, Quiet
  <2>2. QuietMove(Effect(t), Effect(t)')
    BY <2>1 DEF Effect, QuietMove
  <2> QED
    BY <2>1, <2>2, QuietAlone
<1>2. CASE Finish(t, "doubt")
  BY <1>2, FailureRefines
  DEF Restored, Running, Locations, CommitSteps, UndoSteps, RemoveSteps, Results
<1> QED
  BY <1>1, <1>2 DEF Restored

LEMMA KillRefines == ASSUME IInv, NEW t \in Txns, Kill(t) PROVE RegisterStep
BY FailureRefines DEF Kill

\* A temporary that is made, filled or taken away does not show in the register.
LEMMA OpenRefines == ASSUME IInv, NEW t \in Txns, Open(t) PROVE RegisterStep
<1>1. CASE Change([dir EXCEPT !.tmp[t] = t]) /\ Goto(t, "write")
  <2>1. /\ dir'.final = dir.final /\ dir'.tmp = [dir.tmp EXCEPT ![t] = t]
        /\ past' = past \cup {dir'}
    BY <1>1, TmpFacts DEF Change, IInv, TypeOK, Links, Inodes
  <2>2. pc[t] = "open" /\ pc'[t] = "write" /\ Alone(t) /\ UNCHANGED callVars
    BY <1>1, <2>1, Leads DEF Open, Alone, IInv, TypeOK, Directories, callVars
  <2>3. QuietMove(Effect(t), Effect(t)')
    BY <2>2 DEF Effect, QuietMove
  <2> QED
    BY <2>1, <2>2, <2>3, RecentSame, QuietRefines DEF Reg
<1>2. CASE Finish(t, "error") /\ UNCHANGED <<dir, past>>
  BY <1>2, FailureRefines
  DEF Open, Running, Locations, CommitSteps, UndoSteps, RemoveSteps, Results
<1> QED
  BY <1>1, <1>2 DEF Open

LEMMA InitializeRefines == ASSUME IInv, NEW t \in Txns, Initialize(t) PROVE RegisterStep
<1>1. /\ pc[t] = "write" /\ pc'[t] \in {"commit", "abort"}
      /\ pc'[t] = "abort" => result'[t] = "error"
      /\ Quiet(t)
  BY Leads DEF Initialize, Quiet
<1>2. Effect(t) = "pending" /\ Effect(t)' = "pending"
  BY <1>1 DEF Effect
<1> QED
  BY <1>1, <1>2, QuietAlone DEF QuietMove

LEMMA DropRefines == ASSUME IInv, NEW t \in Txns, Drop(t) PROVE RegisterStep
<1>1. CASE Check(t, "drop", dir.tmp[t] = expected[t], "drop_unlink", "doubt")
  <2>1. dir.tmp[t] = expected[t] /\ Passes(t, "drop", "drop_unlink")
          => QuietMove(Effect(t), Effect(t)')
    BY DEF Passes, QuietMove, Effect, callVars
  <2> QED
    BY <1>1, <2>1, CheckRefines
    DEF Running, Locations, CommitSteps, UndoSteps, RemoveSteps, Results
<1>2. CASE UnlinkAt(t, "drop_unlink", dir.tmp[t] # None, "sync", WithoutTmp(t), "doubt")
  <2>1. CASE dir.tmp[t] # None
    <3>1. /\ dir'.final = dir.final /\ past' = past \cup {dir'}
          /\ \A w \in Txns \ {t} : dir'.tmp[w] = dir.tmp[w]
      BY <1>2, <2>1, WithoutFacts DEF UnlinkAt
    <3>2. /\ pc[t] = "drop_unlink" /\ pc'[t] = "sync" /\ Alone(t) /\ UNCHANGED callVars
          /\ op[t] = "replace" /\ op' = op
      BY <1>2, <2>1, <3>1, Leads DEF UnlinkAt, Alone, callVars, IInv, Local, OpInv
    <3>3. QuietMove(Effect(t), Effect(t)')
      BY <3>2 DEF Effect, QuietMove
    <3> QED
      BY <3>1, <3>2, <3>3, RecentSame, QuietRefines DEF Reg
  <2>2. CASE dir.tmp[t] = None
    BY <1>2, <2>2, FailureRefines
    DEF UnlinkAt, Running, Locations, CommitSteps, UndoSteps, RemoveSteps, Results
  <2> QED
    BY <2>1, <2>2
<1> QED
  BY <1>1, <1>2 DEF Drop

LEMMA CleanupRefines == ASSUME IInv, NEW t \in Txns, Cleanup(t) PROVE RegisterStep
<1>1. CASE Check(t, "abort", dir.tmp[t] = t, "abort_unlink", "error")
  <2>1. dir.tmp[t] = t /\ Passes(t, "abort", "abort_unlink")
          => QuietMove(Effect(t), Effect(t)')
    BY DEF Passes, QuietMove, Effect, callVars
  <2> QED
    BY <1>1, <2>1, CheckRefines
    DEF Running, Locations, CommitSteps, UndoSteps, RemoveSteps, Results
<1>2. CASE UnlinkAt(t, "abort_unlink", dir.tmp[t] # None, "abort_sync", WithoutTmp(t), "error")
  <2>1. CASE dir.tmp[t] # None
    <3>1. /\ dir'.final = dir.final /\ past' = past \cup {dir'}
          /\ \A w \in Txns \ {t} : dir'.tmp[w] = dir.tmp[w]
      BY <1>2, <2>1, WithoutFacts DEF UnlinkAt
    <3>2. /\ pc[t] = "abort_unlink" /\ pc'[t] = "abort_sync" /\ result'[t] = result[t]
          /\ Alone(t) /\ UNCHANGED callVars
      BY <1>2, <2>1, <3>1, Leads DEF UnlinkAt, Alone, callVars
    <3>3. QuietMove(Effect(t), Effect(t)')
      BY <3>2 DEF Effect, QuietMove
    <3> QED
      BY <3>1, <3>2, <3>3, RecentSame, QuietRefines DEF Reg
  <2>2. CASE dir.tmp[t] = None
    BY <1>2, <2>2, FailureRefines
    DEF UnlinkAt, Running, Locations, CommitSteps, UndoSteps, RemoveSteps, Results
  <2> QED
    BY <2>1, <2>2
<1>3. CASE /\ pc[t] = "abort_sync" /\ Finish(t, "doubt") /\ UNCHANGED <<dir, past, callVars>>
  BY <1>3, FailureRefines DEF Running, Locations, CommitSteps, UndoSteps, RemoveSteps, Results
<1>4. CASE /\ pc[t] = "abort_sync" /\ past' = {dir} /\ Finish(t, result[t])
           /\ UNCHANGED <<dir, callVars>>
  <2>1. /\ pc'[t] = "done" /\ result'[t] # "ok" /\ Alone(t)
    BY <1>4, Leads DEF IInv, Local, AbortInv, Alone, callVars
  <2>2. Effect(t) \in {"pending", "spoilt"} /\ Effect(t)' = "failed"
    BY <1>4, <2>1 DEF Effect
  <2>3. Recent' = {Reg'} /\ Reg' = Reg
    BY <1>4, RecentSynced DEF Reg
  <2>4. Effects' = [Effects EXCEPT ![t] = "failed"] /\ Jobs' = Jobs /\ Effects[t] = Effect(t)
    BY <1>4, <2>1, <2>2, OthersEffect, JobsSame DEF Effects
  <2>5. Register!Fail(t)
    BY <2>2, <2>3, <2>4 DEF Register!Fail, Register!Become, Reg, Recent, Jobs, Job, Effects
  <2> QED
    BY <2>5 DEF RegisterStep, Register!Next
<1> QED
  BY <1>1, <1>2, <1>3, <1>4 DEF Cleanup

\* A sync settles what has been applied.
LEMMA SyncRefines == ASSUME IInv, NEW t \in Txns, Sync(t) PROVE RegisterStep
<1>1. CASE past' = {dir} /\ Goto(t, "return")
  <2>1. /\ pc[t] = "sync" /\ pc'[t] = "return" /\ Alone(t) /\ UNCHANGED <<dir, callVars>>
    BY <1>1, Leads DEF Sync, Alone, callVars
  <2>2. Recent' = {Reg'} /\ Reg' = Reg
    BY <1>1, <2>1, RecentSynced DEF Reg
  <2>3. /\ Effect(t) = (IF op[t] = "sweep" THEN "pending" ELSE "applied")
        /\ Effect(t)' = "settled"
    BY <2>1 DEF Effect
  <2>4. /\ Effects' = [Effects EXCEPT ![t] = "settled"] /\ Jobs' = Jobs
        /\ Effects[t] = Effect(t) /\ Jobs[t].kind = op[t]
    BY <2>1, <2>3, OthersEffect, JobsSame DEF Effects, Jobs, Job
  <2>5. Register!Flush(t)
    BY <2>2, <2>3, <2>4 DEF Register!Flush, Register!Become, Reg, Recent, Jobs, Job, Effects
  <2> QED
    BY <2>5 DEF RegisterStep, Register!Next
<1>2. CASE Finish(t, "doubt") /\ UNCHANGED past
  BY <1>2, FailureRefines
  DEF Sync, Running, Locations, CommitSteps, UndoSteps, RemoveSteps, Results
<1> QED
  BY <1>1, <1>2 DEF Sync

\* A rename that was not done, or an undo.
LEMMA AbandonRefines ==
  ASSUME IInv, NEW t \in Txns, pc[t] \in {"link", "exchange"}, UNCHANGED <<dir, past, callVars>>,
         Goto(t, "unknown") \/ (\E code \in {"exists", "error"} : Abort(t, code))
  PROVE  RegisterStep
<1>1. /\ pc'[t] \in {"unknown", "abort"} /\ Quiet(t)
      /\ pc'[t] = "abort" => result'[t] # "doubt"
  BY Leads DEF Quiet
<1>2. QuietMove(Effect(t), Effect(t)')
  BY <1>1 DEF Effect, QuietMove
<1> QED
  BY <1>1, <1>2, QuietAlone

\* The rename of a new record is the swap.
LEMMA LinkRefines == ASSUME IInv, NEW t \in Txns, Link(t) PROVE RegisterStep
<1>1. pc[t] = "link" /\ op[t] = "create" /\ UNCHANGED callVars
  BY DEF Link, IInv, Local, OpInv
<1>2. CASE /\ dir.final = None /\ dir.tmp[t] # None
           /\ Change([dir EXCEPT !.final = dir.tmp[t], !.tmp[t] = None])
           /\ Goto(t, "verify") \/ Goto(t, "unknown")
  <2>1. dir.tmp[t] = t /\ dir \in Directories
    BY <1>1, <1>2 DEF IInv, TypeOK, Local, TmpInv
  <2>2. /\ dir'.final = t /\ past' = past \cup {dir'}
        /\ \A u \in Txns \ {t} : dir'.tmp[u] = dir.tmp[u]
    BY <1>2, <2>1 DEF Change, Directories
  <2>3. pc'[t] \in {"verify", "unknown"} /\ Alone(t)
    BY <1>1, <1>2, <2>2, Leads DEF Alone, callVars
  <2>4. Effect(t) = "pending" /\ Effect(t)' \in {"applied", "spoilt"}
    BY <1>1, <2>3 DEF Effect, callVars
  <2>5. /\ Effects' = [Effects EXCEPT ![t] = Effect(t)'] /\ Jobs' = Jobs
        /\ Effects[t] = Effect(t) /\ Jobs[t] = [kind |-> "create", from |-> None]
    BY <1>1, <2>3, OthersEffect, JobsSame DEF Effects, Jobs, Job
  <2>6. Reg = None /\ Reg' = t /\ Recent' = Recent \cup {t}
    BY <1>2, <2>2, RecentChanged DEF Reg
  <2>7. Register!Swap(t)
    BY <2>4, <2>5, <2>6
    DEF Register!Swap, Register!Set, Register!Become, Reg, Recent, Jobs, Job, Effects
  <2> QED
    BY <2>7 DEF RegisterStep, Register!Next
<1>3. CASE /\ UNCHANGED <<dir, past>>
           /\ Goto(t, "unknown") \/ (\E code \in {"exists", "error"} : Abort(t, code))
  BY <1>1, <1>3, AbandonRefines
<1> QED
  BY <1>2, <1>3 DEF Link

\* An exchange is the swap if the record was the expected one, and else an overwrite.
LEMMA ExchangeRefines == ASSUME IInv, NEW t \in Txns, Exchange(t) PROVE RegisterStep
<1>1. pc[t] = "exchange" /\ op[t] = "replace" /\ UNCHANGED callVars
  BY DEF Exchange, IInv, Local, OpInv
<1>2. CASE /\ Exchangeable(t) /\ Change(Exchanged(t))
           /\ Goto(t, "published") \/ Goto(t, "unknown")
  <2>1. dir.tmp[t] = t /\ dir.final # None
    BY <1>1, <1>2 DEF IInv, Local, TmpInv, Exchangeable
  <2>2. /\ dir'.final = t /\ past' = past \cup {dir'} /\ dir'.tmp[t] = dir.final
        /\ \A u \in Txns \ {t} : dir'.tmp[u] = dir.tmp[u]
    BY <1>2, <2>1, ExchangedFacts
  <2>3. pc'[t] \in {"published", "unknown"} /\ Alone(t)
    BY <1>1, <1>2, <2>2, Leads DEF Alone, callVars
  <2>4. /\ Effect(t) = "pending"
        /\ dir.final = expected[t] => Effect(t)' \in {"applied", "spoilt"}
        /\ dir.final # expected[t] => Effect(t)' = "spoilt"
    BY <1>1, <2>2, <2>3 DEF Effect, callVars
  <2>5. /\ Effects' = [Effects EXCEPT ![t] = Effect(t)'] /\ Jobs' = Jobs
        /\ Effects[t] = Effect(t) /\ Jobs[t] = [kind |-> "replace", from |-> expected[t]]
    BY <1>1, <2>3, OthersEffect, JobsSame DEF Effects, Jobs, Job
  <2>6. Reg # None /\ Reg' = t /\ Recent' = Recent \cup {t}
    BY <2>1, <2>2, RecentChanged DEF Reg
  <2>7. CASE dir.final = expected[t]
    <3>1. Register!Swap(t)
      BY <2>4, <2>5, <2>6, <2>7
      DEF Register!Swap, Register!Set, Register!Become, Reg, Recent, Jobs, Job, Effects
    <3> QED
      BY <3>1 DEF RegisterStep, Register!Next
  <2>8. CASE dir.final # expected[t]
    <3>1. Register!Overwrite(t)
      BY <2>4, <2>5, <2>6, <2>8
      DEF Register!Overwrite, Register!Set, Register!Become, Reg, Recent, Jobs, Job, Effects
    <3> QED
      BY <3>1 DEF RegisterStep, Register!Next
  <2> QED
    BY <2>7, <2>8
<1>3. CASE /\ UNCHANGED <<dir, past>>
           /\ Goto(t, "unknown") \/ (\E code \in {"exists", "error"} : Abort(t, code))
  BY <1>1, <1>3, AbandonRefines
<1> QED
  BY <1>2, <1>3 DEF Exchange

\* Its undo puts back what the transaction expected.
LEMMA UnswapRefines == ASSUME IInv, NEW t \in Txns, Unswap(t) PROVE RegisterStep
<1>1. pc[t] = "unswap" /\ op[t] = "replace" /\ UNCHANGED callVars
  BY DEF Unswap, IInv, Local, OpInv
<1>2. CASE Exchangeable(t) /\ Change(Exchanged(t)) /\ Goto(t, "restored")
  <2>1. dir.tmp[t] = expected[t]
    BY <1>1, <1>2 DEF IInv, Local, TmpInv, Exchangeable
  <2>2. /\ dir'.final = expected[t] /\ past' = past \cup {dir'}
        /\ \A u \in Txns \ {t} : dir'.tmp[u] = dir.tmp[u]
    BY <1>2, <2>1, ExchangedFacts
  <2>3. pc'[t] = "restored" /\ Alone(t)
    BY <1>1, <1>2, <2>2, Leads DEF Alone, callVars
  <2>4. Effect(t) = "spoilt" /\ Effect(t)' = "spoilt"
    BY <1>1, <2>3 DEF Effect
  <2>5. /\ Effects' = [Effects EXCEPT ![t] = Effect(t)'] /\ Jobs' = Jobs
        /\ Effects[t] = Effect(t) /\ Jobs[t] = [kind |-> "replace", from |-> expected[t]]
    BY <1>1, <2>3, OthersEffect, JobsSame DEF Effects, Jobs, Job
  <2>6. Effects' = Effects
    BY <2>4, <2>5 DEF Effects
  <2>7. Reg' = expected[t] /\ Recent' = Recent \cup {expected[t]}
    BY <2>2, RecentChanged DEF Reg
  <2>8. Register!Restore(t)
    BY <2>4, <2>5, <2>6, <2>7
    DEF Register!Restore, Register!Set, Reg, Recent, Jobs, Job, Effects
  <2> QED
    BY <2>8 DEF RegisterStep, Register!Next
<1>3. CASE Finish(t, "doubt") /\ UNCHANGED <<dir, past>>
  BY <1>1, <1>3, FailureRefines
  DEF Running, Locations, CommitSteps, UndoSteps, RemoveSteps, Results
<1> QED
  BY <1>2, <1>3 DEF Unswap

\* A removal empties the register; a sweep can spoil the transaction whose temporary it takes.
LEMMA RemoveRefines == ASSUME IInv, NEW t \in Txns, Remove(t) PROVE RegisterStep
<1>1. CASE Check(t, "read", Subject(t) = expected[t], "stat", "error")
  <2>1. Subject(t) = expected[t] /\ Passes(t, "read", "stat") => QuietMove(Effect(t), Effect(t)')
    BY DEF Passes, QuietMove, Effect, callVars
  <2> QED
    BY <1>1, <2>1, CheckRefines
    DEF Running, Locations, CommitSteps, UndoSteps, RemoveSteps, Results
<1>2. CASE Check(t, "stat", Subject(t) = expected[t], "unlink", "error")
  <2>1. Subject(t) = expected[t] /\ Passes(t, "stat", "unlink") => QuietMove(Effect(t), Effect(t)')
    BY DEF Passes, QuietMove, Effect, callVars
  <2> QED
    BY <1>2, <2>1, CheckRefines
    DEF Running, Locations, CommitSteps, UndoSteps, RemoveSteps, Results
<1>3. CASE /\ op[t] = "remove"
           /\ UnlinkAt(t, "unlink", dir.final # None, "sync", [dir EXCEPT !.final = None], "error")
  <2>1. CASE dir.final # None
    <3>1. /\ pc[t] = "unlink" /\ pc'[t] = "sync" /\ UNCHANGED callVars
          /\ past' = past \cup {dir'} /\ dir'.final = None /\ dir'.tmp = dir.tmp
      BY <1>3, <2>1, Leads DEF UnlinkAt, Change, IInv, TypeOK, Directories
    <3>2. Alone(t) /\ op'[t] = "remove"
      BY <1>3, <2>1, <3>1, Leads DEF UnlinkAt, Alone, callVars
    <3>3. Effect(t) = "pending" /\ Effect(t)' = "applied"
      BY <3>1, <3>2 DEF Effect
    <3>4. /\ Effects' = [Effects EXCEPT ![t] = Effect(t)'] /\ Jobs' = Jobs
          /\ Effects[t] = Effect(t) /\ Jobs[t].kind = "remove"
      BY <1>3, <3>1, <3>2, OthersEffect, JobsSame DEF Effects, Jobs, Job
    <3>5. Reg # None /\ Reg' = None /\ Recent' = Recent \cup {None}
      BY <2>1, <3>1, RecentChanged DEF Reg
    <3>6. Register!Remove(t)
      BY <3>3, <3>4, <3>5
      DEF Register!Remove, Register!Set, Register!Become, Reg, Recent, Jobs, Job, Effects
    <3> QED
      BY <3>6 DEF RegisterStep, Register!Next
  <2>2. CASE dir.final = None
    BY <1>3, <2>2, FailureRefines
    DEF UnlinkAt, Running, Locations, CommitSteps, UndoSteps, RemoveSteps, Results
  <2> QED
    BY <2>1, <2>2
<1>4. CASE /\ op[t] = "sweep"
           /\ UnlinkAt(t, "unlink", dir.tmp[target[t]] # None, "sync", WithoutTmp(target[t]),
                       "error")
  <2>1. PICK u \in Txns : u = target[t]
    BY DEF IInv, TypeOK
  <2>2. CASE dir.tmp[u] # None
    <3>1. /\ dir'.final = dir.final /\ past' = past \cup {dir'}
          /\ dir'.tmp[u] = None /\ \A w \in Txns \ {u} : dir'.tmp[w] = dir.tmp[w]
      BY <1>4, <2>1, <2>2, WithoutFacts DEF UnlinkAt
    <3>2. /\ pc[t] = "unlink" /\ pc'[t] = "sync" /\ UNCHANGED callVars
          /\ \A w \in Txns \ {t} : pc'[w] = pc[w] /\ result'[w] = result[w]
      BY <1>4, <2>1, <2>2, Leads DEF UnlinkAt
    <3>3. Effect(t)' = Effect(t)
      BY <1>4, <3>2 DEF Effect, callVars
    <3>4. \A w \in Txns \ {t, u} : Effect(w)' = Effect(w)
      BY <3>1, <3>2 DEF Effect, callVars
    <3>5. u # t => Effect(u)' = Effect(u) \/ (Effect(u) = "applied" /\ Effect(u)' = "spoilt")
      BY <3>1, <3>2 DEF Effect, callVars, IInv, Local, OpInv
    <3>6. Reg' = Reg /\ Recent' = Recent /\ Jobs' = Jobs
      BY <3>1, <3>2, RecentSame, JobsSame DEF Reg
    <3>7. CASE Effect(u)' = Effect(u)
      <4>1. Effects' = Effects
        BY <3>3, <3>4, <3>7 DEF Effects
      <4> QED
        BY <3>6, <4>1 DEF RegisterStep, Register!vars, Reg, Recent, Jobs, Job, Effects
    <3>8. CASE Effect(u) = "applied" /\ Effect(u)' = "spoilt"
      <4>1. Effects' = [Effects EXCEPT ![u] = "spoilt"] /\ Effects[u] = "applied"
        BY <3>3, <3>4, <3>8 DEF Effects
      <4>2. Register!Spoil(u)
        BY <3>6, <4>1 DEF Register!Spoil, Register!Become, Reg, Recent, Jobs, Job, Effects
      <4> QED
        BY <4>2 DEF RegisterStep, Register!Next
    <3> QED
      BY <3>3, <3>5, <3>7, <3>8
  <2>3. CASE dir.tmp[u] = None
    BY <1>4, <2>1, <2>3, FailureRefines
    DEF UnlinkAt, Running, Locations, CommitSteps, UndoSteps, RemoveSteps, Results
  <2> QED
    BY <2>2, <2>3
<1> QED
  BY <1>1, <1>2, <1>3, <1>4 DEF Remove

\* A call names the record it has seen.
LEMMA StartRefines == ASSUME IInv, NEW t \in Txns, NEW o \in Ops, Start(t, o) PROVE RegisterStep
<1>1. /\ pc[t] = "new" /\ op' = [op EXCEPT ![t] = o]
      /\ UNCHANGED <<dir, past, result>>
  BY DEF Start, Goto
<1>2. PICK to \in {"open", "begin", "read", "precedes"} : pc' = [pc EXCEPT ![t] = to]
  BY DEF Start, Goto
<1>3. /\ o \in {"replace", "remove"} =>
            dir.final # None /\ expected' = [expected EXCEPT ![t] = dir.final]
      /\ o \notin {"replace", "remove"} => \A u \in Txns \ {t} : expected'[u] = expected[u]
  BY DEF Start, IInv, TypeOK
<1>4. /\ pc'[t] = to /\ op'[t] = o
      /\ o \in {"replace", "remove"} => expected'[t] = dir.final
      /\ \A u \in Txns \ {t} : /\ pc'[u] = pc[u] /\ op'[u] = op[u]
                                /\ expected'[u] = expected[u]
  BY <1>1, <1>2, <1>3 DEF IInv, TypeOK
<1>5. Alone(t) /\ Reg' = Reg /\ Recent' = Recent
  BY <1>1, <1>4 DEF Alone, Reg, Recent
<1>6. Effect(t) = "new" /\ Effect(t)' = "pending"
  BY <1>1, <1>4 DEF Effect
<1>7. Effects' = [Effects EXCEPT ![t] = "pending"] /\ Effects[t] = "new"
  BY <1>5, <1>6, OthersEffect DEF Effects
<1>8. Jobs' = [Jobs EXCEPT ![t] =
                [kind |-> o, from |-> IF o \in {"replace", "remove"} THEN Reg ELSE None]]
  <2>1. \A u \in Txns \ {t} : Job(u)' = Job(u)
    BY <1>4 DEF Job
  <2>2. Job(t)' = [kind |-> o, from |-> IF o \in {"replace", "remove"} THEN Reg ELSE None]
    BY <1>4 DEF Job, Reg
  <2> QED
    BY <2>1, <2>2 DEF Jobs
<1>9. Register!Call(t)
  BY <1>3, <1>5, <1>7, <1>8
  DEF Register!Call, Register!Become, Register!Kinds, Ops, Reg, Recent, Jobs, Job, Effects
<1> QED
  BY <1>9 DEF RegisterStep, Register!Next

\* After a power cut the register is one of the recent ones.
LEMMA PowerCutRefines == ASSUME IInv, PowerCut PROVE RegisterStep
<1>1. dir' \in past /\ past' = {dir'} /\ UNCHANGED callVars
  BY DEF PowerCut
<1>2. Reg' \in Recent /\ Recent' = {Reg'} /\ Jobs' = Jobs
  BY <1>1, RecentSynced, JobsSame DEF Reg, Recent
<1>3. ASSUME NEW t \in Txns
      PROVE  Effect(t)' = IF Effect(t) \in {"new", "ok"} THEN Effect(t) ELSE "failed"
  <2>1. CASE pc[t] \in Running
    <3>1. pc'[t] = "done" /\ result'[t] # "ok"
      BY <2>1 DEF PowerCut
    <3> QED
      BY <2>1, <3>1, EffectRunning, EffectFailed DEF Active
  <2>2. CASE pc[t] \in {"new", "done"}
    <3>1. pc'[t] = pc[t] /\ result'[t] = result[t]
      BY <2>2 DEF PowerCut, Running, Locations, CommitSteps, UndoSteps, RemoveSteps, Results
    <3> QED
      BY <2>2, <3>1 DEF Effect
  <2> QED
    BY <2>1, <2>2 DEF IInv, TypeOK, Locations
<1>4. Effects' = [t \in Txns |-> IF Effects[t] \in {"new", "ok"} THEN Effects[t] ELSE "failed"]
  BY <1>3 DEF Effects
<1>5. Register!PowerCut
  BY <1>2, <1>4 DEF Register!PowerCut, Reg, Recent, Jobs, Job, Effects
<1> QED
  BY <1>5 DEF RegisterStep, Register!Next

\* Every step is one of the register, or none.
LEMMA Refines == ASSUME IInv, [Next]_vars PROVE RegisterStep
<1>1. ASSUME UNCHANGED vars PROVE RegisterStep
  BY <1>1 DEF vars, Effect, RegisterStep, Register!vars
<1>2. ASSUME NEW t \in Txns, Step(t) PROVE RegisterStep
  BY <1>2, BeginRefines, OpenRefines, InitializeRefines, CommitRefines, LinkRefines,
     CompareRefines, ExchangeRefines, UnknownRefines, PublishedRefines, DisplacedRefines,
     DropRefines, VerifyRefines, SyncRefines, ReturnRefines, RollbackRefines, UnswapRefines,
     RestoredRefines, CleanupRefines, PredecessorRefines, RemoveRefines
  DEF Step
<1> QED
  BY <1>1, <1>2, StartRefines, KillRefines, PowerCutRefines DEF Next, Over

\* The register begins as the record does.
LEMMA InitRefines == ASSUME Init PROVE Register!Init
BY DEF Init, Register!Init, Register!NoJob, Effect

\* However many transactions compare, rename, compare again, undo and sync in steps of their
\* own, and wherever they are killed: those that report success are atomic and durable
\* compare-and-swaps of the record, which commit_new and commit_exchange are there for.
THEOREM RefinesRegister == Spec => Implements
<1>1. Init => Register!Init
  BY InitRefines
<1>2. IInv /\ [Next]_vars => [Register!Next]_Register!vars
  BY Refines DEF RegisterStep
<1> QED
  BY <1>1, <1>2, Invariant, PTL DEF Spec, Implements, Register!Spec
=============================================================================
