--------------------------- MODULE PublishProofs ---------------------------
(***************************************************************************)
(* Theorems about Publish, for any number of publishers, sessions, commits,*)
(* configurations, faults and steps of the environment.                    *)
(***************************************************************************)
EXTENDS PublishQuiet, TLAPS

\* What no journal entry holds is still a transaction: there is a configuration.
LEMMA NoTxType == NoTx \in Txs
  BY ConfigAssumption DEF NoTx, Txs, Tips

LEMMA ProceedType ==
  ASSUME TypeOK, NEW p \in Procs, NEW to \in Locations, Proceed(p, to)
  PROVE  /\ pc' \in [Procs -> Locations]
         /\ result' \in [Procs -> Codes]
         /\ lease' \in [Sessions -> SUBSET Procs]
  BY DEF TypeOK, Proceed

LEMMA StopType ==
  ASSUME TypeOK, NEW p \in Procs, NEW code \in Codes, Stop(p, code)
  PROVE  /\ pc' \in [Procs -> Locations]
         /\ result' \in [Procs -> Codes]
         /\ lease' \in [Sessions -> SUBSET Procs]
  BY DEF TypeOK, Stop, Locations

\* A step of p that only moves the control of its call.
Control(p) ==
  /\ \/ \E to \in Locations : Proceed(p, to)
     \/ \E code \in Codes : Stop(p, code)
  /\ UNCHANGED <<authorityVars, privateTip, record, child, localVars,
                 faults, env, historyVars>>

LEMMA ControlType == ASSUME TypeOK, NEW p \in Procs, Control(p) PROVE TypeOK'
<1>1. /\ pc' \in [Procs -> Locations]
      /\ result' \in [Procs -> Codes]
      /\ lease' \in [Sessions -> SUBSET Procs]
  BY ProceedType, StopType DEF Control
<1>2. QED
  BY <1>1 DEF TypeOK, Control, authorityVars, localVars, historyVars

\* So does an observation of the authority, whatever it has seen.
LEMMA ObserveType ==
  ASSUME TypeOK, NEW p \in Procs, NEW from, NEW seen \in Txs, NEW ok,
         NEW to \in Locations, NEW code \in Codes,
         Observe(p, from, seen, ok, to, code)
  PROVE  TypeOK'
<1>1. /\ pc' \in [Procs -> Locations]
      /\ result' \in [Procs -> Codes]
      /\ lease' \in [Sessions -> SUBSET Procs]
  BY ProceedType, StopType DEF Observe
<1>2. obs' \in [Procs -> Txs]
  BY DEF TypeOK, Observe
<1>3. QED
  BY <1>1, <1>2 DEF TypeOK, Observe, authorityVars, historyVars

\* Replacing the journal keeps the types of all but landed, which it leaves to
\* the action it is part of.
LEMMA ReplaceJournalType ==
  ASSUME TypeOK, NEW p \in Procs, NEW from, NEW rec \in Records,
         NEW to \in Locations, NEW code \in Codes,
         ReplaceJournal(p, from, rec, to, code),
         landed' \in [Sessions -> Nat]
  PROVE  TypeOK'
<1>1. /\ pc' \in [Procs -> Locations]
      /\ result' \in [Procs -> Codes]
      /\ lease' \in [Sessions -> SUBSET Procs]
  BY ProceedType, StopType DEF ReplaceJournal
<1>2. record' \in [Sessions -> Records] /\ cap' \in [Procs -> Records]
  BY DEF TypeOK, ReplaceJournal, ReplaceRecord
<1>3. fresh' \in [Procs -> BOOLEAN]
  <2>1. CASE ReplaceRecord(p, rec)
    BY <2>1 DEF ReplaceRecord
  <2>2. CASE UNCHANGED fresh
    BY <2>2 DEF TypeOK
  <2>3. QED
    BY <2>1, <2>2 DEF ReplaceJournal
<1>4. faults' \in Nat
  BY DEF TypeOK, ReplaceJournal, Fault
<1>5. QED
  BY <1>1, <1>2, <1>3, <1>4 DEF TypeOK, ReplaceJournal, authorityVars

\* The guards of the code are control steps.
LEMMA ChecksAreControl ==
  ASSUME TypeOK, NEW p \in Procs,
         \/ Revalidate(p) \/ SameTip(p) \/ IdleChecks(p) \/ PreparedChecks(p)
         \/ ImportedChecks(p) \/ Return(p)
  PROVE  Control(p)
<1> USE DEF Locations, Critical, IdlePath, PreparedPath, ImportedPath,
            AttemptedPath, SharedTail, Codes
<1>1. CASE Revalidate(p)
  <2>1. cap[p].journal \in Journals
    BY DEF TypeOK, Records
  <2>2. cap[p].journal # "CasAttempted" => Dispatch[cap[p].journal] \in Locations
    BY <2>1 DEF Journals, Dispatch
  <2>3. QED
    BY <1>1, <2>2 DEF Revalidate, Control
<1>2. CASE SameTip(p)
  BY <1>2 DEF SameTip, Check, Control
<1>3. CASE IdleChecks(p)
  BY <1>3 DEF IdleChecks, Check, Control
<1>4. CASE PreparedChecks(p)
  BY <1>4 DEF PreparedChecks, ConflictCheck, Check, Control
<1>5. CASE ImportedChecks(p)
  BY <1>5 DEF ImportedChecks, ConflictCheck, Check, Control
<1>6. CASE Return(p)
  BY <1>6 DEF Return, Check, Control
<1>7. QED
  BY <1>1, <1>2, <1>3, <1>4, <1>5, <1>6

LEMMA InitType == Init => TypeOK
<1> SUFFICES ASSUME Init PROVE TypeOK
  OBVIOUS
<1>1. record \in [Sessions -> Records]
  BY NoTxType DEF Init, Records, Journals, Tips
<1>2. cap \in [Procs -> Records]
  BY <1>1 DEF Init
<1>3. objects \subseteq Commits
  BY DEF Init, Closure
<1>4. child \in [Sessions -> Children]
  BY DEF Init, Children, NoChild, ChildStates, Tips
<1>5. privateTip \in [Sessions -> Tips]
  BY DEF Init, Tips
<1>6. QED
  BY <1>1, <1>2, <1>3, <1>4, <1>5, NoTxType DEF Init, TypeOK, Codes, Locations

LEMMA StepType == ASSUME TypeOK, NEW p \in Procs, Step(p) PROVE TypeOK'
<1> USE DEF Locations, Critical, IdlePath, PreparedPath, ImportedPath,
            AttemptedPath, SharedTail, Codes
<1>1. CASE AcquireLease(p)
  <2>1. lease' \in [Sessions -> SUBSET Procs]
    BY <1>1 DEF TypeOK, AcquireLease, Stop
  <2>2. pc' \in [Procs -> Locations] /\ result' \in [Procs -> Codes]
    BY <1>1 DEF TypeOK, AcquireLease, Stop
  <2>3. QED
    BY <1>1, <2>1, <2>2 DEF TypeOK, AcquireLease, authorityVars, localVars, historyVars
<1>2. CASE \/ Revalidate(p) \/ SameTip(p) \/ IdleChecks(p) \/ PreparedChecks(p)
           \/ ImportedChecks(p) \/ Return(p)
  BY <1>2, ChecksAreControl, ControlType
<1>3. CASE AuditConfig(p) \/ ReadTarget(p) \/ ReadPrivate(p)
  <2>1. /\ [obs[p] EXCEPT !.cfg = config] \in Txs
        /\ [obs[p] EXCEPT !.old = target] \in Txs
        /\ [obs[p] EXCEPT !.new = privateTip[sess[p]]] \in Txs
    BY DEF TypeOK, Txs
  <2>2. QED
    BY <1>3, <2>1, ObserveType DEF AuditConfig, ReadTarget, ReadPrivate
<1>4. CASE WritePrepared(p)
  <2>1. landed' \in [Sessions -> Nat]
    BY <1>4 DEF WritePrepared, TypeOK
  <2>2. [cap[p] EXCEPT !.journal = "Prepared", !.tx = obs[p]] \in Records
    BY ZenonT(60) DEF TypeOK, Records, Journals
  <2>3. QED
    BY <1>4, <2>1, <2>2, ReplaceJournalType DEF WritePrepared
<1>5. CASE WriteImported(p) \/ WriteAttempted(p) \/ WriteCommitted(p)
  <2>1. landed' \in [Sessions -> Nat]
    BY <1>5 DEF WriteImported, WriteAttempted, WriteCommitted, TypeOK
  <2>2. \A j \in Journals : WithJournal(p, j) \in Records
    BY DEF TypeOK, Records, WithJournal
  <2>3. QED
    BY <1>5, <2>1, <2>2, ReplaceJournalType
       DEF WriteImported, WriteAttempted, WriteCommitted, Journals
<1>6. CASE WriteConflict(p) \/ Finalize(p)
  <2>1. landed' \in [Sessions -> Nat]
    BY <1>6 DEF WriteConflict, Finalize, TypeOK
  <2>2. Aborted(p) \in Records
    BY NoTxType, ZenonT(60) DEF TypeOK, Records, Aborted, Journals
  <2>3. [Aborted(p) EXCEPT !.expectedOld = cap[p].tx.new] \in Records
    BY <2>2 DEF TypeOK, Records, Txs
  <2>4. QED
    BY <1>6, <2>1, <2>2, <2>3, ReplaceJournalType DEF WriteConflict, Finalize
<1>7. CASE ImportObjects(p)
  <2>1. /\ pc' \in [Procs -> Locations]
        /\ result' \in [Procs -> Codes]
        /\ lease' \in [Sessions -> SUBSET Procs]
    BY <1>7, ProceedType, StopType DEF ImportObjects
  <2>2. Closure(cap[p].tx.new) \subseteq Commits
    BY DEF Closure
  <2>3. objects' \subseteq Commits
    BY <1>7, <2>2 DEF ImportObjects, TypeOK
  <2>4. faults' \in Nat
    BY <1>7 DEF ImportObjects, TypeOK, Fault
  <2>5. QED
    BY <1>7, <2>1, <2>3, <2>4 DEF ImportObjects, TypeOK, localVars, historyVars
<1>8. CASE SpawnCas(p)
  <2>1. child' \in [Sessions -> Children]
    BY <1>8 DEF SpawnCas, TypeOK, Children, ChildStates, Records, Txs
  <2>2. QED
    BY <1>8, <2>1, ProceedType DEF SpawnCas, TypeOK, authorityVars, localVars, historyVars
<1>9. CASE CasReturns(p)
  <2>1. child' \in [Sessions -> Children]
    BY <1>9 DEF CasReturns, TypeOK, Children, ChildStates, NoChild, Tips
  <2>2. /\ pc' \in [Procs -> Locations]
        /\ result' \in [Procs -> Codes]
        /\ lease' \in [Sessions -> SUBSET Procs]
    BY <1>9, ProceedType, StopType DEF CasReturns
  <2>3. QED
    BY <1>9, <2>1, <2>2 DEF CasReturns, TypeOK, authorityVars, localVars, historyVars
<1>10. QED
  BY <1>1, <1>2, <1>3, <1>4, <1>5, <1>6, <1>7, <1>8, <1>9 DEF Step

LEMMA FailureType == ASSUME TypeOK, NEW p \in Procs, Failure(p) PROVE TypeOK'
<1>1. \E code \in Codes : Stop(p, code)
  BY DEF Failure, GitFails, Crash, CasUnknown, Codes
<1>2. /\ pc' \in [Procs -> Locations]
      /\ result' \in [Procs -> Codes]
      /\ lease' \in [Sessions -> SUBSET Procs]
  BY <1>1, StopType
<1>3. faults' \in Nat
  BY DEF Failure, GitFails, Crash, CasUnknown, Fault, TypeOK
<1>4. child' \in [Sessions -> Children]
  BY DEF Failure, GitFails, Crash, CasUnknown, TypeOK, Children, ChildStates, NoChild, Tips
<1>5. QED
  BY <1>2, <1>3, <1>4
     DEF Failure, GitFails, Crash, CasUnknown, TypeOK, authorityVars, localVars, historyVars

LEMMA EnvironmentType == ASSUME TypeOK, Environment PROVE TypeOK'
<1> USE DEF EnvStep, TypeOK, authorityVars, localVars, historyVars
<1>1. ASSUME NEW c \in Tips, OtherWriter(c) PROVE TypeOK'
  BY <1>1 DEF OtherWriter, Closure
<1>2. CASE Prune
  BY <1>2 DEF Prune
<1>3. CASE EditAuthority
  <2>1. config' \in Configs
    BY <1>3 DEF EditAuthority
  <2>2. checkedOut' \in BOOLEAN
    BY <1>3, Zenon DEF EditAuthority
  <2>3. QED
    BY <1>3, <2>1, <2>2 DEF EditAuthority
<1>4. ASSUME NEW s \in Sessions, NEW c \in Tips, MovePrivate(s, c) PROVE TypeOK'
  BY <1>4 DEF MovePrivate
<1>5. QED
  BY <1>1, <1>2, <1>3, <1>4 DEF Environment

LEMMA ChildType ==
  ASSUME TypeOK, NEW s \in Sessions, ChildApplies(s) \/ ChildRefuses(s)
  PROVE  TypeOK'
<1>1. child' \in [Sessions -> Children]
  <2>1. \A st \in ChildStates : [child[s] EXCEPT !.st = st] \in Children
    BY DEF TypeOK, Children
  <2>2. \E st \in ChildStates : child' = [child EXCEPT ![s].st = st]
    BY DEF ChildApplies, ChildRefuses, ChildStates
  <2>3. QED
    BY <2>1, <2>2 DEF TypeOK
<1>2. CASE ChildApplies(s)
  <2>1. target' \in Tips /\ landed' \in [Sessions -> Nat]
    BY <1>2 DEF ChildApplies, TypeOK, Children
  <2>2. moved' \in [Procs -> BOOLEAN]
    BY <1>2 DEF ChildApplies
  <2>3. QED
    BY <1>1, <1>2, <2>1, <2>2 DEF ChildApplies, TypeOK, localVars
<1>3. CASE ChildRefuses(s)
  BY <1>1, <1>3 DEF ChildRefuses, TypeOK, Fault, authorityVars, localVars, historyVars
<1>4. QED
  BY <1>2, <1>3

LEMMA StartType ==
  ASSUME TypeOK, NEW p \in Procs, NEW s \in Sessions, Start(p, s)
  PROVE  TypeOK'
<1>1. obs' \in [Procs -> Txs]
  BY NoTxType DEF Start, TypeOK
<1>2. QED
  BY <1>1 DEF Start, TypeOK, Locations, Codes, authorityVars

LEMMA NextType == TypeOK /\ [Next]_vars => TypeOK'
<1> SUFFICES ASSUME TypeOK, [Next]_vars PROVE TypeOK'
  OBVIOUS
<1>1. CASE UNCHANGED vars
  BY <1>1 DEF vars, TypeOK
<1>2. CASE Next
  BY <1>2, StartType, StepType, FailureType, ChildType, EnvironmentType DEF Next
<1>3. QED
  BY <1>1, <1>2

\* The variables of Publish keep their types: every record on disk and in a
\* publisher's hands is a well-formed session record, every location one of the code.
THEOREM TypeCorrect == Spec => []TypeOK
<1>1. QED
  BY InitType, NextType, PTL DEF Spec

(***************************************************************************)
(* The invariant behind SoleActor, CasFenced, CasOnce and                  *)
(* DefiniteErrorMovedNothing.                                              *)
(***************************************************************************)
\* What a step of p leaves alone unless it writes the journal or runs the child.
Kept == UNCHANGED <<record, child, sess, cap, fresh, landed, moved>>

\* A step of a publisher that goes on to a place that fits the journal it holds,
\* or that exits with a code that fits what its child has done.
LEMMA KeptInv ==
  ASSUME TypeOK, IInv, NEW p \in Procs, Kept,
         \/ \E to \in Critical \ {"spawn_cas", "write_committed"} :
              /\ Proceed(p, to)
              /\ pc[p] \in Critical \cup {"revalidate"}
              /\ fresh[p]
              /\ cap[p].journal \in JournalsAt(to)
              /\ to \in Late \/ ~moved[p]
         \/ \E code \in Codes :
              Stop(p, code) /\ (code \in DefiniteErrors => ~moved[p])
  PROVE  IInv'
<1> USE DEF Kept, TypeOK
<1>1. ASSUME NEW to \in Critical \ {"spawn_cas", "write_committed"},
             Proceed(p, to), pc[p] \in Critical \cup {"revalidate"}, fresh[p],
             cap[p].journal \in JournalsAt(to), to \in Late \/ ~moved[p]
      PROVE  IInv'
  <2>0. to # "idle" /\ pc[p] # "idle"
    BY <1>1 DEF Critical, IdlePath, PreparedPath, ImportedPath, AttemptedPath, SharedTail
  <2>1. LeaseInv'
    BY <1>1 DEF IInv, LeaseInv, Proceed
  <2>2. RecordInv'
    BY <1>1 DEF IInv, RecordInv, Proceed
  <2>3. ChildInv'
    BY <1>1 DEF IInv, ChildInv, CasFenced, Proceed
  <2>4. LandedInv'
    BY <1>1 DEF IInv, LandedInv, CasOnce, Proceed
  <2>5. MovedInv'
    BY <1>1, <2>0 DEF IInv, MovedInv, DefiniteErrorMovedNothing, Proceed
  <2>6. QED
    BY <2>1, <2>2, <2>3, <2>4, <2>5 DEF IInv
<1>2. ASSUME NEW code \in Codes, Stop(p, code), code \in DefiniteErrors => ~moved[p]
      PROVE  IInv'
  <2>0. "idle" \notin Critical \cup {"revalidate", "spawn_cas", "write_committed"}
    BY DEF Critical, IdlePath, PreparedPath, ImportedPath, AttemptedPath, SharedTail
  <2>1. LeaseInv'
    BY <1>2, <2>0 DEF IInv, LeaseInv, Stop
  <2>2. RecordInv'
    BY <1>2, <2>0 DEF IInv, RecordInv, Stop
  <2>3. ChildInv'
    BY <1>2, <2>0 DEF IInv, ChildInv, CasFenced, Stop
  <2>4. LandedInv'
    BY <1>2, <2>0 DEF IInv, LandedInv, CasOnce, Stop
  <2>5. MovedInv'
    BY <1>2 DEF IInv, MovedInv, DefiniteErrorMovedNothing, Stop
  <2>6. QED
    BY <2>1, <2>2, <2>3, <2>4, <2>5 DEF IInv
<1>3. QED
  BY <1>1, <1>2

\* A publisher past its lease is the only one of its session there.
LEMMA Alone ==
  ASSUME TypeOK, IInv, NEW p \in Procs, NEW q \in Procs,
         pc[p] \in Critical, pc[q] \in Critical, sess[p] = sess[q]
  PROVE  p = q
  BY DEF IInv, LeaseInv

\* What the number of landings must be under a journal.
Fits(journal, n) ==
  /\ n <= 1
  /\ journal \in {"Prepared", "ObjectsImported"} => n = 0
  /\ journal = "CasCommitted" => n = 1

\* Writing the journal while no child is out.
LEMMA WriteInv ==
  ASSUME TypeOK, IInv, NEW p \in Procs, NEW from \in Critical, NEW rec \in Records,
         NEW to \in Critical \ {"wait_cas", "write_committed"},
         NEW code \in Codes \ DefiniteErrors,
         ReplaceJournal(p, from, rec, to, code),
         child[sess[p]].st = "none",
         rec.journal \in JournalsAt(to),
         to \in Late \/ ~moved[p],
         landed' \in [Sessions -> Nat],
         \A s \in Sessions \ {sess[p]} : landed'[s] = landed[s],
         \/ record' = record /\ landed' = landed
         \/ record'[sess[p]] = rec /\ Fits(rec.journal, landed'[sess[p]]),
         to = "spawn_cas" => (record'[sess[p]] = rec => landed'[sess[p]] = 0)
  PROVE  IInv'
<1> DEFINE Replaces == fresh[p] /\ ReplaceRecord(p, rec)
           Keeps == UNCHANGED <<record, cap, fresh>>
           Goes == Proceed(p, to) \/ Stop(p, code)
<1>1. /\ pc[p] = from /\ pc[p] # "idle"
      /\ \/ Replaces /\ Goes
         \/ Keeps /\ Stop(p, code)
      /\ UNCHANGED <<child, sess, moved>>
  BY DEF ReplaceJournal, Critical, IdlePath, PreparedPath, ImportedPath,
         AttemptedPath, SharedTail
<1>2. /\ \A q \in Procs : q # p => pc'[q] = pc[q] /\ result'[q] = result[q]
      /\ \A s \in Sessions : lease'[s] = lease[s] \/ lease'[s] = lease[s] \ {p}
      /\ \/ pc'[p] = to /\ result'[p] = result[p] /\ lease' = lease
         \/ pc'[p] = "idle" /\ result'[p] = code
      /\ "idle" \notin Critical \cup {"revalidate"} /\ to # "idle"
  BY <1>1 DEF TypeOK, Proceed, Stop, Critical, IdlePath, PreparedPath,
              ImportedPath, AttemptedPath, SharedTail
<1>3. LeaseInv'
  BY <1>1, <1>2 DEF IInv, LeaseInv, TypeOK
<1>4. ASSUME NEW q \in Procs, q # p, pc[q] \in Critical
      PROVE  sess[q] # sess[p]
  BY <1>1, <1>4, Alone
<1>5. RecordInv'
  <2>1. CASE Keeps /\ Stop(p, code)
    BY <1>1, <1>2, <2>1 DEF IInv, RecordInv, TypeOK, Stop
  <2>2. CASE Replaces /\ Goes
    <3>1. /\ \A q \in Procs : fresh'[q] <=> (q = p \/ (fresh[q] /\ sess[q] # sess[p]))
          /\ cap'[p] = rec /\ record'[sess[p]] = rec
          /\ \A q \in Procs : q # p => cap'[q] = cap[q]
          /\ \A s \in Sessions : s # sess[p] => record'[s] = record[s]
      BY <2>2 DEF ReplaceRecord, TypeOK
    <3>2. ASSUME NEW q \in Procs PROVE fresh'[q] => cap'[q] = record'[sess[q]]
      BY <3>1 DEF IInv, RecordInv, TypeOK
    <3>3. ASSUME NEW q \in Procs, pc'[q] \in Critical
          PROVE  fresh'[q] /\ cap'[q].journal \in JournalsAt(pc'[q])
      BY <1>2, <1>4, <3>1, <3>3 DEF IInv, RecordInv
    <3>4. QED
      BY <1>1, <3>2, <3>3 DEF RecordInv, JournalsAt
  <2>3. QED
    BY <1>1, <2>1, <2>2
<1>6. /\ \A s \in Sessions : s # sess[p] => record'[s] = record[s]
      /\ record' = record \/ record'[sess[p]] = rec
  BY <1>1 DEF ReplaceRecord, TypeOK
<1>7. ChildInv'
  <2>1. CasFenced'
    BY <1>1, <1>6 DEF IInv, ChildInv, CasFenced, TypeOK
  <2>2. QED
    BY <1>1, <1>2, <2>1 DEF IInv, ChildInv, TypeOK
<1>8. LandedInv'
  <2>1. CasOnce'
    BY <1>6 DEF IInv, LandedInv, CasOnce, Fits, TypeOK
  <2>2. \A s \in Sessions : /\ child'[s].st = "running" => landed'[s] = 0
                            /\ child'[s].st = "applied" => landed'[s] = 1
    BY <1>1 DEF IInv, LandedInv, TypeOK
  <2>3. ASSUME NEW q \in Procs
        PROVE  /\ pc'[q] = "spawn_cas" => landed'[sess'[q]] = 0
               /\ pc'[q] = "write_committed" => landed'[sess'[q]] = 1
    <3>1. CASE q # p
      <4>1. {"spawn_cas", "write_committed"} \subseteq Critical
        BY DEF Critical, AttemptedPath
      <4>2. pc[q] \in {"spawn_cas", "write_committed"} => landed'[sess[q]] = landed[sess[q]]
        BY <1>4, <3>1, <4>1 DEF TypeOK
      <4>3. QED
        BY <1>1, <1>2, <3>1, <4>2 DEF IInv, LandedInv
    <3>2. CASE q = p
      <4>1. pc'[p] # "write_committed"
        BY <1>2
      <4>2. CASE Replaces
        BY <1>1, <1>2, <3>2, <4>1, <4>2 DEF ReplaceRecord, TypeOK
      <4>3. CASE Stop(p, code)
        BY <3>2, <4>3 DEF Stop, TypeOK
      <4>4. QED
        BY <1>1, <4>2, <4>3
    <3>3. QED
      BY <3>1, <3>2
  <2>4. QED
    BY <2>1, <2>2, <2>3 DEF LandedInv
<1>9. MovedInv'
  <2>1. DefiniteErrorMovedNothing'
    BY <1>1, <1>2 DEF IInv, MovedInv, DefiniteErrorMovedNothing
  <2>2. result[p] = "none"
    BY <1>1 DEF IInv, MovedInv
  <2>3. QED
    BY <1>1, <1>2, <2>1, <2>2 DEF IInv, MovedInv
<1>10. QED
  BY <1>3, <1>5, <1>7, <1>8, <1>9 DEF IInv

LEMMA InitIInv == Init => IInv
<1> SUFFICES ASSUME Init PROVE IInv
  OBVIOUS
<1>1. \A p \in Procs : pc[p] \notin Critical \cup {"revalidate", "spawn_cas", "write_committed"}
  BY DEF Init, Critical, IdlePath, PreparedPath, ImportedPath, AttemptedPath, SharedTail
<1>2. \A s \in Sessions : /\ child[s].st = "none" /\ landed[s] = 0
                          /\ record[s].journal = "Idle"
  BY DEF Init, NoChild
<1>3. \A p \in Procs : fresh[p] = FALSE /\ pc[p] = "idle" /\ moved[p] = FALSE
  BY DEF Init
<1>4. LeaseInv /\ RecordInv
  BY <1>1, <1>3 DEF LeaseInv, RecordInv
<1>5. ChildInv /\ LandedInv
  BY <1>1, <1>2, <1>3 DEF ChildInv, CasFenced, LandedInv, CasOnce
<1>6. MovedInv
  BY <1>3 DEF MovedInv, DefiniteErrorMovedNothing
<1>7. QED
  BY <1>4, <1>5, <1>6 DEF IInv

LEMMA StartIInv ==
  ASSUME TypeOK, IInv, NEW p \in Procs, NEW s \in Sessions, Start(p, s)
  PROVE  IInv'
<1>1. "lease" \notin Critical \cup {"revalidate", "spawn_cas", "write_committed", "idle"}
  BY DEF Critical, IdlePath, PreparedPath, ImportedPath, AttemptedPath, SharedTail
<1> USE DEF TypeOK, Start
<1>2. LeaseInv'
  BY <1>1 DEF IInv, LeaseInv
<1>3. RecordInv'
  BY <1>1 DEF IInv, RecordInv, JournalsAt
<1>4. ChildInv'
  BY <1>1 DEF IInv, ChildInv, CasFenced
<1>5. LandedInv'
  BY <1>1 DEF IInv, LandedInv, CasOnce
<1>6. MovedInv'
  BY <1>1 DEF IInv, MovedInv, DefiniteErrorMovedNothing, DefiniteErrors
<1>7. QED
  BY <1>2, <1>3, <1>4, <1>5, <1>6 DEF IInv

LEMMA AcquireIInv ==
  ASSUME TypeOK, IInv, NEW p \in Procs, AcquireLease(p) PROVE IInv'
<1>1. /\ "revalidate" \notin Critical \cup {"spawn_cas", "write_committed", "idle"}
      /\ "lease" \notin Critical \cup {"revalidate"} \cup Late
      /\ "revalidate" \notin Late
  BY DEF Critical, IdlePath, PreparedPath, ImportedPath, AttemptedPath, SharedTail, Late
<1>2. CASE Stop(p, "SESSION_BUSY")
  <2>1. ~moved[p]
    BY <1>1 DEF AcquireLease, IInv, MovedInv
  <2>2. Kept
    BY DEF AcquireLease, Kept, localVars, historyVars
  <2>3. QED
    BY <1>2, <2>1, <2>2, KeptInv DEF Codes
<1>3. CASE /\ lease[sess[p]] = {}
           /\ lease' = [lease EXCEPT ![sess[p]] = {p}]
           /\ pc' = [pc EXCEPT ![p] = "revalidate"]
           /\ UNCHANGED result
  <2>1. UNCHANGED <<record, child, sess, cap, fresh, landed, moved>>
    BY DEF AcquireLease, localVars, historyVars
  <2>2. pc[p] = "lease"
    BY DEF AcquireLease
  <2> USE <1>1, <1>3, <2>1, <2>2 DEF TypeOK
  <2>3. LeaseInv'
    BY DEF IInv, LeaseInv
  <2>4. RecordInv'
    BY DEF IInv, RecordInv, JournalsAt
  <2>5. ChildInv'
    BY DEF IInv, ChildInv, CasFenced
  <2>6. LandedInv'
    BY DEF IInv, LandedInv, CasOnce
  <2>7. MovedInv'
    BY DEF IInv, MovedInv, DefiniteErrorMovedNothing
  <2>8. QED
    BY <2>3, <2>4, <2>5, <2>6, <2>7 DEF IInv
<1>4. QED
  BY <1>2, <1>3 DEF AcquireLease

LEMMA RevalidateIInv ==
  ASSUME TypeOK, IInv, NEW p \in Procs, Revalidate(p) PROVE IInv'
<1> USE DEF Critical, IdlePath, PreparedPath, ImportedPath, AttemptedPath, SharedTail, Late
<1>1. Kept /\ ~moved[p] /\ pc[p] = "revalidate"
  BY DEF Revalidate, Kept, localVars, historyVars, IInv, MovedInv
<1>2. CASE ~Current(p) \/ cap[p].journal = "CasAttempted"
  BY <1>1, <1>2, KeptInv DEF Revalidate, Codes
<1>3. CASE Current(p) /\ cap[p].journal # "CasAttempted"
  <2>1. cap[p].journal \in Journals \ {"CasAttempted"}
    BY <1>3 DEF TypeOK, Records
  <2>2. /\ Dispatch[cap[p].journal] \in Critical \ {"spawn_cas", "write_committed"}
        /\ cap[p].journal \in JournalsAt(Dispatch[cap[p].journal])
    BY <2>1 DEF Journals, Dispatch, JournalsAt
  <2>3. Proceed(p, Dispatch[cap[p].journal]) /\ fresh[p]
    BY <1>3 DEF Revalidate, Current
  <2>4. QED
    BY <1>1, <2>2, <2>3, KeptInv
<1>4. QED
  BY <1>2, <1>3

\* Guards, observations and the import stay on their part of the path or end the
\* call; none of them is at a place where the swap of this call may have landed.
LEMMA GuardIInv ==
  ASSUME TypeOK, IInv, NEW p \in Procs,
         \/ AuditConfig(p) \/ ReadTarget(p) \/ ReadPrivate(p) \/ SameTip(p)
         \/ IdleChecks(p) \/ PreparedChecks(p) \/ ImportedChecks(p)
         \/ ImportObjects(p) \/ Return(p)
  PROVE  IInv'
<1> USE DEF Critical, IdlePath, PreparedPath, ImportedPath, AttemptedPath, SharedTail
<1> DEFINE Goes(to) == Proceed(p, to) /\ JournalsAt(pc[p]) \subseteq JournalsAt(to)
           OnPath == \E to \in Critical \ {"spawn_cas", "write_committed"} : Goes(to)
           Ends == \E code \in Codes : Stop(p, code)
           Done == \E code \in Codes \ DefiniteErrors : Stop(p, code)
<1>1. Kept
  BY DEF AuditConfig, ReadTarget, ReadPrivate, Observe, SameTip, IdleChecks,
         PreparedChecks, ImportedChecks, ConflictCheck, ImportObjects, Return,
         Check, Kept, localVars, historyVars
<1>2. pc[p] \in Critical /\ (pc[p] \notin Late \/ pc[p] = "return_success")
  BY DEF AuditConfig, ReadTarget, ReadPrivate, Observe, SameTip, IdleChecks,
         PreparedChecks, ImportedChecks, ConflictCheck, ImportObjects, Return,
         Check, Late
<1>3. pc[p] \notin Late => OnPath \/ Ends
  <2>1. CASE AuditConfig(p) \/ ReadTarget(p)
    BY <2>1 DEF AuditConfig, ReadTarget, Observe, JournalsAt, Codes
  <2>2. CASE ReadPrivate(p)
    BY <2>2 DEF ReadPrivate, Observe, JournalsAt, Codes
  <2>3. CASE SameTip(p)
    BY <2>3 DEF SameTip, Check, JournalsAt, Codes
  <2>4. CASE IdleChecks(p)
    BY <2>4 DEF IdleChecks, Check, JournalsAt, Codes
  <2>5. CASE PreparedChecks(p)
    BY <2>5 DEF PreparedChecks, ConflictCheck, Check, JournalsAt, Codes
  <2>6. CASE ImportedChecks(p)
    BY <2>6 DEF ImportedChecks, ConflictCheck, Check, JournalsAt, Codes
  <2>7. CASE ImportObjects(p)
    BY <2>7 DEF ImportObjects, JournalsAt, Codes
  <2>8. CASE Return(p)
    BY <2>8 DEF Return, Check, Codes, Late
  <2>9. QED
    BY <2>1, <2>2, <2>3, <2>4, <2>5, <2>6, <2>7, <2>8
<1>4. pc[p] = "return_success" => Done
  BY DEF AuditConfig, ReadTarget, ReadPrivate, Observe, SameTip, IdleChecks,
         PreparedChecks, ImportedChecks, ConflictCheck, ImportObjects, Return,
         Check, Codes, DefiniteErrors
<1>5. fresh[p] /\ cap[p].journal \in JournalsAt(pc[p])
  BY <1>2 DEF IInv, RecordInv
<1>6. pc[p] \notin Late => ~moved[p]
  BY <1>2 DEF IInv, MovedInv
<1>7. CASE Done
  BY <1>1, <1>7, KeptInv
<1>8. CASE Ends /\ pc[p] \notin Late
  BY <1>1, <1>6, <1>8, KeptInv
<1>9. CASE OnPath /\ pc[p] \notin Late
  BY <1>1, <1>2, <1>5, <1>6, <1>9, KeptInv
<1>10. QED
  BY <1>2, <1>3, <1>4, <1>7, <1>8, <1>9

LEMMA FailureIInv ==
  ASSUME TypeOK, IInv, NEW p \in Procs, GitFails(p) \/ Crash(p) PROVE IInv'
<1>1. Kept /\ pc[p] # "idle"
  BY DEF GitFails, GitSteps, Crash, Kept, localVars, historyVars
<1>2. CASE GitFails(p)
  <2>1. pc[p] \notin Late
    BY <1>2 DEF GitFails, GitSteps, Late
  <2>2. ~moved[p]
    BY <1>1, <2>1 DEF IInv, MovedInv
  <2>3. QED
    BY <1>1, <1>2, <2>2, KeptInv DEF GitFails, Codes
<1>3. CASE Crash(p)
  BY <1>1, <1>3, KeptInv DEF Crash, Codes, DefiniteErrors
<1>4. QED
  BY <1>2, <1>3

LEMMA EnvironmentIInv == ASSUME TypeOK, IInv, Environment PROVE IInv'
<1>1. UNCHANGED <<record, lease, child, pc, sess, cap, fresh, result, landed, moved>>
  BY DEF Environment, OtherWriter, Prune, EditAuthority, MovePrivate, localVars, historyVars
<1>2. QED
  BY <1>1 DEF IInv, LeaseInv, RecordInv, ChildInv, CasFenced, LandedInv, CasOnce,
              MovedInv, DefiniteErrorMovedNothing

\* The six journal writes.
LEMMA WritesIInv ==
  ASSUME TypeOK, IInv, NEW p \in Procs,
         \/ WritePrepared(p) \/ WriteImported(p) \/ WriteAttempted(p)
         \/ WriteCommitted(p) \/ WriteConflict(p) \/ Finalize(p)
  PROVE  IInv'
<1> USE DEF Critical, IdlePath, PreparedPath, ImportedPath, AttemptedPath, SharedTail
<1>1. /\ pc[p] \in Critical /\ pc[p] # "wait_cas" /\ pc[p] # "spawn_cas"
      /\ pc[p] \in Late => pc[p] \in {"write_committed", "finalize"}
  BY DEF WritePrepared, WriteImported, WriteAttempted, WriteCommitted, WriteConflict,
         Finalize, ReplaceJournal, Late
<1>2. /\ fresh[p] /\ cap[p] = record[sess[p]]
      /\ cap[p].journal \in JournalsAt(pc[p])
      /\ pc[p] \notin Late => ~moved[p]
  BY <1>1 DEF IInv, RecordInv, MovedInv
<1>3. child[sess[p]].st = "none"
  <2>1. CASE pc[p] = "write_committed"
    BY <2>1 DEF IInv, ChildInv
  <2>2. CASE pc[p] # "write_committed"
    <3>1. cap[p].journal # "CasAttempted"
      BY <1>1, <1>2, <2>2 DEF JournalsAt, WritePrepared, WriteImported, WriteAttempted,
         WriteCommitted, WriteConflict, Finalize, ReplaceJournal
    <3>2. QED
      BY <1>2, <3>1 DEF IInv, ChildInv, CasFenced, TypeOK
  <2>3. QED
    BY <2>1, <2>2
<1>4. /\ landed[sess[p]] <= 1
      /\ cap[p].journal \in {"Prepared", "ObjectsImported"} => landed[sess[p]] = 0
  <2>1. sess[p] \in Sessions
    BY DEF TypeOK
  <2>2. QED
    BY <1>2, <2>1 DEF IInv, LandedInv, CasOnce
<1>5. /\ \A j \in Journals : WithJournal(p, j) \in Records /\ WithJournal(p, j).journal = j
      /\ Aborted(p) \in Records /\ Aborted(p).journal = "Idle"
  BY NoTxType DEF WithJournal, Aborted, TypeOK, Records, Journals
<1>6. CASE WritePrepared(p)
  <2> DEFINE rec == [cap[p] EXCEPT !.journal = "Prepared", !.tx = obs[p]]
  <2>1. rec \in Records /\ rec.journal = "Prepared"
    BY DEF TypeOK, Records, Journals
  <2>2. ReplaceJournal(p, "write_prepared", rec, "prep_config", "PUBLISH_RECOVERY_REQUIRED")
    BY <1>6 DEF WritePrepared
  <2>3. record' = record \/ record'[sess[p]] = rec
    BY <2>2 DEF ReplaceJournal, ReplaceRecord, TypeOK
  <2>4. /\ landed' \in [Sessions -> Nat]
        /\ \A s \in Sessions \ {sess[p]} : landed'[s] = landed[s]
        /\ record' = record => landed' = landed
        /\ record' # record => landed'[sess[p]] = 0
    BY <1>6 DEF WritePrepared, TypeOK
  <2>5. ~moved[p]
    BY <1>2, <2>2 DEF ReplaceJournal, Late
  <2>6. Fits(rec.journal, 0)
    BY <2>1 DEF Fits
  <2>7. "PUBLISH_RECOVERY_REQUIRED" \in Codes \ DefiniteErrors
    BY DEF Codes, DefiniteErrors
  <2> HIDE DEF rec
  <2>8. QED
    BY <1>3, <2>1, <2>2, <2>3, <2>4, <2>5, <2>6, <2>7, WriteInv DEF JournalsAt
<1>7. CASE WriteImported(p) \/ WriteAttempted(p)
  <2>1. landed' = landed /\ ~moved[p]
    BY <1>2, <1>7 DEF WriteImported, WriteAttempted, ReplaceJournal, Late
  <2>2. /\ landed'[sess[p]] = 0 /\ landed' \in [Sessions -> Nat]
        /\ \A s \in Sessions \ {sess[p]} : landed'[s] = landed[s]
        /\ \A j \in {"ObjectsImported", "CasAttempted"} : Fits(j, landed'[sess[p]])
    BY <1>2, <1>4, <1>7, <2>1 DEF WriteImported, WriteAttempted, ReplaceJournal,
                                  JournalsAt, Fits, TypeOK
  <2>3. "PUBLISH_RECOVERY_REQUIRED" \in Codes \ DefiniteErrors
    BY DEF Codes, DefiniteErrors
  <2>4. CASE WriteImported(p)
    <3> DEFINE rec == WithJournal(p, "ObjectsImported")
    <3>1. rec \in Records /\ rec.journal = "ObjectsImported"
      BY <1>5 DEF Journals
    <3>2. ReplaceJournal(p, "write_imported", rec, "imp_config", "PUBLISH_RECOVERY_REQUIRED")
      BY <2>4 DEF WriteImported
    <3>3. record' = record \/ record'[sess[p]] = rec
      BY <3>2 DEF ReplaceJournal, ReplaceRecord, TypeOK
    <3> HIDE DEF rec
    <3>4. QED
      BY <1>3, <2>1, <2>2, <2>3, <3>1, <3>2, <3>3, WriteInv DEF JournalsAt
  <2>5. CASE WriteAttempted(p)
    <3> DEFINE rec == WithJournal(p, "CasAttempted")
    <3>1. rec \in Records /\ rec.journal = "CasAttempted"
      BY <1>5 DEF Journals
    <3>2. ReplaceJournal(p, "write_attempted", rec, "spawn_cas", "PUBLISH_RECOVERY_REQUIRED")
      BY <2>5 DEF WriteAttempted
    <3>3. record' = record \/ record'[sess[p]] = rec
      BY <3>2 DEF ReplaceJournal, ReplaceRecord, TypeOK
    <3> HIDE DEF rec
    <3>4. QED
      BY <1>3, <2>1, <2>2, <2>3, <3>1, <3>2, <3>3, WriteInv DEF JournalsAt
  <2>6. QED
    BY <1>7, <2>4, <2>5
<1>8. CASE WriteCommitted(p)
  <2> DEFINE rec == WithJournal(p, "CasCommitted")
  <2>1. rec \in Records /\ rec.journal = "CasCommitted"
    BY <1>5 DEF Journals
  <2>2. ReplaceJournal(p, "write_committed", rec, "finalize",
                       "PUBLISH_COMMITTED_RECOVERY_REQUIRED")
    BY <1>8 DEF WriteCommitted
  <2>3. record' = record \/ record'[sess[p]] = rec
    BY <2>2 DEF ReplaceJournal, ReplaceRecord, TypeOK
  <2>4. /\ landed' = landed /\ landed' \in [Sessions -> Nat]
        /\ \A s \in Sessions \ {sess[p]} : landed'[s] = landed[s]
        /\ Fits("CasCommitted", landed'[sess[p]])
    BY <1>8, <2>2 DEF WriteCommitted, ReplaceJournal, IInv, LandedInv, Fits, TypeOK
  <2>5. "PUBLISH_COMMITTED_RECOVERY_REQUIRED" \in Codes \ DefiniteErrors
    BY DEF Codes, DefiniteErrors
  <2> HIDE DEF rec
  <2>6. QED
    BY <1>3, <2>1, <2>2, <2>3, <2>4, <2>5, WriteInv DEF JournalsAt, Late
<1>9. CASE WriteConflict(p)
  <2>1. ReplaceJournal(p, "write_conflict", Aborted(p), "return_conflict",
                       "PUBLISH_RECOVERY_REQUIRED")
    BY <1>9 DEF WriteConflict
  <2>2. record' = record \/ record'[sess[p]] = Aborted(p)
    BY <2>1 DEF ReplaceJournal, ReplaceRecord, TypeOK
  <2>3. /\ landed' = landed /\ landed' \in [Sessions -> Nat] /\ ~moved[p]
        /\ \A s \in Sessions \ {sess[p]} : landed'[s] = landed[s]
        /\ Fits("Idle", landed'[sess[p]])
    BY <1>2, <1>4, <1>9, <2>1 DEF WriteConflict, ReplaceJournal, Late, Fits, TypeOK
  <2>4. "PUBLISH_RECOVERY_REQUIRED" \in Codes \ DefiniteErrors
    BY DEF Codes, DefiniteErrors
  <2>5. QED
    BY <1>3, <1>5, <2>1, <2>2, <2>3, <2>4, WriteInv DEF JournalsAt
<1>10. CASE Finalize(p)
  <2> DEFINE rec == [Aborted(p) EXCEPT !.expectedOld = cap[p].tx.new]
  <2>1. rec \in Records /\ rec.journal = "Idle"
    BY <1>5 DEF TypeOK, Records, Txs
  <2>2. ReplaceJournal(p, "finalize", rec, "return_success",
                       "PUBLISH_COMMITTED_RECOVERY_REQUIRED")
    BY <1>10 DEF Finalize
  <2>3. record' = record \/ record'[sess[p]] = rec
    BY <2>2 DEF ReplaceJournal, ReplaceRecord, TypeOK
  <2>4. /\ landed' = landed /\ landed' \in [Sessions -> Nat]
        /\ \A s \in Sessions \ {sess[p]} : landed'[s] = landed[s]
        /\ Fits("Idle", landed'[sess[p]])
    BY <1>4, <1>10 DEF Finalize, Fits, TypeOK
  <2>5. "PUBLISH_COMMITTED_RECOVERY_REQUIRED" \in Codes \ DefiniteErrors
    BY DEF Codes, DefiniteErrors
  <2> HIDE DEF rec
  <2>6. QED
    BY <1>3, <2>1, <2>2, <2>3, <2>4, <2>5, WriteInv DEF JournalsAt, Late
<1>11. QED
  BY <1>6, <1>7, <1>8, <1>9, <1>10

LEMMA SpawnIInv == ASSUME TypeOK, IInv, NEW p \in Procs, SpawnCas(p) PROVE IInv'
<1> USE DEF Critical, IdlePath, PreparedPath, ImportedPath, AttemptedPath, SharedTail
<1>1. /\ pc[p] = "spawn_cas" /\ pc' = [pc EXCEPT ![p] = "wait_cas"]
      /\ UNCHANGED <<record, lease, sess, cap, fresh, result, landed, moved>>
  BY DEF SpawnCas, Proceed, localVars, historyVars
<1>2. /\ fresh[p] /\ cap[p] = record[sess[p]]
      /\ cap[p].journal = "CasAttempted" /\ landed[sess[p]] = 0
  BY <1>1 DEF IInv, RecordInv, LandedInv, JournalsAt
<1>3. /\ child'[sess[p]].st = "running"
      /\ child'[sess[p]].new = cap[p].tx.new /\ child'[sess[p]].old = cap[p].tx.old
      /\ \A s \in Sessions : s # sess[p] => child'[s] = child[s]
  BY DEF SpawnCas, TypeOK
<1>4. ASSUME NEW q \in Procs, q # p, pc[q] \in Critical PROVE sess[q] # sess[p]
  BY <1>1, <1>4, Alone
<1>5. LeaseInv'
  BY <1>1 DEF IInv, LeaseInv, TypeOK
<1>6. RecordInv'
  BY <1>1, <1>2 DEF IInv, RecordInv, JournalsAt, TypeOK
<1>7. ChildInv'
  <2>1. CasFenced'
    BY <1>1, <1>2, <1>3 DEF IInv, ChildInv, CasFenced
  <2>2. QED
    BY <1>1, <1>3, <1>4, <2>1 DEF IInv, ChildInv, TypeOK
<1>8. LandedInv'
  BY <1>1, <1>2, <1>3 DEF IInv, LandedInv, CasOnce, TypeOK
<1>9. MovedInv'
  BY <1>1 DEF IInv, MovedInv, DefiniteErrorMovedNothing, TypeOK, Late
<1>10. QED
  BY <1>5, <1>6, <1>7, <1>8, <1>9 DEF IInv

\* The outcome reaches the publisher, or is lost to it.
LEMMA OutcomeIInv ==
  ASSUME TypeOK, IInv, NEW p \in Procs, CasReturns(p) \/ CasUnknown(p) PROVE IInv'
<1> USE DEF Critical, IdlePath, PreparedPath, ImportedPath, AttemptedPath, SharedTail
<1>1. /\ pc[p] = "wait_cas"
      /\ UNCHANGED <<record, sess, cap, fresh, landed, moved>>
      /\ \A s \in Sessions : child'[s] = child[s] \/ (s = sess[p] /\ child'[s] = NoChild)
  <2>1. /\ pc[p] = "wait_cas"
        /\ UNCHANGED <<record, sess, cap, fresh, landed, moved>>
    BY DEF CasReturns, CasUnknown, localVars, historyVars
  <2>2. child' = child \/ child' = [child EXCEPT ![sess[p]] = NoChild]
    BY DEF CasReturns, CasUnknown
  <2>3. QED
    BY <2>1, <2>2 DEF TypeOK
<1>2. \/ /\ Proceed(p, "write_committed") /\ landed[sess[p]] = 1
         /\ child'[sess[p]] = NoChild
      \/ Stop(p, "PUBLISH_RECOVERY_REQUIRED")
  BY DEF CasReturns, CasUnknown, IInv, LandedInv, TypeOK
<1>3. /\ \A q \in Procs : q # p => pc'[q] = pc[q] /\ result'[q] = result[q]
      /\ \A s \in Sessions : lease'[s] = lease[s] \/ lease'[s] = lease[s] \ {p}
      /\ \/ /\ pc'[p] = "write_committed" /\ lease' = lease /\ result'[p] = result[p]
            /\ landed[sess[p]] = 1 /\ child'[sess[p]] = NoChild
         \/ pc'[p] = "idle" /\ result'[p] = "PUBLISH_RECOVERY_REQUIRED"
  BY <1>2 DEF Proceed, Stop, TypeOK
<1>4. LeaseInv'
  BY <1>1, <1>3 DEF IInv, LeaseInv, TypeOK
<1>5. RecordInv'
  BY <1>1, <1>3 DEF IInv, RecordInv, JournalsAt, TypeOK
<1>6. ChildInv'
  BY <1>1, <1>3 DEF IInv, ChildInv, CasFenced, NoChild, TypeOK
<1>7. LandedInv'
  BY <1>1, <1>3 DEF IInv, LandedInv, CasOnce, NoChild, TypeOK
<1>8. MovedInv'
  BY <1>1, <1>3 DEF IInv, MovedInv, DefiniteErrorMovedNothing, DefiniteErrors, Late
<1>9. QED
  BY <1>4, <1>5, <1>6, <1>7, <1>8 DEF IInv

\* git decides; nobody past its lease on that session but the one who waits for it.
LEMMA ChildIInv ==
  ASSUME TypeOK, IInv, NEW s \in Sessions, ChildApplies(s) \/ ChildRefuses(s)
  PROVE  IInv'
<1>1. /\ UNCHANGED <<record, lease, pc, sess, cap, fresh, result>>
      /\ child[s].st = "running" /\ child'[s].st \in {"applied", "refused"}
      /\ child'[s].new = child[s].new /\ child'[s].old = child[s].old
      /\ \A t \in Sessions : t # s => child'[t] = child[t] /\ landed'[t] = landed[t]
  BY DEF ChildApplies, ChildRefuses, localVars, historyVars, TypeOK, Children
<1>2. landed[s] = 0 /\ record[s].journal = "CasAttempted"
  BY <1>1 DEF IInv, LandedInv, ChildInv, CasFenced
<1>3. \/ landed'[s] = 1 /\ child'[s].st = "applied"
      \/ landed'[s] = 0 /\ child'[s].st = "refused"
  BY <1>2 DEF ChildApplies, ChildRefuses, historyVars, TypeOK, Children
<1>4. \A p \in Procs : pc[p] \in {"spawn_cas", "write_committed"} => sess[p] # s
  BY <1>1 DEF IInv, ChildInv
<1>5. LeaseInv' /\ RecordInv'
  BY <1>1 DEF IInv, LeaseInv, RecordInv, JournalsAt
<1>6. ChildInv'
  <2>1. CasFenced'
    BY <1>1 DEF IInv, ChildInv, CasFenced
  <2>2. QED
    BY <1>1, <1>4, <2>1 DEF IInv, ChildInv, TypeOK
<1>7. LandedInv'
  <2>1. CasOnce'
    BY <1>1, <1>2, <1>3 DEF IInv, LandedInv, CasOnce
  <2>2. QED
    BY <1>1, <1>3, <1>4, <2>1 DEF IInv, LandedInv, TypeOK
<1>8. MovedInv'
  <2>1. ASSUME NEW p \in Procs, moved'[p] # moved[p]
        PROVE  pc[p] = "wait_cas"
    BY <2>1 DEF ChildApplies, ChildRefuses, historyVars, TypeOK
  <2>2. \A p \in Procs : pc[p] = "wait_cas" => result[p] = "none"
    BY DEF IInv, MovedInv
  <2>3. QED
    BY <1>1, <2>1, <2>2 DEF IInv, MovedInv, DefiniteErrorMovedNothing, DefiniteErrors, Late
<1>9. QED
  BY <1>5, <1>6, <1>7, <1>8 DEF IInv

LEMMA NextIInv == TypeOK /\ IInv /\ [Next]_vars => IInv'
<1> SUFFICES ASSUME TypeOK, IInv, [Next]_vars PROVE IInv'
  OBVIOUS
<1>1. CASE UNCHANGED vars
  BY <1>1 DEF vars, IInv, LeaseInv, RecordInv, ChildInv, CasFenced, LandedInv,
              CasOnce, MovedInv, DefiniteErrorMovedNothing
<1>2. ASSUME NEW p \in Procs, Step(p) PROVE IInv'
  BY <1>2, AcquireIInv, RevalidateIInv, GuardIInv, WritesIInv, SpawnIInv, OutcomeIInv
     DEF Step
<1>3. ASSUME NEW p \in Procs, Failure(p) PROVE IInv'
  BY <1>3, FailureIInv, OutcomeIInv DEF Failure
<1>4. CASE Next
  BY <1>2, <1>3, <1>4, StartIInv, ChildIInv, EnvironmentIInv DEF Next
<1>5. QED
  BY <1>1, <1>4

\* The invariant holds for ever.
THEOREM Invariant == Spec => []IInv
<1>1. Init => TypeOK /\ IInv
  BY InitType, InitIInv
<1>2. TypeOK /\ IInv /\ [Next]_vars => (TypeOK /\ IInv)'
  BY NextType, NextIInv
<1>3. QED
  BY <1>1, <1>2, PTL DEF Spec

\* One publisher at a time works on a session past its lease, and on the record
\* that is on disk: the journal is never advanced from a stale copy.
THEOREM SoleActorCorrect == Spec => []SoleActor
<1>1. TypeOK /\ IInv => SoleActor
  BY Alone DEF IInv, RecordInv, SoleActor
<1>2. QED
  BY <1>1, TypeCorrect, Invariant, PTL

\* Whatever crashes, an update-ref child that may still act, or has acted unseen, is
\* announced by the CasAttempted journal on disk, arguments included.
THEOREM CasFencedCorrect == Spec => []CasFenced
<1>1. IInv => CasFenced
  BY DEF IInv, ChildInv
<1>2. QED
  BY <1>1, Invariant, PTL

\* Over all the calls it takes, one transaction moves the authority's ref at most
\* once, and a resumable or committed journal tells whether it did.
THEOREM CasOnceCorrect == Spec => []CasOnce
<1>1. IInv => CasOnce
  BY DEF IInv, LandedInv
<1>2. QED
  BY <1>1, Invariant, PTL

\* A publish that returns a definite error has not moved the ref.
THEOREM DefiniteErrorCorrect == Spec => []DefiniteErrorMovedNothing
<1>1. IInv => DefiniteErrorMovedNothing
  BY DEF IInv, MovedInv
<1>2. QED
  BY <1>1, Invariant, PTL

(***************************************************************************)
(* Publish implements PublishTarget.                                       *)
(***************************************************************************)
Freezing == {"idle_unchecked", "idle_target", "write_prepared"}
Forward(tx) == tx.new \in Commits /\ (tx.old = NoCommit \/ <<tx.old, tx.new>> \in Ancestry)

\* Only a step into the last part of the Idle path has something to show.
LEMMA ObsKept ==
  ASSUME TypeOK, ObsInv, NEW p \in Procs,
         \A q \in Procs : q # p => pc'[q] = pc[q] /\ obs'[q] = obs[q],
         pc'[p] \in Freezing => \/ pc[p] \in Freezing /\ obs'[p] = obs[p]
                                \/ Forward(obs'[p])
  PROVE  ObsInv'
  BY DEF ObsInv, Freezing, Forward

\* Proceed and Stop move one publisher.
LEMMA Moves ==
  ASSUME TypeOK, NEW p \in Procs
  PROVE  /\ \A to : Proceed(p, to) =>
              pc'[p] = to /\ \A q \in Procs : q # p => pc'[q] = pc[q]
         /\ \A code : Stop(p, code) =>
              pc'[p] = "idle" /\ \A q \in Procs : q # p => pc'[q] = pc[q]
  BY DEF Proceed, Stop, TypeOK

LEMMA StepObsInv ==
  ASSUME TypeOK, ObsInv, NEW p \in Procs, Step(p) PROVE ObsInv'
<1> USE DEF Freezing
<1>1. CASE ReadPrivate(p)
  <2>1. \A q \in Procs : q # p => obs'[q] = obs[q]
    BY <1>1 DEF ReadPrivate, Observe, TypeOK
  <2>2. obs'[p].old = obs[p].old /\ obs'[p].new = privateTip[sess[p]]
    BY <1>1 DEF ReadPrivate, Observe, TypeOK, Txs
  <2>3. pc'[p] \in Freezing => Forward(obs'[p])
    BY <1>1, <2>2, Moves DEF ReadPrivate, Observe, Relation, Forward
  <2>4. \A q \in Procs : q # p => pc'[q] = pc[q]
    BY <1>1, Moves DEF ReadPrivate, Observe
  <2>5. QED
    BY <2>1, <2>3, <2>4, ObsKept
<1>2. CASE AuditConfig(p) \/ ReadTarget(p)
  <2>1. \A q \in Procs : q # p => obs'[q] = obs[q] /\ pc'[q] = pc[q]
    BY <1>2, Moves DEF AuditConfig, ReadTarget, Observe, TypeOK
  <2>2. pc'[p] \notin Freezing
    BY <1>2, Moves DEF AuditConfig, ReadTarget, Observe
  <2>3. QED
    BY <2>1, <2>2, ObsKept
<1>3. ASSUME obs' = obs, \/ \E to : Proceed(p, to) /\ (to \in Freezing => pc[p] \in Freezing)
                         \/ \E code : Stop(p, code)
      PROVE  ObsInv'
  BY <1>3, Moves, ObsKept
<1>4. CASE SameTip(p) \/ IdleChecks(p)
  BY <1>3, <1>4 DEF SameTip, IdleChecks, Check, localVars
<1>5. CASE PreparedChecks(p) \/ ImportedChecks(p)
  BY <1>3, <1>5 DEF PreparedChecks, ImportedChecks, ConflictCheck, Check, localVars
<1>6. CASE ImportObjects(p) \/ SpawnCas(p) \/ CasReturns(p) \/ Return(p)
  BY <1>3, <1>6 DEF ImportObjects, SpawnCas, CasReturns, Return, Check, localVars
<1>7. CASE \/ WritePrepared(p) \/ WriteImported(p) \/ WriteAttempted(p)
           \/ WriteCommitted(p) \/ WriteConflict(p) \/ Finalize(p)
  BY <1>3, <1>7 DEF WritePrepared, WriteImported, WriteAttempted, WriteCommitted,
                    WriteConflict, Finalize, ReplaceJournal
<1>8. CASE AcquireLease(p)
  BY <1>8, Moves, ObsKept DEF AcquireLease, localVars, TypeOK
<1>9. CASE Revalidate(p)
  <2>1. cap[p].journal \in Journals
    BY DEF TypeOK, Records
  <2>2. cap[p].journal # "CasAttempted" => Dispatch[cap[p].journal] \notin Freezing
    BY <2>1 DEF Journals, Dispatch
  <2>3. QED
    BY <1>3, <1>9, <2>2 DEF Revalidate, localVars
<1>10. QED
  BY <1>1, <1>2, <1>4, <1>5, <1>6, <1>7, <1>8, <1>9 DEF Step

LEMMA NextObsInv == TypeOK /\ ObsInv /\ [Next]_vars => ObsInv'
<1> SUFFICES ASSUME TypeOK, ObsInv, [Next]_vars PROVE ObsInv'
  OBVIOUS
<1>1. CASE UNCHANGED <<pc, obs>>
  BY <1>1 DEF ObsInv
<1>2. ASSUME NEW p \in Procs, NEW s \in Sessions, Start(p, s) PROVE ObsInv'
  BY <1>2, ObsKept DEF Start, TypeOK, Freezing
<1>3. ASSUME NEW p \in Procs, Failure(p) PROVE ObsInv'
  <2>1. obs' = obs /\ \E code : Stop(p, code)
    BY <1>3 DEF Failure, GitFails, Crash, CasUnknown, localVars
  <2>2. QED
    BY <2>1, Moves, ObsKept DEF Freezing
<1>4. ASSUME NEW s \in Sessions, ChildApplies(s) \/ ChildRefuses(s)
      PROVE  UNCHANGED <<pc, obs>>
  BY <1>4 DEF ChildApplies, ChildRefuses, localVars
<1>5. ASSUME Environment PROVE UNCHANGED <<pc, obs>>
  BY <1>5 DEF Environment, OtherWriter, Prune, EditAuthority, MovePrivate, localVars
<1>6. QED
  BY <1>1, <1>2, <1>3, <1>4, <1>5, StepObsInv DEF Next, vars

LEMMA InitObsInv == Init => ObsInv
  BY DEF Init, ObsInv

LEMMA InitPromise == Init => Promise!Init
<1> SUFFICES ASSUME Init PROVE Promise!Init
  OBVIOUS
<1>1. \A s \in Sessions : /\ record[s].journal = "Idle"
                          /\ record[s].tx.new = NoCommit /\ record[s].tx.old = NoCommit
                          /\ record[s].expectedOld = target
  BY DEF Init, NoTx
<1>2. target \in Tips
  BY DEF Init
<1>3. QED
  BY <1>1, <1>2 DEF Promise!Init, Promise!NoSwap, Promise!Tips, Tips, Phase

\* A step that writes no record and lands nothing is somebody else's write, or
\* nothing at all to the promise.
LEMMA QuietPromise ==
  ASSUME TypeOK', UNCHANGED <<record, landed>>
  PROVE  Promise!Next
  BY DEF TypeOK, Promise!Next, Promise!OtherWriter, Promise!Tips, Tips, Phase

\* What the promise sees of one session.
FrozenSwap(s) == [new |-> record[s].tx.new, old |-> record[s].tx.old]

\* A step that concerns one session changes what the promise sees of that one only.
LEMMA OneSession ==
  ASSUME NEW s \in Sessions, NEW ph, NEW fr, NEW ex,
         \A t \in Sessions \ {s} : record'[t] = record[t] /\ landed'[t] = landed[t],
         Phase(s)' = ph, FrozenSwap(s)' = fr, record'[s].expectedOld = ex
  PROVE  /\ [t \in Sessions |-> Phase(t)]'
              = [[t \in Sessions |-> Phase(t)] EXCEPT ![s] = ph]
         /\ [t \in Sessions |-> FrozenSwap(t)]'
              = [[t \in Sessions |-> FrozenSwap(t)] EXCEPT ![s] = fr]
         /\ [t \in Sessions |-> record[t].expectedOld]'
              = [[t \in Sessions |-> record[t].expectedOld] EXCEPT ![s] = ex]
<1>1. \A t \in Sessions \ {s} : /\ Phase(t)' = Phase(t)
                                /\ FrozenSwap(t)' = FrozenSwap(t)
  BY DEF Phase, FrozenSwap
<1>2. QED
  BY <1>1

LEMMA ChildPromise ==
  ASSUME TypeOK, IInv, NEW s \in Sessions, ChildApplies(s)
  PROVE  Promise!Land(s)
<1>1. /\ child[s].st = "running" /\ target = child[s].old /\ target' = child[s].new
      /\ landed' = [landed EXCEPT ![s] = landed[s] + 1] /\ UNCHANGED record
  BY DEF ChildApplies
<1>2. /\ record[s].journal = "CasAttempted" /\ landed[s] = 0
      /\ record[s].tx.new = child[s].new /\ record[s].tx.old = child[s].old
  BY <1>1 DEF IInv, ChildInv, CasFenced, LandedInv
<1>3. /\ landed'[s] = 1
      /\ \A t \in Sessions : t # s => landed'[t] = landed[t]
  BY <1>1, <1>2 DEF TypeOK
<1>4. Phase(s) = "open" /\ Phase(s)' = "landed"
  BY <1>1, <1>2, <1>3 DEF Phase
<1>5. [t \in Sessions |-> Phase(t)]' = [[t \in Sessions |-> Phase(t)] EXCEPT ![s] = "landed"]
  BY <1>1, <1>3, <1>4, OneSession
<1>6. UNCHANGED <<[t \in Sessions |-> [new |-> record[t].tx.new, old |-> record[t].tx.old]],
                  [t \in Sessions |-> record[t].expectedOld]>>
  BY <1>1
<1>7. QED
  BY <1>1, <1>2, <1>4, <1>5, <1>6 DEF Promise!Land

\* What a publisher knows when it writes the journal.
LEMMA Writing ==
  ASSUME TypeOK, IInv, NEW p \in Procs, NEW s \in Sessions, s = sess[p],
         pc[p] \in Critical
  PROVE  /\ cap[p] = record[s]
         /\ record[s].journal \in JournalsAt(pc[p])
         /\ record[s].journal \in {"Prepared", "ObjectsImported"} => landed[s] = 0
         /\ record[s].journal = "CasCommitted" => landed[s] = 1
         /\ pc[p] = "write_committed" => landed[s] = 1
  BY DEF IInv, RecordInv, LandedInv, CasOnce

\* Either nothing is written, or the record of that session is replaced.
LEMMA Replaced ==
  ASSUME TypeOK, NEW p \in Procs, NEW s \in Sessions, s = sess[p],
         NEW from, NEW rec, NEW to, NEW code,
         ReplaceJournal(p, from, rec, to, code)
  PROVE  /\ pc[p] = from /\ target' = target
         /\ \/ record' = record
            \/ /\ record'[s] = rec
               /\ \A t \in Sessions \ {s} : record'[t] = record[t]
  BY DEF ReplaceJournal, ReplaceRecord, TypeOK, authorityVars

LEMMA PreparedPromise ==
  ASSUME TypeOK, TypeOK', IInv, ObsInv, NEW p \in Procs, NEW s \in Sessions,
         s = sess[p], WritePrepared(p)
  PROVE  Promise!Next
<1> DEFINE rec == [cap[p] EXCEPT !.journal = "Prepared", !.tx = obs[p]]
<1>1. ReplaceJournal(p, "write_prepared", rec, "prep_config", "PUBLISH_RECOVERY_REQUIRED")
  BY DEF WritePrepared
<1>2. CASE record' = record
  BY <1>2, QuietPromise DEF WritePrepared
<1>3. CASE record' # record
  <2>1. /\ pc[p] = "write_prepared" /\ target' = target
        /\ record'[s] = rec /\ \A t \in Sessions \ {s} : record'[t] = record[t]
    BY <1>1, <1>3, Replaced
  <2>2. cap[p] = record[s] /\ record[s].journal = "Idle"
    <3>1. pc[p] \in Critical /\ JournalsAt(pc[p]) = {"Idle"}
      BY <2>1 DEF JournalsAt, Critical, IdlePath, PreparedPath, ImportedPath,
                  AttemptedPath
    <3>2. QED
      BY <3>1, Writing
  <2>3. landed'[s] = 0 /\ \A t \in Sessions \ {s} : landed'[t] = landed[t]
    BY <1>3 DEF WritePrepared, TypeOK
  <2>4. /\ record'[s].journal = "Prepared" /\ record'[s].tx = obs[p]
        /\ record'[s].expectedOld = record[s].expectedOld
    BY <2>1, <2>2 DEF TypeOK, Records
  <2>5. Phase(s) = "closed" /\ Phase(s)' = "open"
    BY <2>2, <2>3, <2>4 DEF Phase
  <2>6. PICK swap : swap = [new |-> obs[p].new, old |-> obs[p].old]
    OBVIOUS
  <2>7. swap \in Promise!Swaps /\ Promise!FastForward(swap)
    BY <2>1, <2>6 DEF ObsInv, TypeOK, Txs, Tips, Promise!Swaps, Promise!Tips,
                      Promise!FastForward
  <2>8. FrozenSwap(s)' = swap
    BY <2>4, <2>6 DEF FrozenSwap
  <2>9. /\ [t \in Sessions |-> Phase(t)]'
             = [[t \in Sessions |-> Phase(t)] EXCEPT ![s] = "open"]
        /\ [t \in Sessions |-> FrozenSwap(t)]'
             = [[t \in Sessions |-> FrozenSwap(t)] EXCEPT ![s] = swap]
    BY <2>1, <2>3, <2>5, <2>8, OneSession
  <2>10. UNCHANGED [t \in Sessions |-> record[t].expectedOld]
    BY <2>1, <2>4
  <2>11. Promise!Open(s)
    BY <2>1, <2>5, <2>7, <2>9, <2>10 DEF Promise!Open, FrozenSwap
  <2>12. QED
    BY <2>11 DEF Promise!Next
<1>4. QED
  BY <1>2, <1>3

\* The journal moves on and the promise does not.
LEMMA AdvancePromise ==
  ASSUME TypeOK, TypeOK', IInv, NEW p \in Procs, NEW s \in Sessions, s = sess[p],
         WriteImported(p) \/ WriteAttempted(p) \/ WriteCommitted(p)
  PROVE  Promise!Next
<1>1. /\ pc[p] \in {"write_imported", "write_attempted", "write_committed"}
      /\ landed' = landed /\ target' = target
      /\ \/ record' = record
         \/ /\ \E j \in {"ObjectsImported", "CasAttempted", "CasCommitted"} :
                 record'[s] = WithJournal(p, j)
            /\ \A t \in Sessions \ {s} : record'[t] = record[t]
  BY Replaced DEF WriteImported, WriteAttempted, WriteCommitted
<1>2. cap[p] = record[s] /\ record[s].journal # "Idle"
  BY <1>1, Writing DEF JournalsAt, Critical, IdlePath, PreparedPath, ImportedPath,
                       AttemptedPath
<1>3. /\ record'[s].tx = record[s].tx /\ record'[s].expectedOld = record[s].expectedOld
      /\ record'[s].journal # "Idle"
  BY <1>1, <1>2 DEF WithJournal, TypeOK, Records
<1>4. \A t \in Sessions : /\ Phase(t)' = Phase(t) /\ FrozenSwap(t)' = FrozenSwap(t)
                          /\ record'[t].expectedOld = record[t].expectedOld
  BY <1>1, <1>2, <1>3 DEF Phase, FrozenSwap
<1>5. UNCHANGED <<[t \in Sessions |-> Phase(t)], [t \in Sessions |-> FrozenSwap(t)],
                  [t \in Sessions |-> record[t].expectedOld]>>
  BY <1>4
<1>6. Promise!OtherWriter
  BY <1>5 DEF Promise!OtherWriter, Promise!Tips, Tips, TypeOK, FrozenSwap
<1>7. QED
  BY <1>6 DEF Promise!Next

\* Giving up before the swap has landed; finishing after it.
LEMMA ClosePromise ==
  ASSUME TypeOK, TypeOK', IInv, NEW p \in Procs, NEW s \in Sessions, s = sess[p],
         WriteConflict(p) \/ Finalize(p)
  PROVE  Promise!Next
<1>1. CASE record' = record
  BY <1>1, QuietPromise DEF WriteConflict, Finalize
<1>2. CASE record' # record
  <2>1. PICK e \in Tips :
          /\ target' = target /\ landed' = landed
          /\ record'[s] = [Aborted(p) EXCEPT !.expectedOld = e]
          /\ \A t \in Sessions \ {s} : record'[t] = record[t]
          /\ \/ pc[p] = "write_conflict" /\ e = cap[p].expectedOld
             \/ pc[p] = "finalize" /\ e = cap[p].tx.new
    <3>1. CASE WriteConflict(p)
      <4>1. /\ pc[p] = "write_conflict" /\ target' = target
            /\ record'[s] = Aborted(p)
            /\ \A t \in Sessions \ {s} : record'[t] = record[t]
        BY <1>2, <3>1, Replaced DEF WriteConflict
      <4>2. /\ cap[p].expectedOld \in Tips
            /\ Aborted(p) = [Aborted(p) EXCEPT !.expectedOld = cap[p].expectedOld]
        BY DEF Aborted, TypeOK, Records
      <4>3. landed' = landed
        BY <3>1 DEF WriteConflict
      <4>4. QED
        BY <4>1, <4>2, <4>3
    <3>2. CASE Finalize(p)
      <4>1. /\ pc[p] = "finalize" /\ target' = target
            /\ record'[s] = [Aborted(p) EXCEPT !.expectedOld = cap[p].tx.new]
            /\ \A t \in Sessions \ {s} : record'[t] = record[t]
        BY <1>2, <3>2, Replaced DEF Finalize
      <4>2. cap[p].tx.new \in Tips
        BY DEF TypeOK, Records, Txs
      <4>3. landed' = landed
        BY <3>2 DEF Finalize
      <4>4. QED
        BY <4>1, <4>2, <4>3
    <3>3. QED
      BY <3>1, <3>2
  <2>2. /\ cap[p] = record[s]
        /\ pc[p] = "write_conflict" => /\ record[s].journal \in {"Prepared", "ObjectsImported"}
                                       /\ landed[s] = 0
        /\ pc[p] = "finalize" => record[s].journal = "CasCommitted" /\ landed[s] = 1
    BY <2>1, Writing DEF JournalsAt, Critical, IdlePath, PreparedPath, ImportedPath,
                         AttemptedPath, SharedTail
  <2>3. /\ record'[s].journal = "Idle" /\ record'[s].expectedOld = e
        /\ record'[s].tx.new = NoCommit /\ record'[s].tx.old = NoCommit
    BY <2>1 DEF Aborted, NoTx, TypeOK, Records
  <2>4. Phase(s)' = "closed" /\ FrozenSwap(s)' = Promise!NoSwap
    BY <2>3 DEF Phase, FrozenSwap, Promise!NoSwap
  <2>5. /\ [t \in Sessions |-> Phase(t)]'
             = [[t \in Sessions |-> Phase(t)] EXCEPT ![s] = "closed"]
        /\ [t \in Sessions |-> FrozenSwap(t)]'
             = [[t \in Sessions |-> FrozenSwap(t)] EXCEPT ![s] = Promise!NoSwap]
        /\ [t \in Sessions |-> record[t].expectedOld]'
             = [[t \in Sessions |-> record[t].expectedOld] EXCEPT ![s] = e]
    BY <2>1, <2>3, <2>4, OneSession
  <2>6. CASE pc[p] = "write_conflict"
    <3>1. Phase(s) = "open" /\ e = record[s].expectedOld
      BY <2>1, <2>2, <2>6 DEF Phase
    <3>2. UNCHANGED [t \in Sessions |-> record[t].expectedOld]
      BY <2>1, <2>3, <3>1
    <3>3. Promise!GiveUp(s)
      BY <2>1, <2>5, <3>1, <3>2 DEF Promise!GiveUp, FrozenSwap
    <3>4. QED
      BY <3>3 DEF Promise!Next
  <2>7. CASE pc[p] = "finalize"
    <3>1. Phase(s) = "landed" /\ e = FrozenSwap(s).new
      BY <2>1, <2>2, <2>7 DEF Phase, FrozenSwap
    <3>2. Promise!Finish(s)
      BY <2>1, <2>5, <3>1 DEF Promise!Finish, FrozenSwap
    <3>3. QED
      BY <3>2 DEF Promise!Next
  <2>8. QED
    BY <2>1, <2>6, <2>7
<1>3. QED
  BY <1>1, <1>2

\* Every step of the code is a step of the promise, or none of its business.
LEMMA NextPromise ==
  ASSUME TypeOK, TypeOK', IInv, ObsInv, Next
  PROVE  Promise!Next
<1>1. CASE UNCHANGED <<record, landed>>
  BY <1>1, QuietPromise
<1>2. ASSUME NEW s \in Sessions, ChildApplies(s)
      PROVE  Promise!Next
  BY <1>2, ChildPromise DEF Promise!Next
<1>3. ASSUME NEW p \in Procs,
             \/ WritePrepared(p) \/ WriteImported(p) \/ WriteAttempted(p)
             \/ WriteCommitted(p) \/ WriteConflict(p) \/ Finalize(p)
      PROVE  Promise!Next
  <2>1. PICK s \in Sessions : s = sess[p]
    BY DEF TypeOK
  <2>2. CASE WritePrepared(p)
    BY <2>1, <2>2, PreparedPromise
  <2>3. CASE WriteImported(p) \/ WriteAttempted(p) \/ WriteCommitted(p)
    BY <2>1, <2>3, AdvancePromise
  <2>4. CASE WriteConflict(p) \/ Finalize(p)
    BY <2>1, <2>4, ClosePromise
  <2>5. QED
    BY <1>3, <2>2, <2>3, <2>4
<1>4. ASSUME NEW p \in Procs, Step(p),
             ~ ( \/ WritePrepared(p) \/ WriteImported(p) \/ WriteAttempted(p)
                 \/ WriteCommitted(p) \/ WriteConflict(p) \/ Finalize(p) )
      PROVE  UNCHANGED <<record, landed>>
  <2>1. \/ AcquireLease(p) \/ Revalidate(p) \/ AuditConfig(p) \/ ReadTarget(p)
        \/ ReadPrivate(p) \/ SameTip(p) \/ IdleChecks(p) \/ PreparedChecks(p)
        \/ ImportObjects(p) \/ ImportedChecks(p) \/ SpawnCas(p) \/ CasReturns(p)
        \/ Return(p)
    BY <1>4 DEF Step
  <2>2. CASE AcquireLease(p) \/ Revalidate(p) \/ SpawnCas(p) \/ CasReturns(p)
             \/ ImportObjects(p)
    BY <2>2 DEF AcquireLease, Revalidate, SpawnCas, CasReturns, ImportObjects, historyVars
  <2>3. CASE AuditConfig(p) \/ ReadTarget(p) \/ ReadPrivate(p)
    BY <2>3 DEF AuditConfig, ReadTarget, ReadPrivate, Observe, historyVars
  <2>4. CASE SameTip(p) \/ IdleChecks(p) \/ PreparedChecks(p) \/ ImportedChecks(p)
             \/ Return(p)
    BY <2>4 DEF SameTip, IdleChecks, PreparedChecks, ImportedChecks, Return, Check,
                ConflictCheck, historyVars
  <2>5. QED
    BY <2>1, <2>2, <2>3, <2>4
<1>5. ASSUME NEW p \in Procs, Failure(p)
      PROVE  UNCHANGED <<record, landed>>
  BY <1>5 DEF Failure, GitFails, Crash, CasUnknown, historyVars
<1>6. ASSUME NEW p \in Procs, NEW s \in Sessions, Start(p, s)
      PROVE  UNCHANGED <<record, landed>>
  BY <1>6 DEF Start
<1>7. ASSUME NEW s \in Sessions, ChildRefuses(s)
      PROVE  UNCHANGED <<record, landed>>
  BY <1>7 DEF ChildRefuses, historyVars
<1>8. ASSUME Environment
      PROVE  UNCHANGED <<record, landed>>
  BY <1>8 DEF Environment, OtherWriter, Prune, EditAuthority, MovePrivate, historyVars
<1>9. QED
  BY <1>1, <1>2, <1>3, <1>4, <1>5, <1>6, <1>7, <1>8 DEF Next

\* Publish implements PublishTarget: whatever publishers, crashes, retries, stray
\* children and other writers do, each session's transaction lands at most once, on
\* the tip it froze, is only given up before it lands and only finished after.
THEOREM Refinement == Spec => Promised
<1>1. TypeOK /\ TypeOK' /\ IInv /\ ObsInv /\ [Next]_vars => [Promise!Next]_(Promise!vars)
  <2>1. CASE UNCHANGED vars
    BY <2>1 DEF vars, Promise!vars, Phase
  <2>2. CASE Next
    BY <2>2, NextPromise
  <2>3. QED
    BY <2>1, <2>2
<1>2. Spec => []TypeOK /\ []IInv
  BY TypeCorrect, Invariant
<1>3. Spec => []ObsInv
  <2>1. Init => ObsInv
    BY InitObsInv
  <2>2. TypeOK /\ ObsInv /\ [Next]_vars => ObsInv'
    BY NextObsInv
  <2>3. QED
    BY <2>1, <2>2, <1>2, PTL DEF Spec
<1>4. Init => Promise!Init
  BY InitPromise
<1>5. QED
  BY <1>1, <1>2, <1>3, <1>4, PTL DEF Spec, Promised, Promise!Spec

(***************************************************************************)
(* A publish that is left alone does not leave its fence behind.           *)
(***************************************************************************)
\* What a call that is left alone knows of the authority once it has looked: the
\* commit is there, the target is the one it expects, and so its child succeeds.
Armed == {"imp_target", "imp_unchecked", "write_attempted", "spawn_cas"}
Aimed == Armed \ {"imp_target"}
Sure(p) ==
  /\ pc[p] \in Armed => cap[p].tx.new \in objects
  /\ pc[p] \in Aimed => target = cap[p].tx.old
  /\ pc[p] = "wait_cas" =>
       /\ child[sess[p]].st \in {"running", "applied"}
       /\ child[sess[p]].st = "running" =>
            target = child[sess[p]].old /\ child[sess[p]].new \in objects
QuietInv ==
  /\ quiet \in [Procs -> BOOLEAN]
  /\ \A p \in Procs : quiet[p] => Sure(p)

\* Who is nowhere near the swap has nothing to be sure of.
LEMMA SureElsewhere ==
  ASSUME NEW p \in Procs, pc'[p] \notin Armed \cup {"wait_cas"} PROVE Sure(p)'
  BY DEF Sure, Armed, Aimed

\* p's own steps: each look at the authority is taken before it is relied on.
LEMMA OwnSure ==
  ASSUME TypeOK, NEW p \in Procs, Sure(p), Step(p) PROVE Sure(p)'
<1> USE DEF Armed, Aimed
<1>1. ASSUME \E code : Stop(p, code) PROVE Sure(p)'
  BY <1>1, Moves, SureElsewhere
<1>2. ASSUME \E to : Proceed(p, to) /\ to \notin Armed \cup {"wait_cas"} PROVE Sure(p)'
  BY <1>2, Moves, SureElsewhere
<1>3. CASE ImportedChecks(p)
  <2>1. UNCHANGED <<target, objects, child, sess, cap>>
    BY <1>3 DEF ImportedChecks, ConflictCheck, Check, authorityVars, localVars
  <2>2. \/ \E code : Stop(p, code)
        \/ \E to : Proceed(p, to) /\ to \notin Armed \cup {"wait_cas"}
        \/ Proceed(p, "imp_target") /\ cap[p].tx.new \in objects
        \/ pc[p] = "imp_target" /\ Proceed(p, "imp_unchecked") /\ target = cap[p].tx.old
        \/ pc[p] = "imp_unchecked" /\ Proceed(p, "write_attempted")
    BY <1>3 DEF ImportedChecks, ConflictCheck, Check
  <2>3. QED
    BY <1>1, <1>2, <2>1, <2>2, Moves DEF Sure
<1>4. CASE WriteAttempted(p)
  <2>1. CASE \E code : Stop(p, code)
    BY <1>1, <2>1
  <2>2. CASE ReplaceRecord(p, WithJournal(p, "CasAttempted")) /\ Proceed(p, "spawn_cas")
    <3>1. cap'[p].tx = cap[p].tx
      BY <2>2 DEF ReplaceRecord, WithJournal, TypeOK, Records
    <3>2. pc[p] = "write_attempted" /\ pc'[p] = "spawn_cas" /\ UNCHANGED <<target, objects>>
      BY <1>4, <2>2, Moves DEF WriteAttempted, ReplaceJournal, authorityVars
    <3>3. QED
      BY <3>1, <3>2 DEF Sure
  <2>3. QED
    BY <1>4, <2>1, <2>2 DEF WriteAttempted, ReplaceJournal
<1>5. CASE SpawnCas(p)
  <2>1. /\ pc[p] = "spawn_cas" /\ pc'[p] = "wait_cas"
        /\ UNCHANGED <<target, objects, sess, cap>>
        /\ child'[sess[p]] = [st |-> "running", new |-> cap[p].tx.new, old |-> cap[p].tx.old]
    BY <1>5, Moves DEF SpawnCas, authorityVars, localVars, TypeOK
  <2>2. QED
    BY <2>1 DEF Sure
<1>6. CASE Revalidate(p)
  <2>1. cap[p].journal \in Journals
    BY DEF TypeOK, Records
  <2>2. cap[p].journal # "CasAttempted" => Dispatch[cap[p].journal] \notin Armed \cup {"wait_cas"}
    BY <2>1 DEF Journals, Dispatch
  <2>3. QED
    BY <1>1, <1>2, <1>6, <2>2 DEF Revalidate
<1>7. CASE AcquireLease(p)
  <2>1. pc'[p] \in {"revalidate", "idle"}
    BY <1>7, Moves DEF AcquireLease, TypeOK
  <2>2. QED
    BY <2>1, SureElsewhere
<1>8. CASE ReadPrivate(p)
  BY <1>1, <1>2, <1>8 DEF ReadPrivate, Observe
<1>9. CASE \/ AuditConfig(p) \/ ReadTarget(p) \/ SameTip(p) \/ IdleChecks(p)
           \/ PreparedChecks(p) \/ Return(p)
  BY <1>1, <1>2, <1>9 DEF AuditConfig, ReadTarget, Observe, SameTip, IdleChecks,
                          PreparedChecks, Return, ConflictCheck, Check
<1>10. CASE ImportObjects(p) \/ CasReturns(p)
  BY <1>1, <1>2, <1>10 DEF ImportObjects, CasReturns
<1>11. CASE \/ WritePrepared(p) \/ WriteImported(p)
            \/ WriteCommitted(p) \/ WriteConflict(p) \/ Finalize(p)
  BY <1>1, <1>2, <1>11 DEF WritePrepared, WriteImported, WriteCommitted, WriteConflict,
                           Finalize, ReplaceJournal
<1>12. QED
  BY <1>3, <1>4, <1>5, <1>6, <1>7, <1>8, <1>9, <1>10, <1>11 DEF Step

\* A step of another publisher, whatever its session.
LEMMA OthersStep ==
  ASSUME TypeOK, NEW q \in Procs, Step(q)
  PROVE  /\ target' = target /\ objects \subseteq objects'
         /\ \A p \in Procs \ {q} : pc'[p] = pc[p] /\ sess'[p] = sess[p] /\ cap'[p] = cap[p]
         /\ \/ child' = child
            \/ /\ pc[q] \in Critical
               /\ \A s \in Sessions \ {sess[q]} : child'[s] = child[s]
<1> DEFINE Others == \A p \in Procs \ {q} : pc'[p] = pc[p] /\ sess'[p] = sess[p]
                                              /\ cap'[p] = cap[p]
<1>1. CASE \/ AuditConfig(q) \/ ReadTarget(q) \/ ReadPrivate(q) \/ SameTip(q)
           \/ IdleChecks(q) \/ PreparedChecks(q) \/ ImportedChecks(q) \/ Return(q)
           \/ Revalidate(q)
  <2>1. UNCHANGED <<target, objects, child, sess, cap>>
    BY <1>1 DEF AuditConfig, ReadTarget, ReadPrivate, Observe, SameTip, IdleChecks,
                PreparedChecks, ImportedChecks, Return, Revalidate, ConflictCheck, Check,
                authorityVars, localVars
  <2>2. (\E to : Proceed(q, to)) \/ (\E code : Stop(q, code))
    BY <1>1 DEF AuditConfig, ReadTarget, ReadPrivate, Observe, SameTip, IdleChecks,
                PreparedChecks, ImportedChecks, Return, Revalidate, ConflictCheck, Check
  <2>3. QED
    BY <2>1, <2>2, Moves
<1>2. CASE AcquireLease(q)
  BY <1>2, Moves DEF AcquireLease, authorityVars, localVars, TypeOK
<1>3. CASE ImportObjects(q)
  <2>1. UNCHANGED <<target, child, sess, cap>> /\ objects \subseteq objects'
    BY <1>3 DEF ImportObjects, localVars
  <2>2. (\E to : Proceed(q, to)) \/ (\E code : Stop(q, code))
    BY <1>3 DEF ImportObjects
  <2>3. QED
    BY <2>1, <2>2, Moves
<1>4. CASE SpawnCas(q) \/ CasReturns(q)
  <2>1. /\ UNCHANGED <<target, objects, sess, cap>> /\ pc[q] \in Critical
        /\ \A s \in Sessions \ {sess[q]} : child'[s] = child[s]
    BY <1>4 DEF SpawnCas, CasReturns, authorityVars, localVars, TypeOK, Critical,
                AttemptedPath
  <2>2. (\E to : Proceed(q, to)) \/ (\E code : Stop(q, code))
    BY <1>4 DEF SpawnCas, CasReturns
  <2>3. QED
    BY <2>1, <2>2, Moves
<1>5. CASE \/ WritePrepared(q) \/ WriteImported(q) \/ WriteAttempted(q)
           \/ WriteCommitted(q) \/ WriteConflict(q) \/ Finalize(q)
  <2>1. PICK from, rec, to, code : ReplaceJournal(q, from, rec, to, code)
    BY <1>5 DEF WritePrepared, WriteImported, WriteAttempted, WriteCommitted,
                WriteConflict, Finalize
  <2>2. UNCHANGED <<target, objects, child, sess>>
    BY <2>1 DEF ReplaceJournal, authorityVars
  <2>3. \A p \in Procs \ {q} : cap'[p] = cap[p]
    BY <2>1 DEF ReplaceJournal, ReplaceRecord, TypeOK
  <2>4. Proceed(q, to) \/ Stop(q, code)
    BY <2>1 DEF ReplaceJournal
  <2>5. QED
    BY <2>2, <2>3, <2>4, Moves
<1>6. QED
  BY <1>1, <1>2, <1>3, <1>4, <1>5 DEF Step

\* Steps that are not p's while p is left alone.
LEMMA OthersSure ==
  ASSUME TypeOK, IInv, NEW p \in Procs, Sure(p), LeftAlone(p),
         NEW q \in Procs \ {p}, Step(q)
  PROVE  Sure(p)'
<1>1. pc[p] = "wait_cas" => child'[sess[p]] = child[sess[p]]
  <2>1. "wait_cas" \in Critical /\ sess[p] \in Sessions
    BY DEF Critical, AttemptedPath, TypeOK
  <2>2. QED
    BY <2>1, OthersStep, Alone
<1>2. QED
  BY <1>1, OthersStep DEF Sure

LEMMA ChildSure ==
  ASSUME TypeOK, IInv, NEW p \in Procs, Sure(p), LeftAlone(p),
         NEW s \in Sessions, ChildApplies(s) \/ ChildRefuses(s)
  PROVE  Sure(p)'
<1>1. UNCHANGED <<pc, sess, cap, objects>>
  BY DEF ChildApplies, ChildRefuses, authorityVars, localVars
<1>2. \A t \in Sessions \ {s} : child'[t] = child[t]
  BY DEF ChildApplies, ChildRefuses, TypeOK
<1>3. CASE ChildApplies(s)
  <2>1. landed'[s] = landed[s] + 1 /\ landed[s] \in Nat
    BY <1>3 DEF ChildApplies, TypeOK
  <2>2. s = sess[p]
    BY <2>1 DEF LeftAlone
  <2>3. child'[s].st = "applied"
    BY <1>3 DEF ChildApplies, TypeOK, Children
  <2>4. child[s].st = "running" /\ record[s].journal = "CasAttempted"
    BY <1>3 DEF ChildApplies, IInv, ChildInv, CasFenced
  <2>5. pc[p] \notin Aimed
    <3>1. ASSUME pc[p] \in {"imp_unchecked", "write_attempted"} PROVE FALSE
      <4>1. pc[p] \in ImportedPath /\ pc[p] \in Critical
        BY <3>1 DEF ImportedPath, Critical
      <4>2. cap[p].journal = record[s].journal /\ cap[p].journal \in JournalsAt(pc[p])
        BY <2>2, <4>1 DEF IInv, RecordInv
      <4>3. JournalsAt(pc[p]) = {"ObjectsImported"}
        BY <3>1 DEF JournalsAt, ImportedPath, PreparedPath, IdlePath, AttemptedPath
      <4>4. QED
        BY <2>4, <4>2, <4>3
    <3>2. pc[p] # "spawn_cas"
      BY <2>2, <2>4 DEF IInv, ChildInv
    <3>3. QED
      BY <3>1, <3>2 DEF Aimed, Armed
  <2>6. QED
    BY <1>1, <2>2, <2>3, <2>5 DEF Sure
<1>4. CASE ChildRefuses(s)
  <2>1. UNCHANGED <<target, faults>>
    BY <1>4 DEF ChildRefuses, LeftAlone, authorityVars
  <2>2. ~(target = child[s].old /\ child[s].new \in objects) /\ child[s].st = "running"
    BY <1>4, <2>1 DEF ChildRefuses, Fault, TypeOK
  <2>3. pc[p] = "wait_cas" => child'[sess[p]] = child[sess[p]]
    BY <1>2, <2>2 DEF Sure, TypeOK
  <2>4. QED
    BY <1>1, <2>1, <2>3 DEF Sure
<1>5. QED
  BY <1>3, <1>4

\* A failure and a step of the environment leave nobody alone.
LEMMA Disturbed ==
  ASSUME TypeOK, NEW p \in Procs, LeftAlone(p)
  PROVE  ~Environment /\ \A q \in Procs : ~Failure(q)
<1>1. ~Environment
  BY DEF Environment, OtherWriter, Prune, EditAuthority, MovePrivate, EnvStep,
         LeftAlone, TypeOK
<1>2. ASSUME NEW q \in Procs PROVE ~Failure(q)
  BY DEF Failure, GitFails, Crash, CasUnknown, Fault, LeftAlone, TypeOK
<1>3. QED
  BY <1>1, <1>2

LEMMA NextQuietInv ==
  TypeOK /\ IInv /\ QuietInv /\ [QuietNext]_quietVars => QuietInv'
<1> SUFFICES ASSUME TypeOK, IInv, QuietInv, [QuietNext]_quietVars PROVE QuietInv'
  OBVIOUS
<1>1. CASE UNCHANGED quietVars
  BY <1>1 DEF quietVars, vars, QuietInv, Sure
<1>2. CASE QuietNext
  <2>1. quiet' \in [Procs -> BOOLEAN]
    BY <1>2 DEF QuietNext, Remember, QuietInv, Began, LeftAlone
  <2>2. ASSUME NEW p \in Procs, quiet'[p] PROVE Sure(p)'
    <3>1. Began(p) \/ (quiet[p] /\ LeftAlone(p))
      BY <1>2, <2>2 DEF QuietNext, Remember
    <3>2. CASE Began(p)
      BY <3>2, SureElsewhere DEF Began, Armed
    <3>3. CASE quiet[p] /\ LeftAlone(p)
      <4>1. Sure(p)
        BY <3>3 DEF QuietInv
      <4>2. ASSUME NEW q \in Procs, NEW s \in Sessions, Start(q, s) PROVE Sure(p)'
        <5>1. CASE q = p
          <6>1. pc'[p] = "lease"
            BY <4>2, <5>1 DEF Start, TypeOK
          <6>2. QED
            BY <6>1, SureElsewhere DEF Armed
        <5>2. CASE q # p
          <6>1. /\ pc'[p] = pc[p] /\ sess'[p] = sess[p] /\ cap'[p] = cap[p]
                /\ UNCHANGED <<target, objects, child>>
            BY <4>2, <5>2 DEF Start, TypeOK, authorityVars
          <6>2. QED
            BY <4>1, <6>1 DEF Sure
        <5>3. QED
          BY <5>1, <5>2
      <4>3. ASSUME NEW q \in Procs, Step(q) PROVE Sure(p)'
        BY <3>3, <4>1, <4>3, OwnSure, OthersSure
      <4>4. QED
        BY <1>2, <3>3, <4>1, <4>2, <4>3, ChildSure, Disturbed DEF QuietNext, Next
    <3>4. QED
      BY <3>1, <3>2, <3>3
  <2>3. QED
    BY <2>1, <2>2 DEF QuietInv
<1>3. QED
  BY <1>1, <1>2

\* How a call that is left alone to its end can end.
LEMMA QuietEnd ==
  ASSUME TypeOK, IInv, QuietInv, [QuietNext]_quietVars, NEW p \in Procs,
         pc[p] \in Critical, pc'[p] = "idle", quiet'[p]
  PROVE  record'[sess[p]].journal # "CasAttempted"
<1> "idle" \notin Critical /\ pc[p] # "idle"
  BY DEF Critical, IdlePath, PreparedPath, ImportedPath, AttemptedPath, SharedTail
<1>1. QuietNext
  BY DEF quietVars, vars
<1>2. quiet[p] /\ LeftAlone(p) /\ Sure(p)
  BY <1>1 DEF QuietNext, Remember, Began, QuietInv
<1>3. fresh[p] /\ cap[p] = record[sess[p]] /\ cap[p].journal \in JournalsAt(pc[p])
  BY DEF IInv, RecordInv
<1>4. Step(p)
  <2>1. ASSUME NEW q \in Procs, NEW s \in Sessions, Start(q, s) PROVE FALSE
    BY <2>1 DEF Start, TypeOK
  <2>2. ASSUME NEW s \in Sessions, ChildApplies(s) \/ ChildRefuses(s) PROVE FALSE
    BY <2>2 DEF ChildApplies, ChildRefuses
  <2>3. ASSUME NEW q \in Procs \ {p}, Step(q) PROVE FALSE
    BY <2>3, OthersStep
  <2>4. QED
    BY <1>1, <1>2, <2>1, <2>2, <2>3, Disturbed DEF QuietNext, Next
<1>5. CASE /\ record' = record
           /\ pc[p] \notin AttemptedPath
  <2>1. "CasAttempted" \notin JournalsAt(pc[p])
    BY <1>5 DEF JournalsAt, Critical, SharedTail
  <2>2. QED
    BY <1>3, <1>5, <2>1
<1>6. ASSUME NEW to, Proceed(p, to), to # "idle" PROVE FALSE
  BY <1>6, Moves
<1>7. UNCHANGED faults
  BY <1>2 DEF LeftAlone
<1>8. ~Fault
  BY <1>7 DEF Fault, TypeOK
<1>9. CASE \/ AuditConfig(p) \/ ReadTarget(p) \/ ReadPrivate(p) \/ SameTip(p)
           \/ IdleChecks(p) \/ PreparedChecks(p) \/ ImportedChecks(p) \/ Return(p)
  BY <1>5, <1>9 DEF AuditConfig, ReadTarget, ReadPrivate, Observe, SameTip, IdleChecks,
                    PreparedChecks, ImportedChecks, Return, ConflictCheck, Check,
                    AttemptedPath
<1>10. CASE AcquireLease(p) \/ Revalidate(p)
  BY <1>10 DEF AcquireLease, Revalidate, Critical, IdlePath, PreparedPath, ImportedPath,
               AttemptedPath, SharedTail
<1>11. CASE ImportObjects(p) \/ SpawnCas(p)
  BY <1>6, <1>8, <1>11 DEF ImportObjects, SpawnCas
<1>12. CASE CasReturns(p)
  BY <1>2, <1>6, <1>12 DEF CasReturns, Sure
<1>13. ASSUME NEW from, NEW rec, NEW to, NEW code,
              ReplaceJournal(p, from, rec, to, code), to # "idle"
       PROVE  FALSE
  BY <1>3, <1>6, <1>8, <1>13 DEF ReplaceJournal
<1>14. CASE \/ WritePrepared(p) \/ WriteImported(p) \/ WriteAttempted(p)
            \/ WriteCommitted(p) \/ WriteConflict(p) \/ Finalize(p)
  BY <1>13, <1>14 DEF WritePrepared, WriteImported, WriteAttempted, WriteCommitted,
                      WriteConflict, Finalize
<1>15. QED
  BY <1>4, <1>9, <1>10, <1>11, <1>12, <1>14 DEF Step

\* Whatever happened before it, a publish that is left alone from its start to its
\* end finds out about it before it writes CasAttempted: when it ends, that fence is
\* not up (the checks of publish_objects_imported, in their order).
THEOREM QuietNeverFencesCorrect == QuietSpec => QuietNeverFences
<1>1. QuietInit => TypeOK /\ IInv /\ QuietInv
  <2>1. QuietInit => QuietInv
    BY DEF QuietInit, QuietInv
  <2>2. QED
    BY <2>1, InitType, InitIInv DEF QuietInit
<1>2. [QuietNext]_quietVars => [Next]_vars
  BY DEF QuietNext, quietVars
<1>3. TypeOK /\ IInv /\ QuietInv /\ [QuietNext]_quietVars => TypeOK' /\ IInv' /\ QuietInv'
  BY <1>2, NextType, NextIInv, NextQuietInv
<1>4. TypeOK /\ IInv /\ QuietInv /\ [QuietNext]_quietVars =>
        [\A p \in Procs :
           pc[p] \in Critical /\ pc'[p] = "idle" /\ quiet'[p] =>
             record'[sess[p]].journal # "CasAttempted"]_quietVars
  BY QuietEnd
<1>5. QED
  BY <1>1, <1>3, <1>4, PTL DEF QuietSpec, QuietNeverFences
=============================================================================
