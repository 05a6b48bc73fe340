--------------------------- MODULE RecordRegister ---------------------------
(***************************************************************************)
(* What callers of a record transaction rely on: the record is a register. *)
(* Creating and replacing it are compare-and-swaps, and one that reports   *)
(* success has swapped exactly what it expected and will outlast a power   *)
(* cut.  One that reports anything else promises nothing.  A removal       *)
(* empties the register whatever has come into it since it was compared.   *)
(***************************************************************************)
CONSTANTS
  Txns,    \* transactions; the record one of them writes has its name
  Origin,  \* the record that may be there at the beginning
  None     \* no record

VARIABLES
  reg,     \* the record
  recent,  \* what reg may be after a power cut
  job,     \* [Txns -> [kind, from]]: what a transaction is to do
  st       \* [Txns -> States]: how far it is

vars == <<reg, recent, job, st>>

Records == Txns \cup {Origin}
States  == {"new", "pending", "applied", "settled", "spoilt", "ok", "failed"}
Kinds   == {"create", "replace", "remove", "sweep"}
NoJob   == [kind |-> "sweep", from |-> None]

Init ==
  /\ reg \in {Origin, None} /\ recent = {reg}
  /\ job = [t \in Txns |-> NoJob]
  /\ st = [t \in Txns |-> "new"]

Become(t, s) == st' = [st EXCEPT ![t] = s]

\* A replacement and a removal name the record they have seen.
Call(t) ==
  /\ st[t] = "new" /\ Become(t, "pending")
  /\ \E k \in Kinds :
       /\ k \in {"replace", "remove"} => reg # None
       /\ job' = [job EXCEPT ![t] =
                    [kind |-> k, from |-> IF k \in {"replace", "remove"} THEN reg ELSE None]]
  /\ UNCHANGED <<reg, recent>>

Set(new) == reg' = new /\ recent' = recent \cup {new}

\* The compare-and-swap.
Swap(t) ==
  /\ st[t] = "pending" /\ job[t].kind \in {"create", "replace"} /\ reg = job[t].from
  /\ Set(t)
  /\ Become(t, "applied") \/ Become(t, "spoilt")
  /\ UNCHANGED job

\* A replacement that displaces another record than it expected will not succeed.
Overwrite(t) ==
  /\ st[t] = "pending" /\ job[t].kind = "replace" /\ reg \notin {job[t].from, None}
  /\ Set(t) /\ Become(t, "spoilt")
  /\ UNCHANGED job

Remove(t) ==
  /\ st[t] = "pending" /\ job[t].kind = "remove" /\ reg # None
  /\ Set(None) /\ Become(t, "applied")
  /\ UNCHANGED job

\* A replacement that finds something wrong may put back what it expected.
Restore(t) ==
  /\ st[t] = "spoilt" /\ job[t].kind = "replace"
  /\ Set(job[t].from)
  /\ UNCHANGED <<job, st>>

Spoil(t) ==
  st[t] \in {"pending", "applied"} /\ Become(t, "spoilt") /\ UNCHANGED <<reg, recent, job>>

\* The directory is synced, by t for its own sake or while it cleans up.
Flush(t) ==
  /\ st[t] \notin {"new", "ok", "failed"}
  /\ recent' = {reg}
  /\ \/ st[t] = "applied" /\ Become(t, "settled")
     \/ st[t] = "pending" /\ job[t].kind = "sweep" /\ Become(t, "settled")
     \/ UNCHANGED st
  /\ UNCHANGED <<reg, job>>

Ok(t) == st[t] = "settled" /\ Become(t, "ok") /\ UNCHANGED <<reg, recent, job>>

\* A failing transaction may have synced the directory last.
Fail(t) ==
  /\ st[t] \notin {"new", "ok", "failed"} /\ Become(t, "failed")
  /\ recent' = recent \/ recent' = {reg}
  /\ UNCHANGED <<reg, job>>

PowerCut ==
  /\ reg' \in recent /\ recent' = {reg'}
  /\ st' = [t \in Txns |-> IF st[t] \in {"new", "ok"} THEN st[t] ELSE "failed"]
  /\ UNCHANGED job

Next ==
  \/ \E t \in Txns : \/ Call(t) \/ Swap(t) \/ Overwrite(t) \/ Remove(t) \/ Restore(t)
                     \/ Spoil(t) \/ Flush(t) \/ Ok(t) \/ Fail(t)
  \/ PowerCut

Spec == Init /\ [][Next]_vars
=============================================================================
