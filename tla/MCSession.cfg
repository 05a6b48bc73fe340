\* Two processes create, remove, use and collect one session.
CONSTANTS
  Procs = {p1, p2}
  Roots = {r1, r2}
  NoRoot = NoRoot
  Ops = {"create", "remove", "exec", "publish", "gc"}
  MaxCalls = 5
  MaxFaults = 2
SPECIFICATION Spec
INVARIANTS ExecOnLiveRoot DeliveredTreeSurvives DeliveredStaysReady RecordOutlivesRoot SilentIsClean
PROPERTY Promised
SYMMETRY Symmetry
\* Calls are bounded, and leftovers of killed processes keep their names.
CHECK_DEADLOCK FALSE
