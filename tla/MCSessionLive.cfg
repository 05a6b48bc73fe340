\* Forced removal races create; commands return, tombstones are completed.
CONSTANTS
  Procs = {p1, p2}
  Roots = {r1}
  NoRoot = NoRoot
  Ops = {"create", "remove", "force", "exec", "publish", "gc"}
  MaxCalls = 3
  MaxFaults = 1
SPECIFICATION GcSpec
INVARIANT Safe
PROPERTIES CallsReturn TombstoneSettles
\* Calls are bounded, and leftovers of killed processes keep their names.
CHECK_DEADLOCK FALSE
