\* A forced removal is interrupted, gc is run for ever.
CONSTANTS
  Procs = {p1, p2, p3}
  Roots = {r1}
  NoRoot = NoRoot
  Ops = {"create", "force", "gc"}
  MaxCalls = 2
  MaxFaults = 1
SPECIFICATION GcSpec
PROPERTY InterruptedRemoveCompleted
\* Calls are bounded, and leftovers of killed processes keep their names.
CHECK_DEADLOCK FALSE
