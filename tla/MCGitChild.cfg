\* Every use of a child; a descendant; pipes of one place.
CONSTANTS
  Leader = leader
  Descendants = {d}
  Modes = {"capture", "listing", "batch", "direct"}
  Capacity = 1
  Request = 2
  Answer = 2
  Limit = 1
  MaxPending = 2
  IdleTime = 2
  HardTime = 3
  GraceTime = 1
  CleanupTime = 1
  MaxFaults = 1
SPECIFICATION FairSpec
INVARIANTS OutputWhole NeverAstray FailureCleansUp
PROPERTIES Returns NoPipeStuck
