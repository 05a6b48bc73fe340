\* One object, no faults: what gc counts on.
CONSTANTS
  Objects = {x}
  Fanouts = {f1}
  None = none
  MaxEnv = 4
  MaxFaults = 0
SPECIFICATION Spec
INVARIANT OwnSafe
