\* Two objects in one fanout or in two.
CONSTANTS
  Objects = {x, y}
  Fanouts = {f1, f2}
  None = none
  MaxEnv = 4
  MaxFaults = 1
SPECIFICATION Spec
INVARIANTS OwnKept ReportedGone
SYMMETRY Symmetry
