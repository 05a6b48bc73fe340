\* Three calls, two paths, two repositories.
CONSTANTS
  Procs = {p1, p2, p3}
  Paths = {a1, a2}
  Nodes = {n1, n2}
  None = none
  MaxMoves = 2
  MaxFaults = 2
SPECIFICATION Spec
INVARIANTS OneRecordPerRepository AckedDurable
 
SYMMETRY Symmetry
