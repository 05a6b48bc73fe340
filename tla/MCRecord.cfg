\* Three transactions on one record.
CONSTANTS
  Txns = {t1, t2, t3}
  Origin = origin
  None = none
  Stages = 3
  MaxFaults = 1
SPECIFICATION Spec
INVARIANTS FinalWhole AckedDurable RecordKept
PROPERTY Implements
SYMMETRY Symmetry
