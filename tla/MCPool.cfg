\* Six entries, three workers, channels of two.
CONSTANTS
  N = 6
  W = 3
  Depth = 2
  MaxFaults = 2
SPECIFICATION FairSpec
INVARIANTS SuccessIsComplete NoStraggler Accounted
PROPERTY Returns
