\* Creates and gcs of one template, on macOS: safe, and unfinished work is finished.
CONSTANTS
  Procs = {p1, p2}
  Keys = {k1}
  Dirs = {d1, d2}
  Sessions = {s1, s2}
  NoProc = NoProc
  NoKey = NoKey
  NoDir = NoDir
  Unseals = TRUE
  MaxFaults = 2
SPECIFICATION FairSpec
INVARIANTS SessionTemplateWhole RecordDescribesTree
PROPERTIES Promised GcOkMeansClean ResumableSettles GcReclaims
\* Leftovers of killed processes keep their identifiers.
CHECK_DEADLOCK FALSE
