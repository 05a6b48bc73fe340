\* A writer that comes first in the last window.
CONSTANTS
  Procs = {p1}
  Sessions = {s1}
  base = base
  ours = ours
  theirs = theirs
  safe = safe
  unsafe = unsafe
  NoCommit = NoCommit
  Commits <- MCCommits
  Ancestry <- MCAncestry
  Configs <- MCConfigs
  SafeConfigs <- MCSafe
  MaxFaults = 0
  MaxEnv = 1
SPECIFICATION QuietSpec
INVARIANT LostRaceCanRetry
