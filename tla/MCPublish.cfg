\* Two publishers race for one session, and try again until it settles.
CONSTANTS
  Procs = {p1, p2}
  Sessions = {s1}
  base = base
  ours = ours
  theirs = theirs
  safe = safe
  unsafe = unsafe
  NoCommit = NoCommit
  Commits <- MCCommits
  Ancestry <- MCAncestry
  Configs <- MCConfigs
  SafeConfigs <- MCSafe
  MaxFaults = 1
  MaxEnv = 1
SPECIFICATION FairQuietSpec
INVARIANTS SoleActor CasFenced CasOnce DefiniteErrorMovedNothing
PROPERTIES Promised ResumableSettles QuietNeverFences

