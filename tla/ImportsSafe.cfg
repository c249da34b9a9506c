\* Two threads that resolve two names at once, a libc of each kind, its file out
\* of reach once and back; and every small file for the rewrite.
\* An aborted process stops, so deadlock is no error here.
SPECIFICATION FairSpec
CONSTANTS
  t1 = t1
  t2 = t2
  Threads = {t1, t2}
  condInit = condInit
  condWait = condWait
  Names = {condInit, condWait}
  old = old
  new = new
  Versions = {old, new}
  None = None
  Worlds <- Libcs
  MaxFaults = 2
  Files <- SortedFiles
  Renames <- SomeRenames
  Nul = Nul
INVARIANTS TypeOK CallsReachDefault RewriteExact
PROPERTIES SlotsNeverChange EveryCallGetsThrough
CHECK_DEADLOCK FALSE
