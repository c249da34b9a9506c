CONSTANTS
  p = p
  q = q
  r = r
  None = None
  Procs = {p, q, r}
  Content <- Rewritings
  Whole = 2
  Crashes = TRUE
  FullDisk = TRUE
  Sweeps = TRUE
SPECIFICATION Spec
CHECK_DEADLOCK FALSE
INVARIANTS TypeOK NeverTorn OnlyUnfinishedRemain
SYMMETRY Symmetry
