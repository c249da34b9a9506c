CONSTANTS
  x = x
  y = y
  d1 = d1
  d2 = d2
  None = None
  Launches = {l1, l2}
  RuntimeSet <- MCRuntimeSet
  Worlds <- NewerLoader
  Options <- Asks
SPECIFICATION Spec
CHECK_DEADLOCK FALSE
INVARIANT PlannedSetLoads

