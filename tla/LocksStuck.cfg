CONSTANTS
  NoOne = NoOne
  Threads = {t1, t2}
  MaxLevel = 1
  Paths = {"p"}
  Files = {"x"}
  BundledOnes = {}
  TableMax = 1
  CtorsLoad = TRUE
SPECIFICATION FairSpec
PROPERTIES EveryLoadReturns
CHECK_DEADLOCK FALSE
