CONSTANTS
  a = a
  b = b
  c = c
  d = d
  d1 = d1
  d2 = d2
  None = None
  Libs = {a, b, c, d}
  Worlds <- AllWorlds
  MaxDepth = 4
  CacheMax = 1
  TableMax = 4
SPECIFICATION FairSpec
INVARIANTS LoadSucceeds NoSecondLibcWhenBenign OneImage
  TypeOK ChainDistinct FailureExplained
PROPERTIES BundledWins StrippedOnlyForCause EveryDlopenReturns
