\* Every interleaving of two threads, whose constructors load too, so that two
\* locks can be crossed (LocksStuck.cfg): deadlock is not an error here.
CONSTANTS
  NoOne = NoOne
  Threads = {t1, t2}
  MaxLevel = 1
  Paths = {"p"}
  Files = {"x", "y"}
  BundledOnes = {"y"}
  TableMax = 1
  CtorsLoad = TRUE
SPECIFICATION FairSpec
CHECK_DEADLOCK FALSE
INVARIANTS TypeOK NoReentry VersionsSettled TableSound ReadsAreComplete
PROPERTIES AnswersNeverChange LoadsReturnUnlessCrossed
