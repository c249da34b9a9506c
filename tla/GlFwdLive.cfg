\* Liveness, the application's constructors drawing too: what GlFwdStuck.cfg
\* shows is the only way to wait for ever.  And the assembly between a call and
\* the slot, which the steps above take to hand the call on as it was made.
SPECIFICATION FairSpec
CONSTANTS
  Threads = {t1, t2}
  Main = t1
  Lookers = {}
  Names = {glA}
  Resolver = Resolver
  Absent = Absent
  Own = Own
  Null = Null
  None = None
INVARIANTS CallsArriveIntact
PROPERTIES LoadFinishesUnlessCrossed CallsReturnUnlessCrossed
CHECK_DEADLOCK FALSE
