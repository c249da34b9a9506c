\* Safety of the lazy table, every interleaving of three threads, the
\* application's constructors drawing too.  That last case can stop for ever
\* (see GlFwdStuck.cfg), so deadlock is not an error here.
SPECIFICATION Spec
CONSTANTS
  Threads = {t1, t2, t3}
  Main = t1
  Lookers = {t1}
  Names = {glA, glB}
  Resolver = Resolver
  Absent = Absent
  Own = Own
  Null = Null
  None = None
SYMMETRY Symmetry
INVARIANTS TypeOK LoadInv CalledWithinResolved
PROPERTIES DlerrorTakenOnlyByLoad ImplementsLazyBinding
CHECK_DEADLOCK FALSE
