\* A constructor of a library the application dlopens makes a GL call.
SPECIFICATION FairSpec
CONSTANTS
  Threads = {t1, t2}
  Main = t1
  Lookers = {}
  Names = {glA}
  Resolver = Resolver
  Absent = Absent
  Own = Own
  Null = Null
  None = None
PROPERTIES LoadFinishes
CHECK_DEADLOCK FALSE
