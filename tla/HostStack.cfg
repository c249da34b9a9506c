\* One thread with every small host; two threads, the second before or after the
\* constructors, with what the driver list is made of; and every small tree of
\* conf files.
CONSTANTS
  t1 = t1
  t2 = t2
  Threads = {t1, t2}
  Main = t1
  None = None
  handoff = handoff
  conf = conf
  usual = usual
  usual2 = usual2
  mine = mine
  first = first
  second = second
  Dirs = {handoff, conf, usual, usual2, mine}
  SetLibs <- MCSetLibs
  HostDirs <- MCHostDirs
  VaDirs <- MCVaDirs
  Size <- MCSize
  Room = 4
  Worlds <- AllWorlds
  Root <- ConfRoot
  MaxDepth = 2
  Budget = 7
  MaxNames = 2
  NameSize = 4
  SuffixSize = 4
SPECIFICATION Spec
INVARIANTS TargetRight VaBeforeUse WalkNamesAll
PROPERTIES GlobalsFirst
