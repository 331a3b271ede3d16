SPECIFICATION FairSpec
CONSTANTS
  Timers = {t1, t2, t3}
  MaxVersion = 4
INVARIANTS
  TypeOK
  CleanIsHanded
  DirtyHasTimer
PROPERTIES
  FileAdvances
  FileCatchesUp
\* The changes are bounded and the timers end.
CHECK_DEADLOCK FALSE
