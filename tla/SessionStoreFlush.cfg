SPECIFICATION Spec
CONSTANTS
  Timers = {t1, t2}
  MaxVersion = 2
INVARIANTS
  FlushIsDurable
\* The changes are bounded and the timers end.
CHECK_DEADLOCK FALSE
