SPECIFICATION FairSpec
CONSTANTS
  N = 3
  Keys = {k1, k2}
INVARIANTS
  TypeOK
  QueueSound
  NoFutureLost
  OkIsShown
PROPERTIES
  EveryCallReturns
\* All calls are made and answered, or nobody answers them after a shutdown.
CHECK_DEADLOCK FALSE
