SPECIFICATION FairSpec
CONSTANTS
  Requests = {r1, r2, r3}
  RateLimit = 2
  Window = 2
  MaxConcurrency = 2
  MaxRetries = 1
  MaxRuns = 2
  MaxDelay = 2
INVARIANTS
  TypeOK
  WindowBound
  SlotSound
PROPERTIES
  EveryRequestReturns
