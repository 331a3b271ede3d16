SPECIFICATION FairSpec
CONSTANTS
  N = 3
  OpSets = {{"stop", "early"}}
PROPERTIES
  QueueAdvances
\* The conversation may end: every message handled, no command pending.
CHECK_DEADLOCK FALSE
