SPECIFICATION Spec
CONSTANTS
  N = 2
  OpSets = {{"clear_all"}}
INVARIANTS
  ClearedIsNotStored
\* The conversation may end: every message handled, no command pending.
CHECK_DEADLOCK FALSE
