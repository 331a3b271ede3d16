SPECIFICATION Spec
CONSTANTS
  N = 2
  OpSets = {{}}
PROPERTIES
  FailedIsNotCompleted
\* The conversation may end: every message handled, no command pending.
CHECK_DEADLOCK FALSE
