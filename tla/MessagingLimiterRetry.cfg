SPECIFICATION Spec
CONSTANTS
  N = 2
  Keys = {k1, k2}
PROPERTIES
  MessageNeverGoesBack
\* All calls are made and answered, or nobody answers them after a shutdown.
CHECK_DEADLOCK FALSE
