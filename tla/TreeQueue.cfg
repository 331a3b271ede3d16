SPECIFICATION FairSpec
CONSTANTS
  N = 3
  OpSets = {{"clear_root", "clear_all", "restart"},
            {"stop_all", "restart"},
            {"stop", "clear_branch", "restart"},
            {"stop", "early"}}
INVARIANTS
  TypeOK
  QueueSafe
  RestartAgrees
  WorkersSound
  StoppedStaysStopped
  NoOrphan
PROPERTIES
  CompletedIsFinal
  NoOvertaking
  RemovedStaysRemoved
  TreeBecomesFree
\* The conversation may end: every message handled, no command pending.
CHECK_DEADLOCK FALSE
