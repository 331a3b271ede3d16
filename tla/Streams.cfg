SPECIFICATION Spec
CONSTANTS
  EarlyRetries = 1
  ShortRepeats = FALSE
  LateStalls = FALSE
  ChatCalls = 2
  ChatChunks = 3
  NativeBlocks = 2
  NativeChunks = 5
  NativeOddities = {}
  CustomTools = {1}
INVARIANTS
  
  
  ResponseFaithful
PROPERTIES
  KeepsContract
  EveryStreamEnds
\* A stream ends with its last event.
CHECK_DEADLOCK FALSE
