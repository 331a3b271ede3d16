SPECIFICATION GatewaySpec
CONSTANTS
  Refs <- ModelRefs
  ChatProviders = {"nvidia_nim"}
  OtherProviders = {"open_router"}
  FreeRefs <- ModelFree
  ClaudeNames <- ModelClaudeNames
  Discovered <- ModelDiscovered
  NeverThink <- ModelNeverThink
  Prompts <- ModelPrompts
  MaxBlocks = 5
  MaxMessages = 3
  MaxOdd = 1
  MaxItems = 3
  ToolNames <- ModelToolNames
  Namespaces <- ModelNamespaces
  Cleaned <- ModelCleaned
  MaxTools = 2
  Hosts = {"here", "there", "inside"}
  Permitted = {"here", "there"}
  MaxRedirects = 2
  MaxBytes = 3
  MaxEvents = 5
  MaxTasks = 2
  Limit = 4
  TailMax = 2
  UsageRefs <- ModelUsage
  UsageTokens = {2}
  MaxRecords = 2
  BucketCount = 2
  RecentCap = 2
  ByModelCap = 1
  Ranges = {2, 3}
  MaxClock = 3
  MaxRequests = 3
INVARIANTS  AnswersSound  MainTold TurnShown
\* A request is answered, a stream ends, a turn is over.
CHECK_DEADLOCK FALSE
