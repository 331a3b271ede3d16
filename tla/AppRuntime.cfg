SPECIFICATION Spec
CONSTANTS
  Runs = {1, 2}
  Events = 1
  Providers = {p, q}
  Applies = {1, 2}
  Requests = {r}
  Good = {1, 2}
  Notes = {n, m}
  AdminApplies = 1
  Kinds = {"telegram", "discord"}
  Lives = 2
  Parts = {"sessions", "providers", "health", "voice", "admin", "platform", "delivery"}
INVARIANTS
  
  RuntimesSound
  
  PlatformSound
PROPERTIES
  
  Settles
\* Runs, requests and notes are bounded and the server exits.
CHECK_DEADLOCK FALSE
