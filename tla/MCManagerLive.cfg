CONSTANTS
  Commands <- AllCommands
  BadRequests = {1}
  Codes = {c1, c2}
  c1 = c1
  c2 = c2
  Settings <- MCSettings
  Valid <- MCValid
  Default <- MCDefault
  QueueSize = 1
  CacheSize = 1
  Window = 2
  StopTimeout = 1
  EraseLimit = 3
  None = None
SPECIFICATION FairSpec
INVARIANTS
  AcceptedSettingsHold
PROPERTIES
  ResetsEnd
