CONSTANTS
  Commands <- RestartCommands
  BadRequests = {}
  Codes = {c1, c2}
  c1 = c1
  c2 = c2
  Settings <- MCSettings
  Valid <- MCValid
  Default <- MCDefault
  QueueSize = 2
  CacheSize = 2
  Window = 1
  StopTimeout = 1
  EraseLimit = 2
  None = None
SPECIFICATION Spec
INVARIANTS
  QueuedChallengesAreCurrent
  AppliedOnce
  AppliedIsAnswered
PROPERTIES
  ConfirmationInTime
