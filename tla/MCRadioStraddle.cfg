CONSTANTS
  Wrap = 12
  Guard = 2
  Recovery = 2
  JoinRetry = 2
  Backoff = 1
  Streak = 2
  MaxPause = 1
  Jitter = 1
SPECIFICATION Spec
INVARIANTS
  OldTimestampsAreUnused
