CONSTANTS
  Wrap = 11
  Guard = 1
  Recovery = 2
  JoinRetry = 2
  Backoff = 1
  Streak = 2
  MaxPause = 2
  Jitter = 1
SPECIFICATION Spec
INVARIANTS
  CooldownIsObserved
