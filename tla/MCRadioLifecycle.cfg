CONSTANTS
  Wrap = 14
  Guard = 1
  Recovery = 2
  JoinRetry = 2
  Backoff = 1
  Streak = 2
  MaxPause = 1
  Jitter = 1
SPECIFICATION FairSpec
INVARIANTS
  TimestampsAreSafe
  HardwareStreakIsReal
PROPERTIES
  RestsAreWhole
  RadioComesBack
