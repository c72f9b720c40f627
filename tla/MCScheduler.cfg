CONSTANTS
  Base = 2
  Longest = 3
  RetryMax = 2
  Minutes = {1, 3}
  Long = 1
  MaxReplies = 1
SPECIFICATION FairSpec
INVARIANTS
  FirstReportIsComplete
  FixedSlotsAreKept
  IntervalFollowsTime
PROPERTIES
  ReportsAreAttempted
