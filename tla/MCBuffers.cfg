CONSTANTS
  Slots = 4
  Reserved = 1
  Trace = 4
  MaxWrites = 6
  Wrap = 6
  Capacity = 2
  HistoryMs = 3
  FreshMs = 1
  MaxPause = 2
  MaxHold = 2
  MaxAppends = 3
SPECIFICATION BuffersSpec
INVARIANTS
  ReserveIsKept
  BegunLinesFinish
  RingHoldsTheLastHour
  WalksAreConsistent
PROPERTIES
  LogDrains
  ReadingsAreCovered
