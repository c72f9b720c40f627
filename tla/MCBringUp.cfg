CONSTANTS
  Sub = 2
  Nominal = 5
  Rates = {2, 5, 8}
  Tolerance = 20
  Parts = 100
  Window = 6
  WindowMax = 7
  RtcWrap = 12
  StimerWrap = 128
  SpanLimit = 5
  Reads = 2
  Attempts = 2
  Polls = 14
  PollTicks = 66
  Pauses = {1, 3}
  MaxPauses = 3
  Starts <- StartValues
  MaxInit = 3
SPECIFICATION FairSpec
INVARIANTS
  VerifiedIsAccurate
  PinServesBothUses
PROPERTIES
  BringUpEnds
