CONSTANTS
  DataSlots = 2
  SeqSpan = 48
  MaxValue = 4
  MaxResets = 1
  Starts <- MCStarts
  Erased = Erased
  Torn = Torn
  None = None
  Refused = Refused
SPECIFICATION Spec
INVARIANTS
  MirrorMatchesFlash
PROPERTIES
  StalePageInterruptionRecovers
  RegisterSpec
