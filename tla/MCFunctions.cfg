CONSTANTS
  Requests <- RequestValues
  Samples <- SampleValues
  Statuses <- StatusValues
  Records <- RecordValues
  Metrics = {1, 2}
  Floors <- FloorValues
  BinCount = 8
  BinMs = 4
  BinSamples = 16
  Learn = 3
  FreshMs = 2
  AvailabilitySamples = 3
  AvailabilitySpan = 2
  AvailabilityWindow = 6
  Shift = 1024
  Studies <- StudyValues
SPECIFICATION Spec
INVARIANTS
  UplinksAreUnderstood
  OnlySustainedChangesCount
PROPERTIES
  DownlinksAreUnderstood
  ReadinessIsDebounced
