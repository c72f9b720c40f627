CONSTANTS
  SaveEvery = 2
  MaxExports = 4
  Wrap = 9
  Interval = 2
  Conversion = 1
  Grace = 1
  Rest = 4
  MaxPause = 3
SPECIFICATION ServiceSpec
INVARIANTS
  NewestExportIsKept
  ErasedIsEmpty
  RawReadingsAreTimely
PROPERTIES
  CalibrationIsSaved
  AcquisitionGoesOn
