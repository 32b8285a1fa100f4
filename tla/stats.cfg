SPECIFICATION Spec
CONSTANTS
  Instance = {i1, i2}
  HourLength = 2
  MemoryRetention = 1
  PendingLimit = 1
  MaxTime = 2
  MaxRecords = 2
  LastRecord = 1
  MaxUp = 1
  MaxGeneration = 2
  MaxFaults = 1
  NoBucket = NoBucket
  NoRow = NoRow
  NoEntry = NoEntry
SYMMETRY Symmetry
CHECK_DEADLOCK FALSE
INVARIANT TypeOK
INVARIANT CleanIsStored
INVARIANT CoveredIsStored
INVARIANT RolledIsExact
INVARIANT ReportExact
