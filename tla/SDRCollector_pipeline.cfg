SPECIFICATION FairSpec
CONSTANTS
  c1 = c1  c2 = c2
  Callers <- TwoCallers
  QueueSize = 2
  BatchSize = 2
  FsyncInterval = 2
  DiskFaults = TRUE
  MaxRecords = 3
  MaxRestarts = 1
CHECK_DEADLOCK FALSE
INVARIANTS
  TypeOK
  SpoolInOrder
  CloseExportsAll
  DiskLag
  EveryRecordIsAccounted
  ForksAreBounded
PROPERTIES
  CloseReturns
  RecordsAreExported
