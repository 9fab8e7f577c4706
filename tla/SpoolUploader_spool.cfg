SPECIFICATION FairSpec
CONSTANTS
  MaxRecords = 4
  MaxExport = 2
  BatchSize = 2
  Torn = TRUE
  MaxFaults = 2
CHECK_DEADLOCK FALSE
INVARIANTS
  TypeOK
  OffsetFollowsPro
  FirstCopiesInOrder
  NoNeedlessCopies
PROPERTIES
  RecordsArrive
