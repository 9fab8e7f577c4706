SPECIFICATION Spec
CONSTANTS
  MaxRecords = 3
  MaxExport = 2
  BatchSize = 2
  Torn = TRUE
  MaxFaults = 0
CHECK_DEADLOCK FALSE
INVARIANTS
  LogIsExported
