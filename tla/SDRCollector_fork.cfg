SPECIFICATION Spec
CONSTANTS
  c1 = c1  c2 = c2
  Callers <- TwoCallers
  QueueSize = 3
  BatchSize = 2
  FsyncInterval = 2
  DiskFaults = FALSE
  MaxRecords = 3
  MaxRestarts = 0
CHECK_DEADLOCK FALSE
INVARIANTS
  SpoolIsValidChain
