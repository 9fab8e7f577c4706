SPECIFICATION FairSpec
CONSTANTS
  r1 = r1  r2 = r2  alice = alice  bob = bob
  Ids <- OneRequest
  Operators <- TwoOperators
  Persistent = TRUE
  McpIds <- OneRequest
  StoreFaults = TRUE
  MaxCrashes = 1
INVARIANTS
  TypeOK
  ApprovedWasAsked
  NoOrphanedWaiter
  ListedIsUndecided
  AuditMatchesRow
PROPERTIES
  RowIsFinal
  OneVerdictPerChannel
  KeepsPromise
  HandlersReturn
  EntriesLeave
  RowsResolve
