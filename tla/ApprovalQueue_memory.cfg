SPECIFICATION FairSpec
CONSTANTS
  r1 = r1  r2 = r2  alice = alice  bob = bob
  Ids <- TwoRequests
  Operators <- TwoOperators
  Persistent = FALSE
  McpIds <- OneRequest
  StoreFaults = FALSE
  MaxCrashes = 0
PROPERTIES
  KeepsPromise
