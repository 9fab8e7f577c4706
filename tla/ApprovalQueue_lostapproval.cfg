SPECIFICATION Spec
CONSTANTS
  r1 = r1  r2 = r2  alice = alice  bob = bob
  Ids <- OneRequest
  Operators <- OneOperator
  Persistent = FALSE
  McpIds <- Nobody
  StoreFaults = FALSE
  MaxCrashes = 0
INVARIANTS
  ExpiredIsLate
