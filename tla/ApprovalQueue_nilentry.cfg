SPECIFICATION Spec
CONSTANTS
  r1 = r1  r2 = r2  alice = alice  bob = bob
  Ids <- OneRequest
  Operators <- OneOperator
  Persistent = TRUE
  McpIds <- Nobody
  StoreFaults = FALSE
  MaxCrashes = 1
INVARIANTS
  CallsReturn
