\* The same requests without a clock.
SPECIFICATION Spec
CONSTANTS
  r1 = r1
  r2 = r2
  ada = ada
  Requests <- TwoRequests
  Clients <- OneClient
  BlockCommands <- Blocked
  RequireApproval <- Approval
  Scripts <- NoLines
  DefaultPolicy <- Default
  ServerPolicies <- Servers
  Messages <- SomeMessages
  Interception = TRUE
  Upstreams <- MixedUpstreams
  AuthConfig <- Open
  Credentials <- Token
  Rate = 1
  Window = 1
  MaxTime = 0
  MaxRestarts = 1
CHECK_DEADLOCK FALSE
INVARIANT GateDecides
