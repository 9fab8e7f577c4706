\* Two requests, one of any kind and one that is held, one operator who gets two
\* calls through in a window of one tick, one restart.  Requests end, and nothing has
\* to happen then.
SPECIFICATION BoundedSpec
CONSTANTS
  r1 = r1
  r2 = r2
  ada = ada
  Requests <- TwoRequests
  Clients <- OneClient
  BlockCommands <- Blocked
  RequireApproval <- Approval
  Scripts <- Lines
  DefaultPolicy <- Default
  ServerPolicies <- Servers
  Messages <- SomeMessages
  Interception = TRUE
  Upstreams <- MixedUpstreams
  AuthConfig <- Open
  Credentials <- Token
  Rate = 2
  Window = 1
  MaxTime = 4
  MaxRestarts = 1
CHECK_DEADLOCK FALSE
INVARIANTS TypeOK UpstreamWasCleared CallsAreCounted BurstIsBounded VerdictIsReported PolicySeesEveryCommand
PROPERTIES RequestsEnd
