\* Two calls to the broker, one connection to the proxy or the upstream, two streams
\* of one correlation id with two publishers.  All of them end.
SPECIFICATION Spec
CONSTANTS
  c1 = c1
  c2 = c2
  k1 = k1
  s1 = s1
  s2 = s2
  p1 = p1
  p2 = p2
  Configs <- Files
  Calls <- TwoCalls
  Requests <- SomeRequests
  TTLs = {0, 1}
  DefaultTTL = 2
  ResolveTimeout = 1
  MaxTime = 3
  Conns <- OneConn
  Asks <- SomeAsks
  Elsewhere <- Outside
  MaxHops = 1
  Publishers <- TwoPublishers
  Streams <- TwoStreams
  CorrelationIds <- OneId
  BufferSize = 2
  ChannelSize = 1
  MaxEvents = 3
CHECK_DEADLOCK FALSE
INVARIANTS TypeOK ForwardedWasGranted DenialsAreEnforced RegisteredIsOpen InBufferOrder
PROPERTIES CallsEnd TunnelsEnd EventsArrive
