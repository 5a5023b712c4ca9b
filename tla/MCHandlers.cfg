SPECIFICATION MCSpec
CONSTANTS
  MaxMessages = 5
  Backends = {b1, b2}
  CacheRequests = {q}
  Setter = setter
  MaxIdle = 1
  MaxRestarts = 1
INVARIANTS
  HandlerTypes
  NoSendOnClosedChannel
  EchoesAccountedFor
  NullsOnlyAtTheEnd
  CallsAreIsolated
PROPERTIES
  SessionEnds
  FanOutCompletes
  CacheRecovers
\* A session that ended, or one that leaked, does nothing more; so does a request.
CHECK_DEADLOCK FALSE
