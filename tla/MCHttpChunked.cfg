SPECIFICATION MCSpec
CONSTANTS
  r1 = r1
  r2 = r2
  Requests = {r1}
  Waits = {0}
  ServerTimeouts = {30}
  DelayBounds <- SomeDelays
  Uris = {"/delay/1"}
  CacheRequests = {r1}
  Setter = setter
  MaxIdle = 1
  MaxRestarts = 0
  Uploads = {u1}
  Downloads = {d1}
  Size = 1
  Starts = {0}
  MaxTime = 1
INVARIANT ChunkedStartsAtOnce
CHECK_DEADLOCK FALSE
