SPECIFICATION MCSpec
CONSTANTS
  r1 = r1
  r2 = r2
  Requests = {r1, r2}
  Waits = {1, 9223373}
  ServerTimeouts = {5, 30}
  DelayBounds <- SomeDelays
  Uris = {"/delay/1", "/echo/a"}
  CacheRequests = {r1, r2}
  Setter = setter
  MaxIdle = 2
  MaxRestarts = 1
  Uploads = {u1, u2}
  Downloads = {d1}
  Size = 2
  Starts = {0, 1}
  MaxTime = 124
SYMMETRY Symmetric
INVARIANTS
  HttpTypes
  MetricTellsTheTruth
  CountedOnce
  OnlyKnownPanics
  DocumentedOperationsReachTheirHandler
  
  ConnectionsAccountedFor
  VersionKeyStays
  DownloadsAreWhole
PROPERTIES
  TokensLastAMinute
  ServesAtomically
\* Requests end, and time and restarts are bounded.
CHECK_DEADLOCK FALSE
