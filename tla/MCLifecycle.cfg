SPECIFICATION Spec
CONSTANTS
  rpc = rpc
  get = get
  tls = tls
  ws = ws
  Requests <- MCRequests
  Target <- MCTarget
  Hijacked = {ws}
  Timeout = 5
  Pause = 3
INVARIANTS
  TypeOK
  PlainRequestsGetTheTimeout
PROPERTIES
  ClosesAfterThePause
  TwoSignalsExit
  ShutdownCompletes
  KeepsContract
\* The process may exit, and then nothing happens any more.
CHECK_DEADLOCK FALSE
