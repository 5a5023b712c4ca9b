SPECIFICATION Spec
CONSTANTS
  rpc = rpc
  get = get
  tls = tls
  ws = ws
  Requests <- MCRequests
  Target <- MCTarget
  Hijacked = {ws}
  Timeout = 5
  Pause = 3
INVARIANT TimeoutBoundsShutdown
\* The process may exit, and then nothing happens any more.
CHECK_DEADLOCK FALSE
