SPECIFICATION PodcliSpec
CONSTANTS
  MaxRetries = 4
  MaxLines = 2
  MaxFrames = 2
INVARIANTS
  CommandTypes
  CheckVerdict
  ConnectionsHeld
  SessionVerdict
PROPERTY CommandsEnd
CHECK_DEADLOCK FALSE
