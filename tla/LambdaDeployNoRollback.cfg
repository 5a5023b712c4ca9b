SPECIFICATION Spec
CONSTANTS
  Jobs = {j1, j2}
  Images = {base, good, bad}
  NoJob = NoJob
  Base = base
  Healthy = {base, good}
  MaxAttempts = 2
PROPERTY FailedVersionWithdrawn
CHECK_DEADLOCK FALSE
