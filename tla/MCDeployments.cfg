SPECIFICATION MCSpec
CONSTANTS
  Jobs = {j1, j2, j3}
  Images = {good, bad}
  NoJob = NoJob
  Base = good
  Healthy = {good}
  MaxAttempts = 2
INVARIANTS
  DeploymentTypes
  NeverShiftsBack
  AloneDeploysItsImage
  PassedRunsTheBundle
PROPERTY JobsEnd
CHECK_DEADLOCK FALSE
