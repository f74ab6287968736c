CONSTANTS
  Ceiling = 2
  MaxAttempts = 2
  HasBindings = FALSE
  HasTimeout = FALSE
  Adapter = "k8s"
  FlakyCalls = FALSE
  MaxRestarts = 0
  MaxCancels = 0
  MaxFaults = 0
SPECIFICATION FairSpec
PROPERTY FailureSettles
CHECK_DEADLOCK FALSE
