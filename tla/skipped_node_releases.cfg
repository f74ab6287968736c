CONSTANTS
  Ceiling = 1
  N = 3
  Parents <- MCParents
  TimedNodes = {2}
  FailFast = TRUE
  MaxRestarts = 1
  MaxCancels = 1
SPECIFICATION Spec
PROPERTY SkippedReleasesNothing
CHECK_DEADLOCK FALSE
