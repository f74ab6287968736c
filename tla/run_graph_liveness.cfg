CONSTANTS
  Ceiling = 2
  N = 2
  Parents <- MCChain
  TimedNodes = {1}
  FailFast = FALSE
  MaxRestarts = 1
  MaxCancels = 1
SPECIFICATION FairSpec
PROPERTY RunSettles
PROPERTY NodesSettle
CHECK_DEADLOCK FALSE
