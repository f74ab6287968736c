CONSTANTS
  Ceiling = 2
  MaxAttempts = 2
  HasBindings = TRUE
  HasTimeout = FALSE
  Adapter = "contract"
  FlakyCalls = TRUE
  MaxRestarts = 1
  MaxCancels = 1
  MaxFaults = 1
SPECIFICATION Spec
INVARIANT AtMostOneExecution
CHECK_DEADLOCK FALSE
