CONSTANTS
  Ceiling = 2
  MaxAttempts = 2
  HasBindings = TRUE
  HasTimeout = FALSE
  Adapter = "contract"
  FlakyCalls = FALSE
  MaxRestarts = 1
  MaxCancels = 1
  MaxFaults = 1
SPECIFICATION FairSpec
PROPERTY Quiesces
PROPERTY FailureSettles
PROPERTY AttemptOutcomeIsFinal
CHECK_DEADLOCK FALSE
