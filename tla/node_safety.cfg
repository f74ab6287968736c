CONSTANTS
  Ceiling = 2
  MaxAttempts = 2
  HasBindings = TRUE
  HasTimeout = TRUE
  Adapter = "contract"
  FlakyCalls = TRUE
  MaxRestarts = 2
  MaxCancels = 1
  MaxFaults = 0
SPECIFICATION Spec
INVARIANT TypeOK
INVARIANT AtMostOneExecution
INVARIANT SubmittedIsRecoverable
INVARIANT RealizationBounded
INVARIANT SucceededIsEarned
INVARIANT NoContradiction
INVARIANT StoppedIsAccounted
PROPERTY OutcomeIsFinal
PROPERTY ImplementsContract
CHECK_DEADLOCK FALSE
