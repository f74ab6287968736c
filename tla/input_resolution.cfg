CONSTANTS
  Bindings <- MCBindings
  Answers <- MCAnswers
  Nodes <- MCNodes
  NoNode = ""
  SpecPlacement <- MCSelector
  HasQueue = FALSE
  Tries = 2
  Polls = 2
  MaxCycles = 2
  MaxRestarts = 1
SPECIFICATION FairSpec
INVARIANT SubmittedIsResolved
INVARIANT RequiredIsHonoured
INVARIANT CallsBounded
INVARIANT RetryableIsRetried
PROPERTY Terminates
CHECK_DEADLOCK FALSE
