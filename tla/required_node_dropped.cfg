CONSTANTS
  Ids <- MCIds
  Specs <- MCPlaced
SPECIFICATION Spec
INVARIANT RequiredNameReachesJob
CHECK_DEADLOCK FALSE
