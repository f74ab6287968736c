CONSTANTS
  Ids <- MCIds
  Specs <- MCSpecs
SPECIFICATION Spec
INVARIANT AcceptedHasOrder
INVARIANT RefusedHasCycle
INVARIANT RefusalIsUnforeseen
INVARIANT ContractIsFaithful
INVARIANT InputsReachNode
INVARIANT JobHonoursNode
CHECK_DEADLOCK FALSE
