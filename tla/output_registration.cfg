CONSTANTS
  Outputs <- MCOutputs
  Manifests <- MCManifests
  NoManifest <- MCNoManifest
  MaxPods = 2
  MaxRestarts = 1
  MaxFaults = 1
SPECIFICATION FairSpec
INVARIANT ToldIsRegistered
INVARIANT SucceededIsComplete
INVARIANT SuccessIsPreferred
INVARIANT RegisteredIsUsable
INVARIANT FreshIsOwn
PROPERTY CompletedIsFrozen
PROPERTY ReportedIsStored
CHECK_DEADLOCK FALSE
