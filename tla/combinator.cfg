SPECIFICATION CombFairSpec
CONSTANTS
  N <- MCN
  Kinds <- MCKinds
  Cancellable <- MCCancellable
INVARIANTS
  ResultTellsTheTruth
  OthersCancelled
PROPERTIES
  ResultSettles
CHECK_DEADLOCK FALSE
