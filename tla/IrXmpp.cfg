SPECIFICATION FairSpec
CONSTANTS
  Modes <- MCModes
  Options <- MCOptions
  CreateFails = TRUE
  Spurious = TRUE
  MaxLeft = 1
CHECK_DEADLOCK FALSE
INVARIANTS StartsConnected StopIsNotUndone SendsDoNotMix ConfigIsSnapshot
PROPERTIES StopEnds StartEnds HupReturns
