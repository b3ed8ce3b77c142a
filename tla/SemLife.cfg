SPECIFICATION FairSpec
CONSTANTS
  MaxCtl = 2
  MaxStarts = 2
CHECK_DEADLOCK FALSE
INVARIANTS CycleIsExclusive CleanStopLeavesNothing NoBroadcast ObjectsAreSeparate
PROPERTY LoopGoesOn
