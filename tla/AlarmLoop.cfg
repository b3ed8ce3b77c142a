SPECIFICATION FairSpec
CONSTANTS
  Conf <- MCConf
  DefConf <- MCDefConf
  SIZE = 5
  MaxFlanks = 2
  GRACE = 2
  BACK = 1
  Stored = {"NONE", "PREACTIVE", "ACTIVE", "OTHER"}
PROPERTIES
  NoFalseAlarm NoEarlyClear NoSkippedWarning
  InterruptedBarrierAlarms ClosedBarrierClears WarningEnds
