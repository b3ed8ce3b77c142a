SPECIFICATION FairCycleSpec
CONSTANTS
  Conf <- MCConf
  DefConf <- MCDefConf
  SIZE = 3
  MaxFlanks = 2
  GRACE = 0
  BACK = 0
  Stored = {"ACTIVE"}
  Daemon = Daemon
  MaxRuns = 2
INVARIANT SemIsConserved
PROPERTIES ImplementsAlarmLoop DeliveredSetTakesEffect CyclesGoOn
