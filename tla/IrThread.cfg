SPECIFICATION FairSpec
CONSTANTS
  cbStatus = cbStatus
  cbAlarm = cbAlarm
  dNone = dNone
  dAlarm = dAlarm
  Client = {c1, c2}
  MAX_THREADS = 1
  Data = {dNone, dAlarm}
  NULL = dNone
  Callback = {cbStatus, cbAlarm}
  SuspendOn <- MCSuspendOn
  NoOne = NoOne
  CreateFails = TRUE
  Spurious = TRUE
  KeepLate = TRUE
CHECK_DEADLOCK FALSE
INVARIANT SuspendQuiesces
PROPERTIES LiveSlotIsNotReused ResumeWakesParked StopOfParkedReturns
