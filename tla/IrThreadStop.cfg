SPECIFICATION FairSpec
CONSTANTS
  cbStatus = cbStatus
  cbAlarm = cbAlarm
  dNone = dNone
  dAlarm = dAlarm
  Client = {c1}
  MAX_THREADS = 1
  Data = {dNone, dAlarm}
  NULL = dNone
  Callback = {cbStatus, cbAlarm}
  SuspendOn <- MCNeverSuspends
  NoOne = NoOne
  CreateFails = FALSE
  Spurious = FALSE
  KeepLate = TRUE
CHECK_DEADLOCK FALSE
PROPERTY StopReturns
