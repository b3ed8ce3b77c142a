SPECIFICATION FairOutSpec
CONSTANTS
  Main = Main
  Client = {Main}
  MAX_THREADS = 2
  Data = {"NONE", "PREACTIVE", "ACTIVE"}
  NULL = "NONE"
  Callback = {"status_led", "alarm_thread"}
  SuspendOn <- MCSuspendOn
  NoOne = NoOne
  CreateFails = FALSE
  Spurious = TRUE
  KeepLate = FALSE
CHECK_DEADLOCK FALSE
INVARIANT AllLowAtExit
PROPERTIES SilentAfterClear StatusBlinks
