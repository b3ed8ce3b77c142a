SPECIFICATION Spec
CONSTANTS
  MaxCtl = 2
  MaxStarts = 2
CHECK_DEADLOCK FALSE
INVARIANT SighupIsForDaemon
