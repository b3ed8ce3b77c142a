SPECIFICATION SystemFairSpec
CONSTANTS
  Pin = {p1, p2}
  None = None
  OpenFails = TRUE
  CreateFails = TRUE
  Rev = {1, 2}
  InitFails = TRUE
CHECK_DEADLOCK FALSE
INVARIANTS HandlerHasItsPin OutputsOff
PROPERTIES EdgeIsServed IsrReturns
