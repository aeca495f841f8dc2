SPECIFICATION Spec
CONSTANTS
  MaxCalls = 2
  MaxFaults = 2
  ServerCaches = FALSE
INVARIANT ReplayInSession
CHECK_DEADLOCK FALSE
