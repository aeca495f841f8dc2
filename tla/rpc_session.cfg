SPECIFICATION FairSpec
CONSTANTS
  MaxCalls = 3
  MaxFaults = 4
  ServerCaches = FALSE
INVARIANTS TypeOK IInv AtMostOnce OkMeansExecuted DelayedNotReported
PROPERTY CallsReturn
CHECK_DEADLOCK FALSE
