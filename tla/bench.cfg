SPECIFICATION Spec
CONSTANTS
  MaxThreads = 3
  Config <- MCConfig
  MaxFaults = 1
INVARIANTS IInv OwnAnswer OwnClientsAnswer CountsOwn ResultsAfterJoin
PROPERTIES BenchEnds
CHECK_DEADLOCK FALSE
