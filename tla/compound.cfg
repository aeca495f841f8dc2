SPECIFICATION Spec
CONSTANTS
  W = 16777216
  Capacity = 24
  FhSize = 8
  RootLength = 8
  Path <- MCPath
  Data <- MCData
  Setting <- MCSetting
  ServerLimit = {40}
  Burst = {13}
  MaxCalls = 3
INVARIANTS IInv Understood NoOverrun InStep Answered ReplyTaken
PROPERTIES CallsReturn
CHECK_DEADLOCK FALSE
