SPECIFICATION Spec
CONSTANTS
  Conn = {c1, c2}
  ClientId = {i1, i2}
  NoId = NoId
  Fault = {}
INVARIANT PendingReleased
