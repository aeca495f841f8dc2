SPECIFICATION Spec
CONSTANTS
  Conn = {c1, c2, c3}
  ClientId = {i1, i2, i3}
  NoId = NoId
  Fault = {"refuse_lock", "untyped_unlock"}
SYMMETRY Symmetry
INVARIANTS MutualExclusion SingleWriter
PROPERTY PendingBarsReaders
