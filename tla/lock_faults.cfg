SPECIFICATION Spec
CONSTANTS
  Conn = {c1, c2}
  ClientId = {i1, i2, i3}
  NoId = NoId
  Fault = {"refuse_lock", "sever", "crash", "expire"}
SYMMETRY Symmetry
INVARIANTS IInv Honest NoOrphanLock
PROPERTY Implements
