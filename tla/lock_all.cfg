SPECIFICATION Spec
CONSTANTS
  Conn = {c1, c2}
  ClientId = {i1, i2}
  NoId = NoId
  Fault = {"refuse_lock", "refuse_unlock", "untyped_unlock", "sever", "lost_reply", "crash", "expire"}
SYMMETRY Symmetry
INVARIANTS TypeOK AssertionsHold
