SPECIFICATION Spec
CONSTANTS
  Conn = {c1, c2}
  Size = 3
  ChunkSize = 2
  MaxWrites = 1
  MaxSeqid = 3
  Fault = {"fail", "late", "expire"}
SYMMETRY Symmetry
INVARIANTS TypeOK IInv ReadsCurrent
PROPERTY WritesUnderLock
CHECK_DEADLOCK FALSE
