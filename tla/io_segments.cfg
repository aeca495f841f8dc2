SPECIFICATION FairSpec
CONSTANTS
  Conn = {c1}
  Size = 5
  ChunkSize = 2
  MaxWrites = 2
  MaxSeqid = 3
  Fault = {"fail", "expire"}
INVARIANTS WrittenPrefix
PROPERTY CallsReturn
CHECK_DEADLOCK FALSE
