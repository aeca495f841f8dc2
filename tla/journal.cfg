SPECIFICATION Spec
CONSTANTS
  Conn = {c1, c2}
  Page = {p1, p2}
  MaxTx = 2
  Fault = {"io", "access", "remove", "late", "crash", "expire", "grow"}
SYMMETRY Symmetry
INVARIANTS TypeOK IInv ReadsWhole Durable
PROPERTIES Atomic JournalUnderLock
