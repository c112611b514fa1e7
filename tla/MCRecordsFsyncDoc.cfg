SPECIFICATION RecordsSpec
CONSTANTS
  a = a
  b = b
  p = p
  q = q
  Procs = {p, q}
  Records = {a, b}
  WriterOf <- OneWriter
  MaxFaults <- NoFaults
  MaxLosses <- NoFaults
SYMMETRY SymRecords
INVARIANT NeverBothSpanAndLoss
CHECK_DEADLOCK FALSE
