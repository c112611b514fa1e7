SPECIFICATION SpoolSpec
CONSTANTS
  r1 = r1
  r2 = r2
  r3 = r3
  w1 = w1
  w2 = w2
  AdmRecords <- MCRecords
  Writers <- MCWriters
  BatchOf <- MCBatchOf
  Size <- MCSize
  Receipt = 1
  MaxBytes = 4
  ReserveBytes = 1
  Reserved = {r3}
  Envelope = 1
  Migrating = TRUE
  a = a
  b = b
  p = p
  q = q
  Procs = {p, q}
  Records = {a, b}
  WriterOf <- OneWriter
  MaxFaults <- FewFaults
  MaxLosses <- FewLosses
SYMMETRY SymRecords
INVARIANT AdmissionTypeOK
INVARIANT SharedBound
INVARIANT ScanSeesEveryFile
INVARIANT RecordsTypeOK
INVARIANT WrittenSurvives
INVARIANT SettledAsDelivered
INVARIANT OncePerExcuse
INVARIANT CorruptIsUndelivered
CHECK_DEADLOCK FALSE
