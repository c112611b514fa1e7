SPECIFICATION CSpec
SYMMETRY Sym
CONSTANTS
  Jobs = {j1, j2}
  QueueMax = 1
  BatchMax = 2
  BudgetLimit = 1
  Charge <- NoCharge
  Actual <- NoCharge
  Segments = {s1, s2}
  NoSegment = NoSegment
  Unsettled = Unsettled
  ForcedAt = 3
  MaxPending = 1
  MaxPositions = 2
  MaxReclaim = 2
  MaxReclaimSegs = 1
  Drainers = {"close"}
  Unbounded = {}
  StartFails = TRUE
CHECK_DEADLOCK FALSE
INVARIANT CloseTrueMeansSealed
