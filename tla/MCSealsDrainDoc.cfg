SPECIFICATION SealSpec
CONSTANTS
  Segments = {"s1", "s2"}
  NoSegment = NoSegment
  Positions = {"p1"}
  SealEntries = {record}
  Unsettled = Unsettled
  ForcedAt = 2
  MaxPending = 1
  MaxPositions = 1
  MaxReclaim = 1
  MaxReclaimSegs = 1
  Drainers = {"d1", "d2"}
  Unbounded = {"d1"}
  StartFails = FALSE
INVARIANT DrainTrueMeansQueued
CHECK_DEADLOCK FALSE
