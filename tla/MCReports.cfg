SPECIFICATION ReportsSpec
CONSTANTS
  m1 = m1
  m2 = m2
  m3 = m3
  src = src
  child = child
  InSegment = {0, 1, 2}
  Outside = {5}
  Markers = {m1, m2, m3}
  Sources = {src}
  Children = {child}
  MaxRanges = 2
  MaxMarkers = 2
  Flushes = {f1}
  Segments = {"s1", "s2", "s3"}
  NoSegment = NoSegment
  Positions = {"p1", "p2"}
  SealEntries = {record, loss}
  Unsettled = Unsettled
  ForcedAt = 2
  MaxPending = 2
  MaxPositions = 1
  MaxReclaim = 1
  MaxReclaimSegs = 1
  Drainers = {"d1", "d2"}
  Unbounded = {"d1"}
  StartFails = TRUE
INVARIANT LossTypeOK
INVARIANT RangesExact
INVARIANT MarkersInOrder
INVARIANT FlushCoversEarlier
INVARIANT SealTypeOK
INVARIANT SealCoversSegment
INVARIANT InHandOffOrder
INVARIANT SealsBounded
INVARIANT DrainIsHonest
PROPERTY RecordedGetsEmitted
PROPERTY SealEventuallyBuilt
CHECK_DEADLOCK FALSE
