SPECIFICATION LossSpec
SYMMETRY Sym
CONSTANTS
  InSegment = {0}
  Outside = {}
  Markers = {m1, m2}
  Sources = {}
  Children = {}
  MaxRanges = 1
  MaxMarkers = 1
  Flushes = {f1, f2}
INVARIANT FlushTrueMeansDelivered
CHECK_DEADLOCK FALSE
