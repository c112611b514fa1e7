SPECIFICATION ForkSpec
CONSTANTS
  Forkers = {f1}
  Hosts = {h1, h2}
  MaxForks = 3
  Slots = 2
  MaxAlloc = 2
  Active = TRUE
  MaxBranches = 1
CHECK_DEADLOCK FALSE
INVARIANT NoHalfDoneAllocation
