SPECIFICATION Spec
CONSTANTS
  j1 = j1
  j2 = j2
  j3 = j3
  Jobs <- MCJobs
  QueueMax = 2
  BatchMax = 2
  BudgetLimit = 4
  Charge <- MCCharge
  Actual <- MCActual
CHECK_DEADLOCK FALSE
INVARIANT CloseReportsUnfinished
