SPECIFICATION ProcessSpec
CONSTANTS
  j1 = j1
  j2 = j2
  j3 = j3
  Jobs <- MCJobs
  QueueMax = 2
  BatchMax = 2
  BudgetLimit = 4
  Charge <- MCCharge
  Actual <- MCActual
  Forkers = {f1}
  Hosts = {h1, h2}
  MaxForks = 3
  Slots = 2
  MaxAlloc = 2
  Active = TRUE
  MaxBranches = 1
  Own = {a}
  Foreign = {b}
  MaxReceipts = 1
  MaxErrors = 1
INVARIANT TypeOK
INVARIANT OneOutcome
INVARIANT NoSilentDrop
INVARIANT PendingExact
INVARIANT CleanCloseIsClean
INVARIANT BudgetExact
INVARIANT ForkTypeOK
INVARIANT LockReleased
INVARIANT ContinuedForkIsDeclared
INVARIANT LedgerTypeOK
INVARIANT NeverUncharged
INVARIANT NeverChargedTwice
PROPERTY AcceptedGetsOutcome
PROPERTY CloseStopsWorker
PROPERTY ChildEventuallyReported
PROPERTY LedgerConverges
CHECK_DEADLOCK FALSE
