SPECIFICATION FairSpec
CONSTANTS
  NULL = NULL A = A B = B x = x y = y
  Libraries = {A, B}
  Paths = {1, 2, 3}
  LibOf <- MCLibOf
  InitialDisks <- MCInitialDisks
  Contents = {x, y}
  RowIds = {1, 2, 3, 4}
  JobIds = {1, 2}
  CheckpointEvery = 1
  RetryLimit = 1
  MaxChanges = 1
  MaxAges = 1
  MaxFaults = 1
INVARIANT IInv
PROPERTIES DeletesOnlyLongUnseen JobIsExact Converges
