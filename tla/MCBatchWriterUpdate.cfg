SPECIFICATION Spec
CONSTANTS
  RowCount = 3
  BatchSize = 2
  CallSizes = {1, 2}
  MaxAttempts = 1
  WriteMode = "update"
  MaxFailures = 0
INVARIANT UpdateOnlyUpdates
CHECK_DEADLOCK FALSE
