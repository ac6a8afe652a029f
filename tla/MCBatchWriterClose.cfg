SPECIFICATION Spec
CONSTANTS
  RowCount = 3
  BatchSize = 2
  CallSizes = {1, 2}
  MaxAttempts = 1
  WriteMode = "insert"
  MaxFailures = 0
INVARIANT CloseFlushes
CHECK_DEADLOCK FALSE
