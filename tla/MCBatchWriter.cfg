SPECIFICATION Spec
CONSTANTS
  RowCount = 6
  BatchSize = 3
  CallSizes = {1, 2, 4}
  MaxAttempts = 2
  WriteMode = "insert"
  MaxFailures = 3
INVARIANTS TypeOK StoredOnce LossBounded DuplicatesBounded ReportHonest
CHECK_DEADLOCK FALSE
