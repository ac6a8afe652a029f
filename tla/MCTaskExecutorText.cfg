SPECIFICATION Spec
CONSTANTS
  RowCount = 3
  PageSize = 2
  None = None
  Files <- FewFiles
INVARIANTS FailureHasError StopIsHeard IncrementHeeded
CHECK_DEADLOCK FALSE
