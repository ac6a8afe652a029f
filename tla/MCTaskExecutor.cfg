SPECIFICATION Spec
CONSTANTS
  RowCount = 3
  PageSize = 2
  None = None
  Files <- TaskFiles
INVARIANTS CompletedIsTrue ReturnedIsFinal DoesAsTold WaysAgree
CHECK_DEADLOCK FALSE
