SPECIFICATION Spec
CONSTANTS
  RowCount = 3
  BatchSize = 2
  Parallelism = 1
  RetryMaxAttempts = 2
  Reports <- Counts
  PreviewMode = FALSE
  CheckpointEnabled = TRUE
  ErrorThreshold = 1
INVARIANTS TypeOK InOrder Accounting CompletedMeansAll ProgressHonest PauseAdmitsOne LateWritesBounded
PROPERTIES ProgressMonotone ImplementsContract
