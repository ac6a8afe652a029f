SPECIFICATION Spec
CONSTANTS
  RowCount = 4
  BatchSize = 1
  Parallelism = 2
  RetryMaxAttempts = 0
  Reports <- Counts
  PreviewMode = TRUE
  CheckpointEnabled = FALSE
  ErrorThreshold = 1
INVARIANTS CompletedMeansAll
