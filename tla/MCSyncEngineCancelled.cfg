SPECIFICATION CancelledSpec
CONSTANTS
  RowCount = 2
  BatchSize = 1
  Parallelism = 1
  RetryMaxAttempts = 1
  Reports <- Buffered
  PreviewMode = FALSE
  CheckpointEnabled = FALSE
  ErrorThreshold = 1
INVARIANTS CancelledBeforeRun
