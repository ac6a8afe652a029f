SPECIFICATION Spec
CONSTANTS
  RowCount = 3
  BatchSize = 2
  Parallelism = 1
  RetryMaxAttempts = 1
  Reports <- Counts
  PreviewMode = FALSE
  CheckpointEnabled = FALSE
  ErrorThreshold = 1
INVARIANTS ThresholdAborts
