SPECIFICATION FairSpec
CONSTANTS
  RowCount = 2
  BatchSize = 1
  Parallelism = 1
  RetryMaxAttempts = 2
  Reports <- Buffered
  PreviewMode = FALSE
  CheckpointEnabled = FALSE
  ErrorThreshold = 1
PROPERTIES CancelEndsRun ReaderExits RunEnds
