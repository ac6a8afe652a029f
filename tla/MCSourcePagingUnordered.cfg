SPECIFICATION Spec
CONSTANTS
  MaxKey = 4
  BatchSize = 2
  Ordered = FALSE
  UserLimit = 0
  UserOffsets = {0}
  MaxInserts = 0
  MaxDeletes = 0
INVARIANTS AllData
CHECK_DEADLOCK FALSE
