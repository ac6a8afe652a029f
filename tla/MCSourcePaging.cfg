SPECIFICATION Spec
CONSTANTS
  MaxKey = 7
  BatchSize = 2
  Ordered = TRUE
  UserLimit = 0
  UserOffsets = {0, 1}
  MaxInserts = 2
  MaxDeletes = 2
INVARIANTS MissesBounded RepeatsBounded
CHECK_DEADLOCK FALSE
