SPECIFICATION Spec
CONSTANTS
  MaxKey = 5
  BatchSize = 2
  Ordered = TRUE
  UserLimit = 1
  UserOffsets = {0}
  MaxInserts = 0
  MaxDeletes = 0
INVARIANTS AsQueried
CHECK_DEADLOCK FALSE
