SPECIFICATION SyncSpec
CONSTANTS
  MaxKey = 2
  BatchSize = 1
  Careful = TRUE
  Inlines = TRUE
  MaxClock = 2
  MaxDeletes = 1
  MaxSwitches = 2
INVARIANTS PassedOverBounded RunDelivers
CHECK_DEADLOCK FALSE
