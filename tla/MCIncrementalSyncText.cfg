SPECIFICATION SyncSpec
CONSTANTS
  MaxKey = 2
  BatchSize = 1
  Careful = FALSE
  Inlines = FALSE
  MaxClock = 2
  MaxDeletes = 1
  MaxSwitches = 2
INVARIANTS MarkedRunsRead SwitchedRunsDeliver
CHECK_DEADLOCK FALSE
