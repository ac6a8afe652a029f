SPECIFICATION Spec
CONSTANTS
  Count = 1
  Parallelism = 1
  AutoCreate = TRUE
  GivenClients = {TRUE, FALSE}
  AckHook = FALSE
  Attempts = 2
  MaxEntries = 2
  MaxTroubles = 2
INVARIANTS KeepsReading StoredIsAcknowledged AutoCreated
CHECK_DEADLOCK FALSE
