SPECIFICATION FairSpec
CONSTANTS
  Count = 1
  Parallelism = 1
  AutoCreate = TRUE
  GivenClients = {TRUE, FALSE}
  AckHook = TRUE
  Attempts = 2
  MaxEntries = 4
  MaxTroubles = 2
INVARIANTS SettledOrPending StrandedBounded RepeatsHaveCause
PROPERTIES InStreamOrder StopEndsBoth
CHECK_DEADLOCK FALSE
