SPECIFICATION FairSpec
CONSTANTS
  c1 = c1
  c2 = c2
  v1 = v1
  v2 = v2
  p1 = p1
  Client <- TwoClients
  Table <- Tables
  Value <- Values
  SyncProgress <- Reports
  Blank = Blank
  Forbidden <- Bad
  IOErrors = TRUE
  Nothing = Nothing
  Broken = Broken
  Pending = Pending
PROPERTIES ImplementsStore LoadFailsForCause CallsReturn
