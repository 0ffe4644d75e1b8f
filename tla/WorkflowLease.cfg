CONSTANTS
  e1 = e1
  e2 = e2
  e3 = e3
  None = None
  Engines = {e1, e2}
  Slow = {e1}
  PidReused = {e2}
  TTL = 2
  Sleeps = TRUE
  Operators = {e1}
  Racing = {"take", "renew", "cancel"}
  MaxLost = 1
SPECIFICATION FairSpec
INVARIANTS TypeOK AnnouncedOnce DriverHoldsLease
PROPERTIES ImplementsRegistry DriverObeys NotStranded
