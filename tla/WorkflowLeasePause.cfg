CONSTANTS
  e1 = e1
  e2 = e2
  e3 = e3
  None = None
  Engines = {e1, e2}
  Slow = {}
  PidReused = {}
  TTL = 2
  Sleeps = FALSE
  Operators = {e1, e2}
  Racing = {}
  MaxLost = 0
SPECIFICATION Spec
PROPERTY PauseHolds
