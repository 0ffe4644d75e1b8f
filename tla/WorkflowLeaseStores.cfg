CONSTANTS
  e1 = e1
  e2 = e2
  e3 = e3
  None = None
  Engines = {e1, e2}
  Slow = {}
  PidReused = {}
  TTL = 2
  Sleeps = TRUE
  Operators = {e1, e2}
  Racing = {"renew", "cancel"}
  MaxLost = 1
SPECIFICATION Spec
PROPERTY TerminalIsFinal
