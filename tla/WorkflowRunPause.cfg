CONSTANTS
  a = a
  b = b
  c = c
  d = d
  g = g
  Steps = {a, b, g}
  DependsOn <- Group
  DependsOnAny <- NoAny
  FanOut = {a, b}
  Collect = {g}
  SkipOnError = {}
  MaySkip = {}
  Undoable = {}
  NoStep = NoStep
  MaxAttempts = 1
  MaxCrashes = 0
  MaxPauses = 1
SPECIFICATION Spec
INVARIANT FailsForCause
CHECK_DEADLOCK FALSE
