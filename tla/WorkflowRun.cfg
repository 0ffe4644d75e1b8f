CONSTANTS
  a = a
  b = b
  c = c
  d = d
  g = g
  Steps = {a, b, c, d, g}
  DependsOn <- Graph
  DependsOnAny <- GraphAny
  FanOut = {a, b}
  Collect = {g}
  SkipOnError = {b}
  MaySkip = {d}
  Undoable = {c, d}
  NoStep = NoStep
  MaxAttempts = 2
  MaxCrashes = 2
  MaxPauses = 1
SPECIFICATION FairSpec
INVARIANTS TypeOK QuietWhenUndriven CompletedInFull NoFalseDeadlock
PROPERTIES NeverReexecuted UndoneInReverse ImplementsLife Settles
CHECK_DEADLOCK FALSE
