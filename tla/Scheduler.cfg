SPECIFICATION FairSpec
CONSTANTS
  Manual = {m1}
  Intervals <- MCIntervals
  Grace = 1
  Delay = 1
  Overlap = "skip"
  Horizon = 3
  MaxFaults = 1
  MaxEvents = 1
  MaxCalls = 1
  FireEnabled = FALSE
INVARIANTS
  TypeOK
  OutcomeIsTheRuns
  NoRunOverlap
  NextSlotIsFree
PROPERTIES
  NeverRestarted
  ImplementsLife
  OccurrencesSettle
