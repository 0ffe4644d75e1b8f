SPECIFICATION FairSpec
CONSTANTS
  a1 = a1
  a2 = a2
  s1 = s1
  Nobody = Nobody
  Agents <- MCAgents
  Assignees <- MCAssignees
  MaxJobs = 4
  Sessions <- NoSessions
  SessionAgent <- NoSessionAgent
  MaxRetries = 1
  Cap = 1
  MaxPr = 1
  MaxCalls = 0
  MaxFaults = 1
  MaxEvents = 1
INVARIANT DispatchesAreBounded
PROPERTIES
  ReadyIsServed
  DispatchEnds
CHECK_DEADLOCK FALSE
