SPECIFICATION Spec
CONSTANTS
  a1 = a1
  a2 = a2
  s1 = s1
  Nobody = Nobody
  Agents <- MCAgents
  Assignees <- MCAssignees
  MaxJobs = 2
  Sessions <- MCSessions
  SessionAgent <- MCSessionAgent
  MaxRetries = 0
  Cap = 2
  MaxPr = 1
  MaxCalls = 1
  MaxFaults = 1
  MaxEvents = 1
INVARIANTS
  TypeOK
  WorkersAreAlone
  ClaimHasKeeper
PROPERTIES
  LiveClaimIsKept
  ImplementsLife

CHECK_DEADLOCK FALSE
