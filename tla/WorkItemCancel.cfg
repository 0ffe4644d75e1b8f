SPECIFICATION Spec
CONSTANTS
  a1 = a1
  a2 = a2
  s1 = s1
  Nobody = Nobody
  Agents <- MCAgents
  Assignees <- MCAssignees
  MaxJobs = 1
  Sessions <- NoSessions
  SessionAgent <- NoSessionAgent
  MaxRetries = 0
  Cap = 1
  MaxPr = 1
  MaxCalls = 1
  MaxFaults = 0
  MaxEvents = 1
PROPERTY CancelIsTerminal
CHECK_DEADLOCK FALSE
