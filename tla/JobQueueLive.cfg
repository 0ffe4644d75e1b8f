CONSTANTS
  j1 = j1
  j2 = j2
  w1 = w1
  w2 = w2
  i1 = i1
  a1 = a1
  a2 = a2
  NoJob = NoJob
  Jobs = {j1, j2}
  Workers = {w1, w2}
  Mortal = {w1}
  InProcess = {j1}
  Unwritable = {j1, j2}
  Unreadable = {}
  Items = {i1}
  Agents = {a1, a2}
  Item <- ItemOf
  Agent <- AgentOf
  Created <- CreatedAt
  MaxRetries = 1
  Timeout = 1
  AbandonGrace = 1
  StaleGrace = 2
  Backoff = 1
  Retention = 1
  ClockMayJump = FALSE
SPECIFICATION FairSpec
PROPERTIES SweepFindsDeadWorker EveryJobSettles
