CONSTANTS
  c1 = c1
  c2 = c2
  m1 = m1
  m2 = m2
  None = None
  Stray = Stray
  Calls <- TwoCalls
  Messages <- TwoMessages
  Locks = {1, 2}
  MaxFaults = 2
SPECIFICATION FairSpec
INVARIANTS AgentRunsAtMostOnce OneCallPerEvent CompletedWasTold LeaseKeepsTurnsApart
PROPERTIES CallsEnd
CHECK_DEADLOCK FALSE
