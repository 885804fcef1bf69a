CONSTANTS
  w1 = w1
  w2 = w2
  c1 = c1
  c2 = c2
  None = None
  Notifications = {1, 2}
  Workers <- TwoWorkers
  Calls <- TwoCalls
  BatchSize = 2
  MaxRetries = 2
  MaxFaults = 2
  MaxResends = 1
SPECIFICATION FairSpec
INVARIANTS OneDelivery SentMeansAccepted DuplicatesExplained RetriesWithinBudget
PROPERTIES OneAttemptAtATime KeepsPromise EveryNotificationSettles
CHECK_DEADLOCK FALSE
