CONSTANTS
  t1 = t1
  t2 = t2
  NoTab = NoTab

  Tabs <- MCTabs
  Follower = t1
  MaxRenewals = 2
  MaxFaults = 1
  MaxEvents = 2
  Batch = 1
  MaxAttempts = 3
SPECIFICATION FairSpec
INVARIANTS
  EveryEventOnce
  ReplayNeedsLoss
PROPERTIES
  FollowEnds
CHECK_DEADLOCK FALSE
