SPECIFICATION FairSpec
CONSTANTS
  b1 = b1  b2 = b2  c1 = c1
  Items = {"channel", "session", "reconcile"}
  Workers <- BackgroundWorkers
  Lane <- MCLane
  Key <- MCKey
  NoKey = NoKey
  Priority <- MCPriority
  Recurring = {}
  Deadlined = {"reconcile"}
  WorkLease = 2
  StallAfter = 1
  MaxDelay = 0
  MaxWindow = 1
  NoWorker = NoWorker
PROPERTIES UrgentRequestsServed BacklogDrains
