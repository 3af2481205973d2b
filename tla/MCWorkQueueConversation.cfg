SPECIFICATION Spec
CONSTANTS
  b1 = b1  b2 = b2  c1 = c1
  Items = {"delivery_drain", "channel", "session"}
  Workers <- AllWorkers
  Lane <- MCLane
  Key <- MCKey
  NoKey = NoKey
  Priority <- MCPriority
  Recurring = {"delivery_drain"}
  Deadlined = {}
  WorkLease = 2
  StallAfter = 1
  MaxDelay = 1
  MaxWindow = 0
  NoWorker = NoWorker
SYMMETRY Symmetry
INVARIANTS TypeOK ExclusiveConversation NoLostRequest DrainsPersist
PROPERTIES StaleWorkerRejected ImplementsJobs
