CONSTANTS
  o1 = o1
  o2 = o2
  w1 = w1
  w2 = w2
  NoOwner = NoOwner
  Orders <- OneOrder
  Workers <- TwoWorkers
  MaxClosures = 1
  MaxHeals = 1
  MaxMishaps = 1
SPECIFICATION FairSpec
CHECK_DEADLOCK FALSE
INVARIANTS
  AdminGateHolds
PROPERTIES
  DueOrdersFinish
