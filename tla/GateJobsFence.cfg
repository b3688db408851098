CONSTANTS
  o1 = o1
  o2 = o2
  w1 = w1
  w2 = w2
  NoOwner = NoOwner
  Orders <- OneOrder
  Workers <- TwoWorkers
  MaxClosures = 2
  MaxHeals = 0
  MaxMishaps = 1
SPECIFICATION Spec
CHECK_DEADLOCK FALSE
SYMMETRY Symmetry
INVARIANTS
  DrainCovers
PROPERTIES
  SparesResumedOrders
  ClosuresQueued
