CONSTANTS
  w1 = w1
  NoOne = NoOne
  Workers <- OneWorker
  Scanners <- OneWorker
  AllowMidMatch = FALSE
  MaxRequests = 2
  MaxConcurrency = 1
  MaxUpsets = 0
  Many = 3
SPECIFICATION Spec
CHECK_DEADLOCK FALSE
PROPERTIES
  ParkedIsSkipped
