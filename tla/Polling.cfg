CONSTANTS
  w1 = w1
  NoOne = NoOne
  Workers <- OneWorker
  Scanners <- OneWorker
  AllowMidMatch = FALSE
  MaxRequests = 2
  MaxConcurrency = 1
  MaxUpsets = 1
  Many = 3
SPECIFICATION FairSpec
CHECK_DEADLOCK FALSE

  
PROPERTIES
  HardParkStays
  FinishedNotRevived
  FollowedToTheEnd
