CONSTANTS
  u1 = u1
  u2 = u2
  w1 = w1
  w2 = w2
  NoWorker = NoWorker
  Users <- OneUser
  Workers <- OneWorker
  Contracts = {1, 2}
  Scores = {7}
  HoldPolls = 2
  Prices = {2}
  Strike = 1
  Deposit = 2
  Margin = 1
  Fickle = FALSE
  Stalls = TRUE
  MaxTrades = 1
  MaxRests = 0
  MaxReports = 2
  MaxOutages = 1
  MaxMishaps = 1
SPECIFICATION FairSpec
CHECK_DEADLOCK FALSE
PROPERTIES
  ClaimSettles
  VoidFinishes
