CONSTANTS
  u1 = u1
  u2 = u2
  w1 = w1
  w2 = w2
  NoWorker = NoWorker
  Users <- OneUser
  Workers <- TwoWorkers
  Contracts = {1}
  Scores = {1, 5}
  HoldPolls = 1
  Prices = {2}
  Strike = 1
  Deposit = 3
  Margin = 1
  Fickle = FALSE
  Stalls = TRUE
  MaxTrades = 0
  MaxRests = 0
  MaxReports = 3
  MaxOutages = 1
  MaxMishaps = 2
SYMMETRY Symmetry
SPECIFICATION Spec
CHECK_DEADLOCK FALSE
PROPERTIES
  ClaimIsFinal
