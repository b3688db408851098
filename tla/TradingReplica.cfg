CONSTANTS
  u1 = u1
  u2 = u2
  k1 = k1
  r1 = r1
  r2 = r2
  LotSize = 1
  Users <- OneUser
  NContracts = 1
  MaxOrders = 2
  Prices = {1, 2}
  Quantities = {1, 2}
  Clients <- NoClients
  Replicas <- OneReplica
  Requests <- FenceMenu
  GateAttempts = 2
  Amounts = {6}
  MaxFunded = 6
  MaxVersion = 2
  Crashes = TRUE
  Disconnects = FALSE
SPECIFICATION FairSpec
CHECK_DEADLOCK FALSE
INVARIANTS
  IntentHonoured
  NothingLeftBehind
PROPERTIES
  RequestsReturn
