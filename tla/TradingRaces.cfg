CONSTANTS
  u1 = u1
  u2 = u2
  k1 = k1
  r1 = r1
  r2 = r2
  LotSize = 1
  Users <- OneUser
  NContracts = 1
  MaxOrders = 2
  Prices = {1, 2}
  Quantities = {1, 2}
  Clients <- OneClient
  Replicas <- TwoReplicas
  Requests <- RaceMenu
  GateAttempts = 3
  Amounts = {6}
  MaxFunded = 6
  MaxVersion = 3
  Crashes = TRUE
  Disconnects = TRUE
SPECIFICATION Spec
SYMMETRY ReplicaSymmetry
CHECK_DEADLOCK FALSE
INVARIANTS
  OneFate
  LimitRespected
  OneOrderPerClientId
PROPERTIES
  FinishedOrdersStay
