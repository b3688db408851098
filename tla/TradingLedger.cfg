CONSTANTS
  u1 = u1
  u2 = u2
  k1 = k1
  r1 = r1
  r2 = r2
  LotSize = 1
  Users <- OneUser
  NContracts = 2
  MaxOrders = 3
  Prices = {1, 2}
  Quantities = {1, 2}
  Clients <- NoClients
  Replicas <- TwoReplicas
  Requests <- LedgerMenu
  GateAttempts = 2
  Amounts = {6}
  MaxFunded = 6
  MaxVersion = 1
  Crashes = FALSE
  Disconnects = FALSE
SPECIFICATION Spec
SYMMETRY ReplicaSymmetry
CHECK_DEADLOCK FALSE
INVARIANTS
  ReserveBacked
  CashReconciles
  LotsReconcile
  Solvent
  ShortsCollateralised
