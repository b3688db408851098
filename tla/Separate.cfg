CONSTANTS
  a1 = a1
  a2 = a2
  c1 = c1
  c2 = c2
  c3 = c3
  NoKey = NoKey
  Parts = {"quota", "cadence", "scoreboard", "reading", "portfolio", "accounts"}
  Workers <- Two
  Tasks <- TwoTasks
  HourlyRequestLimit = 2
  DailyRequestLimit = 4
  QuotaReservePercent = 50
  MaxMishaps = 1
  Programmes <- MCProgrammes
  MaxTurns = 2
  MaxSteps = 70
  MatchOvers = 2
  BallsInOver = 2
  Wickets = 2
  Deeds <- MCDeeds
  MaxWides = 1
  WindowSizes = {1, 2}
  RolesNamed = {1}
  Labels <- MCLabels
  InningsOvers = 2
  OverBalls = 1
  OverLimit = 2
  AllOut = 2
  OversShown = 2
  Happenings <- MCHappenings
  NumberIsTotal = TRUE
  MaxHints = 1
  Contracts <- Two
  Prices <- MCPrices
  Marks <- MCMarks
  Quantities <- MCQuantities
  LotSize = 1
  Capital = 72
  HistoryLimit = 3
  SummaryLimit = 3
  MaxFills = 4
  MaxDays = 2
  Calls <- Three
  Fills <- Two
  Amounts <- MCAmounts
  Rewards <- MCRewards
  Bonus = 5
  Target = 2
  Days = 2
  MaxCrashes = 1
SYMMETRY Symmetry
SPECIFICATION Spec
\* Innings, fills, calls and days come to an end.
CHECK_DEADLOCK FALSE
INVARIANTS
  QuotaReconciles
  CadenceHolds
  ReadingIsOfTheMatch
  StrikeTracked
  OversFiled
  TotalsAreMoney
  ViewsAgree
  LedgerExplains
  PaidOnce
