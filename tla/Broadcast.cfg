CONSTANTS
  c1 = c1
  c2 = c2
  i1 = i1
  i2 = i2
  NoOne = NoOne
  Overs = 2
  Balls = 1
  Contents <- TwoContents
  Window = 1
  MaxReconcilingPolls = 2
  AllowCorrections = FALSE
  MaxUpsets = 2
  SendBuffer = 1
  MaxBreaks = 1
  MaxFaults = 2
  Instances <- TwoInstances
  Rows = 2
  AutoLoop = TRUE
  MaxStarts = 2
  MaxFailures = 1
SPECIFICATION Spec
SYMMETRY Symmetry
\* The innings ends, and so do the replays that were started.
CHECK_DEADLOCK FALSE
INVARIANTS
  Announced
  Converges
  NoHiddenGap
  ReplaysOnce
