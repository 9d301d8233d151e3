SPECIFICATION UnbrokenSpec
CONSTANTS
  Node = {n1, n2}
  Unfit = {}
  RoundRobin = FALSE
  MaxExecAttempts = 2
  ProbeTries = 1
  Window = 1
  MaxLeases = 3
  MaxCrashes = 1
  MaxOffline = 1
  MaxCuts = 0
  Steady = TRUE
SYMMETRY Symmetry
INVARIANTS OneCopy StartsBounded
