SPECIFICATION RunSpec
CONSTANTS
  Node = {n1, n2}
  Unfit = {}
  RoundRobin = FALSE
  MaxExecAttempts = 2
  ProbeTries = 1
  Window = 0
  MaxLeases = 2
  MaxCrashes = 0
  MaxOffline = 1
  MaxCuts = 1
  Steady = FALSE
  MaxTrouble = 2
INVARIANT RecordIsTrue
PROPERTIES FinalStays RunsSettle
