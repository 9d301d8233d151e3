SPECIFICATION DdpSpec
CONSTANTS
  World = 4
  Joins = FALSE
  MaxSeq = 3
  Boundaries = {2}
  Mortal = {2}
  FalselyLost = {}
  Odd = {}
  MaxFits = 0
  MayDrop = FALSE
  NodeCount = 3
  Scores = {0, 6, 24}
  GpuCounts = {0, 2}
  NominalStep = 1000
  Machines = {1, 2}
  MaxRejoins = 1
  MaxRanks = 2
  MaxJoins = 1
  Adders = 3
  Near = {1, 2}
  AddSteps = 2
  Unit = 46080
  Levels = 2
  MaxLate = 1
  Fragile = {2}
  Sharers = 3
  DataSizes = {2, 11}
  BatchSizes = {4, 7}
  Seeds = {1, 3}
  Speeds = {1, 8}
  SyncCosts = {32, 1024}
  WorkTime = 256
  MaxFit = 2
  Parts = {"board", "plan", "ranks", "reduce", "shares"}
INVARIANTS SameModel LateTakesKeptAnswer OnlyTimeoutLeavesOut RingCanTrain RunIsAccounted TrainsAsOne
