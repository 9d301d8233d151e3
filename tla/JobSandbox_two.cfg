SPECIFICATION BoxSpec
CONSTANTS
  BoxJobs = {j1, j2}
  MaxBytes = 2
  MaxMem = 5
  KillsKept = 1
  MaxKills = 2
INVARIANT ToldIsTrue
PROPERTIES CancelEnds
