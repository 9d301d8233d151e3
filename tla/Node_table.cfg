SPECIFICATION NodeSpec
CONSTANTS
  Lease = {l1, l2, l3}
  Job = {j1}
  Gpu = {g1}
  Telemetry = TRUE
  MaxConcurrent = 2
  Isolated = {}
  NoLease = NoLease
  NoJob = NoJob
  NoGpu = NoGpu
  Persistent = FALSE
  MaxOwed = 1
  MaxInFlight = 1
  MaxCrashes = 0
  Cmds = {c1, c2}
  MaxDaemons = 2
  Kids = {k1, k2}
  Foreign = {f1}
  Daemon = d
  Units = 4
  d1 = d1  d2 = d2  r1 = r1  r2 = r2  r3 = r3
  Mates = {d1, d2}
  Asking = {r1, r2, r3}
  AskedOf <- MCAskedOf
  Wants <- MCWants
  Share <- MCShare
  Memory = 3
  MaxUse = 1
SYMMETRY Symmetry
INVARIANTS GpuExclusive CapRespected DaemonFound MemoryIsRight
CHECK_DEADLOCK FALSE
