SPECIFICATION SandboxSpec
CONSTANTS
  Lease = {l1}
  Job = {j1}
  Gpu = {}
  Telemetry = TRUE
  MaxConcurrent = 0
  Isolated = {j1}
  NoLease = NoLease
  NoJob = NoJob
  NoGpu = NoGpu
  Persistent = TRUE
  MaxOwed = 1
  MaxInFlight = 1
  MaxCrashes = 1
INVARIANTS TypeOK NoLeakedLease FinishedMeansStopped
PROPERTY LeaseEventuallyFreed
CHECK_DEADLOCK FALSE
