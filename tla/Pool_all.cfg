SPECIFICATION PoolSpec
CONSTANTS
  Chunk = {c1}
  Peer = {p1, p2}
  Here = here
  Items = 2
  Depth = 1
  Kinds <- AnyKinds
  Request = {r1, r2}
  MaxWorkers = 3
  MaxDeaths = 1
  MaxCancels = 2
  RaceItems = 6
  HeadItems = 1
  Inflight = 2
  BasePullers = 1
  ChunkFloor = 2
  LostLimit = 2
  Sends = {s1, s2, s3}
  Blobs = {g1, g2}
  HeldPerPeer = 1
  CacheBlobs = 1
  MaxWireFaults = 1
  WireItems = 3
  WNodes = {a, b, c}
  WOrigin = a
INVARIANTS TriedIsAnswered BookIsTrue LeakedByCancelOnly RaceIsWhole RoutedInOrder
PROPERTIES ChunkEndsIfLocalWorks MapReturns
CHECK_DEADLOCK FALSE
