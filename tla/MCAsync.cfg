SPECIFICATION AsyncSpec
CONSTANTS
  Writer = Writer
  Reader = Reader
  Threads = {Writer, Reader}
  None = None
  kClosed = kClosed
  MaxWrites = 3
  Pinners = {"p", "q", "r"}
  PoolUser = PoolUser
  NoValue = NoValue
INVARIANT HandsOver
INVARIANT LatchAgrees
INVARIANT LockedWatchKeeps
INVARIANT PinProtects
INVARIANT HandlersEndOnce
INVARIANT DoneMeansDone
INVARIANT MeshExplores
INVARIANT FakeContextKept
INVARIANT DeliversOnce
INVARIANT MetricsAgree
PROPERTY WaitersReleased
PROPERTY LockedWatchReleases
CHECK_DEADLOCK FALSE
