CONSTANTS
  Threads = {t1, t2, t3}
  None = None
  kClosed = kClosed
  MaxBatch = 2
  MaxItems = 2
SPECIFICATION FairSpec
INVARIANT QueueInv
PROPERTY WaitsEnd
CHECK_DEADLOCK FALSE
