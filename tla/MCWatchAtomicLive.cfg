CONSTANTS
  Threads = {t1, t2}
  Values <- MCValues
  Transforms <- FetchAddOnly
  PartialTransforms <- MCPartialTransforms
  CloseCodes <- AllCodes
  InitValue = 0
  None = None
  kClosed = kClosed
  kEndOfStream = kEndOfStream
  kClosedBeforeEndOfStream = kClosedBeforeEndOfStream
SPECIFICATION FairSpec
PROPERTY ChangeWakes
PROPERTY ImplementsWatchFairness
CHECK_DEADLOCK FALSE
