CONSTANTS
  Threads = {t1, t2, t3}
  Values <- MCValues
  Transforms <- MCTransforms
  PartialTransforms <- TakeOne
  CloseCodes <- AllCodes
  InitValue = 0
  None = None
  kClosed = kClosed
  kEndOfStream = kEndOfStream
  kClosedBeforeEndOfStream = kClosedBeforeEndOfStream
SPECIFICATION Spec
SYMMETRY ThreadSymmetry
INVARIANT WatchInv
INVARIANT NoLostWakeup
INVARIANT WaitersToldOnce
PROPERTY ImplementsWatchSafety
CHECK_DEADLOCK FALSE
