CONSTANTS
  Threads = {w, r}
  Writer = w
  Reader = r
  None = None
  kClosed = kClosed
  kEndOfStream = kEndOfStream
  capacity = 3
  MaxBytes = 5
SPECIFICATION FairSpec
INVARIANT StreamKept
PROPERTY SidesReleased
CHECK_DEADLOCK FALSE
