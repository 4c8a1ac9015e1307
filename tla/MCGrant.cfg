SPECIFICATION FairSpec
CONSTANTS
  Threads = {t1, t2}
  Grants = {g1, g2}
  None = None
  Issuer = Issuer
  kClosed = kClosed
  InitialCount = 1
  MaxTotal = 2
  ConcurrentSwaps = FALSE
INVARIANT GrantInv
PROPERTY TransfersEnd
CHECK_DEADLOCK FALSE
