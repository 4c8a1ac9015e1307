CONSTANTS
  Threads = {t1, t2, t3}
  TicketLimit = 6
  None = None
SPECIFICATION FairSpec
INVARIANT MutualExclusion
INVARIANT TicketCheck
PROPERTY EveryoneServed
PROPERTY ImplementsFifoLock
CHECK_DEADLOCK FALSE
