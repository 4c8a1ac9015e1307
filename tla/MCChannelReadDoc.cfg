CONSTANTS
  Writer = Writer
  Reader = Reader
  Threads = {Writer, Reader}
  None = None
  kClosed = kClosed
  MaxWrites = 2
SPECIFICATION Spec
INVARIANT ReadDoc
CHECK_DEADLOCK FALSE
