INIT DataInit
NEXT DataNext
INVARIANT SeqAgrees
INVARIANT ParallelAgrees
INVARIANT NumbersAgree
INVARIANT HttpReads
INVARIANT PacingKept
INVARIANT StatusesTell
INVARIANT ObjectsKept
CHECK_DEADLOCK FALSE
