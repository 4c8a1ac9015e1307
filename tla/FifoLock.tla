------------------------------ MODULE FifoLock ------------------------------
(***************************************************************************)
(* What batt::Mutex promises: the lock is granted to its callers one at a  *)
(* time, in the order in which they asked for it.                          *)
(***************************************************************************)
EXTENDS Integers, Sequences

CONSTANT Threads

VARIABLES
  queue,    \* the callers that hold or want the lock; the first is served
  held      \* whether the first has it already

vars == <<queue, held>>

Init == queue = <<>> /\ held = FALSE

Enqueue(t) ==
  /\ \A i \in 1..Len(queue) : queue[i] # t
  /\ queue' = Append(queue, t)
  /\ UNCHANGED held

Grant ==
  /\ queue # <<>>
  /\ ~held
  /\ held' = TRUE
  /\ UNCHANGED queue

Release ==
  /\ held
  /\ held' = FALSE
  /\ queue' = Tail(queue)

Next == (\E t \in Threads : Enqueue(t)) \/ Grant \/ Release

Safety == Init /\ [][Next]_vars
Spec == Safety /\ WF_vars(Grant)
=============================================================================
