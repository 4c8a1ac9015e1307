------------------------------ MODULE Slicing ------------------------------
(***************************************************************************)
(* The arithmetic of async/slice_work.hpp: how an input is cut into tasks. *)
(***************************************************************************)
EXTENDS Integers

CeilDiv(a, b) == (a + b - 1) \div b
MaxOf(a, b) == IF a > b THEN a ELSE b
MinOf(a, b) == IF a < b THEN a ELSE b

\* get_task_size and get_task_count.
TaskSize_Floor(n, minSize, maxTasks) == MaxOf(minSize, n \div maxTasks)
TaskSize(n, minSize, maxTasks) == MaxOf(minSize, CeilDiv(n, maxTasks))
TaskCount(n, size) == CeilDiv(n, size)

\* WorkSlicePlan.
Plan(n, minSize, maxTasks) ==
  LET size == TaskSize(n, minSize, maxTasks) IN
  [n |-> n, size |-> size, tasks |-> TaskCount(n, size), max |-> maxTasks]

\* this_task_size in slice_work, and all the slices it hands out.
SliceSize(p, offset) == MinOf(p.n - offset, p.size)
Slices(p) ==
  {[index |-> i, offset |-> i * p.size, size |-> SliceSize(p, i * p.size)] :
     i \in {j \in 0..p.n : j * p.size < p.n}}
=============================================================================
