------------------------------ MODULE Workers ------------------------------
(***************************************************************************)
(* Parallel work: Worker and WorkerPool (async/worker.hpp,                 *)
(* worker_pool.hpp), WorkContext (async/work_context.hpp) and slice_work   *)
(* (async/slice_work.hpp).  Clients share a pool; each slices its input,   *)
(* submits all slices but the last through a WorkContext of its own, runs  *)
(* the last one itself, and waits for the others before it destroys the    *)
(* context.  A running slice (here: the first one) may submit one more     *)
(* function to its context, as parallel_merge does.  The pool may be halted*)
(* at any time.                                                            *)
(*                                                                         *)
(* The queue of a worker is one of module Queue with its push in two       *)
(* steps, the test that it is open and the rest, because the pool may be   *)
(* halted between them.                                                    *)
(***************************************************************************)
EXTENDS Slicing, FiniteSets, Sequences

CONSTANTS
  Clients,
  MaxWorkers,    \* bound on the size of the pool
  MaxInput,      \* bound on the size of an input
  MaxTasks,      \* bound on max_tasks
  NoValue        \* stands for no value in a watch

VARIABLES
  poolSize,      \* workers_.size()
  roundRobin,    \* round_robin_, modulo the size
  worker,        \* of each worker: its queue, whether it is open, its task
  client,        \* of each client: its plan and its place in slice_work, and
                 \* whether a queue has refused a unit of its work
  context,       \* of each client: work_count_ (a watch) and ref_count_
  sliced         \* of each client: how often each input element was processed

workVars == <<poolSize, roundRobin, worker, client, context, sliced>>

W == INSTANCE Watches WITH Threads <- Clients \cup 1..MaxWorkers, None <- NoValue

WorkInit ==
  /\ poolSize \in 0..MaxWorkers
  /\ roundRobin = 0
  /\ worker = [w \in 1..MaxWorkers |->
                 [queue |-> <<>>, open |-> TRUE, pc |-> "next", item |-> <<>>,
                  target |-> 0]]
  /\ \E n \in 0..MaxInput, m \in 1..2, k \in 1..MaxTasks :
       client = [c \in Clients |->
                   [plan |-> Plan(n, m, k), pc |-> "slice", index |-> 0,
                    offset |-> 0, target |-> 0, seen |-> 0, lost |-> FALSE]]
  /\ context = [c \in Clients |-> [work |-> W!NewWatch(0), ref |-> 0]]
  /\ sliced = [c \in Clients |-> [i \in 1..MaxInput |-> 0]]

-----------------------------------------------------------------------------
\* A unit of work: the client, the elements of its slice, and whether it
\* submits another (empty) unit while it runs.
Unit(c, offset, size, more) == [c |-> c, from |-> offset, size |-> size, more |-> more]

Processed(u) ==
  [sliced EXCEPT ![u.c] = [i \in 1..MaxInput |->
     IF i > u.from /\ i <= u.from + u.size THEN @[i] + 1 ELSE @[i]]]

\* on_work_started by t: the reference first, then the count and its notification.
Referenced(c) == context' = [context EXCEPT ![c].ref = @ + 1]
Counted(c, t) == context' = [context EXCEPT ![c].work = W!Changed(@, t, @.value + 1)]
Announced(c, t) == context' = [context EXCEPT ![c].work = W!Notified(@, t)]

\* WorkerPool::async_run picks a worker; the unit is lost if its queue is
\* closed, because nobody looks at the result of push.
RoundRobin == roundRobin' = (roundRobin + 1) % poolSize
Pushed(w, u) == [worker EXCEPT ![w].queue = Append(@, u)]

-----------------------------------------------------------------------------
(* slice_work, by the client c.                                            *)

Client(c, pc) == client[c].pc = pc
SliceIsLast(p, index) == index + 1 = p.tasks
Advanced(c) ==
  [client[c] EXCEPT !.index = @ + 1,
                    !.offset = @ + SliceSize(client[c].plan, @)]
ThisUnit(c, more) ==
  Unit(c, client[c].offset, SliceSize(client[c].plan, client[c].offset), more)

\* The last slice, or any slice when the pool has no workers.  The counts
\* then go up and down again on the caller's thread.
SliceInline(c) ==
  LET p == client[c].plan IN
  /\ Client(c, "slice")
  /\ client[c].offset < p.n
  /\ SliceIsLast(p, client[c].index) \/ poolSize = 0
  /\ sliced' = Processed(ThisUnit(c, FALSE))
  /\ client' = [client EXCEPT ![c] = Advanced(c)]
  /\ UNCHANGED <<poolSize, roundRobin, worker, context>>

SliceStart(c) ==
  LET p == client[c].plan IN
  /\ Client(c, "slice")
  /\ client[c].offset < p.n
  /\ ~ SliceIsLast(p, client[c].index)
  /\ poolSize > 0
  /\ Referenced(c)
  /\ client' = [client EXCEPT ![c].pc = "count"]
  /\ UNCHANGED <<poolSize, roundRobin, worker, sliced>>
SliceCount(c) ==
  /\ Client(c, "count") /\ Counted(c, c)
  /\ client' = [client EXCEPT ![c].pc = "announce"]
  /\ UNCHANGED <<poolSize, roundRobin, worker, sliced>>
SliceAnnounce(c) ==
  /\ Client(c, "announce") /\ Announced(c, c)
  /\ client' = [client EXCEPT ![c].pc = "submit"]
  /\ UNCHANGED <<poolSize, roundRobin, worker, sliced>>

SliceSubmit(c) ==
  /\ Client(c, "submit")
  /\ RoundRobin
  /\ client' = [client EXCEPT ![c] =
       IF worker[roundRobin + 1].open
       THEN [@ EXCEPT !.pc = "push", !.target = roundRobin + 1]
       ELSE [Advanced(c) EXCEPT !.pc = "slice", !.lost = TRUE]]
  /\ UNCHANGED <<poolSize, worker, context, sliced>>

SlicePush(c) ==
  /\ Client(c, "push")
  /\ \E more \in {FALSE, client[c].index = 0} : worker' = Pushed(client[c].target, ThisUnit(c, more))
  /\ client' = [client EXCEPT ![c] = [Advanced(c) EXCEPT !.pc = "slice"]]
  /\ UNCHANGED <<poolSize, roundRobin, context, sliced>>

\* The check that ends slice_work, then await_done's first load.
SliceEnd(c) ==
  LET p == client[c].plan IN
  /\ Client(c, "slice")
  /\ client[c].offset = p.n
  /\ client' = [client EXCEPT
       ![c].pc = IF p.n > 0 /\ client[c].index # p.tasks THEN "panic" ELSE "test",
       ![c].seen = context[c].work.value]
  /\ UNCHANGED <<poolSize, roundRobin, worker, context, sliced>>

-----------------------------------------------------------------------------
(* ~ScopedWorkContext: await_done, unless cancel() was called.  Units still*)
(* queued then outlive the context; what becomes of them is not followed.  *)

cancel(c) ==
  /\ Client(c, "slice") /\ client[c].offset = client[c].plan.n
  /\ client[c].plan.n = 0 \/ client[c].index = client[c].plan.tasks
  /\ client' = [client EXCEPT ![c].pc = "cancelled"]
  /\ UNCHANGED <<poolSize, roundRobin, worker, context, sliced>>

DoneTest(c) ==
  /\ Client(c, "test")
  /\ client' = [client EXCEPT ![c].pc =
                  IF client[c].seen < 0 THEN "panic"
                  ELSE IF client[c].seen = 0 THEN "yield" ELSE "look"]
  /\ UNCHANGED <<poolSize, roundRobin, worker, context, sliced>>

DoneSaw(c, r) == client' = [client EXCEPT ![c].pc = "test", ![c].seen = r]

DoneLook(c) ==
  LET r == W!FirstLook(context[c].work, client[c].seen) IN
  /\ Client(c, "look")
  /\ IF r # NoValue THEN DoneSaw(c, r) ELSE client' = [client EXCEPT ![c].pc = "attach"]
  /\ UNCHANGED <<poolSize, roundRobin, worker, context, sliced>>

DoneAttach(c) ==
  LET r == W!SecondLook(context[c].work, client[c].seen) IN
  /\ Client(c, "attach")
  /\ IF r # NoValue
       THEN DoneSaw(c, r) /\ UNCHANGED context
       ELSE /\ client' = [client EXCEPT ![c].pc = "blocked"]
            /\ context' = [context EXCEPT ![c].work = W!Registered(@, c)]
  /\ UNCHANGED <<poolSize, roundRobin, worker, sliced>>

DoneWakeUp(c) ==
  /\ Client(c, "blocked")
  /\ context[c].work.outcome[c] # NoValue
  /\ DoneSaw(c, context[c].work.outcome[c])
  /\ context' = [context EXCEPT ![c].work = W!Handled(@, c)]
  /\ UNCHANGED <<poolSize, roundRobin, worker, sliced>>

\* The loop on ref_count_; then the context is destroyed.
NoReferences_Unchecked(c) == TRUE
NoReferences(c) == context[c].ref <= 0

DoneYield(c) ==
  /\ Client(c, "yield")
  /\ NoReferences(c)
  /\ client' = [client EXCEPT ![c].pc = "returned"]
  /\ UNCHANGED <<poolSize, roundRobin, worker, context, sliced>>

-----------------------------------------------------------------------------
(* A worker's task.                                                        *)

Worker(w, pc) == w <= poolSize /\ worker[w].pc = pc
TheUnit(w) == worker[w].item[1]

\* await_next: a closed queue still gives out what it holds.
WorkNext(w) ==
  /\ Worker(w, "next")
  /\ worker[w].queue # <<>>
  /\ worker' = [worker EXCEPT ![w].queue = Tail(@), ![w].pc = "run",
                              ![w].item = <<Head(worker[w].queue)>>]
  /\ UNCHANGED <<poolSize, roundRobin, client, context, sliced>>

WorkExit(w) ==
  /\ Worker(w, "next")
  /\ worker[w].queue = <<>> /\ ~ worker[w].open
  /\ worker' = [worker EXCEPT ![w].pc = "exited"]
  /\ UNCHANGED <<poolSize, roundRobin, client, context, sliced>>

WorkRun(w) ==
  /\ Worker(w, "run")
  /\ sliced' = Processed(TheUnit(w))
  /\ IF TheUnit(w).more
       THEN /\ Referenced(TheUnit(w).c)
            /\ worker' = [worker EXCEPT ![w].pc = "count"]
       ELSE /\ worker' = [worker EXCEPT ![w].pc = "finish"]
            /\ UNCHANGED context
  /\ UNCHANGED <<poolSize, roundRobin, client>>

\* The unit's own call of async_run.
WorkCount(w) ==
  /\ Worker(w, "count") /\ Counted(TheUnit(w).c, w)
  /\ worker' = [worker EXCEPT ![w].pc = "announce"]
  /\ UNCHANGED <<poolSize, roundRobin, client, sliced>>
WorkAnnounce(w) ==
  /\ Worker(w, "announce") /\ Announced(TheUnit(w).c, w)
  /\ worker' = [worker EXCEPT ![w].pc = "submit"]
  /\ UNCHANGED <<poolSize, roundRobin, client, sliced>>
WorkSubmit(w) ==
  /\ Worker(w, "submit")
  /\ RoundRobin
  /\ worker' = [worker EXCEPT ![w].target = roundRobin + 1,
                              ![w].pc = IF worker[roundRobin + 1].open THEN "push" ELSE "finish"]
  /\ client' = [client EXCEPT ![TheUnit(w).c].lost = @ \/ ~ worker[roundRobin + 1].open]
  /\ UNCHANGED <<poolSize, context, sliced>>

WorkPush(w) ==
  /\ Worker(w, "push")
  /\ worker' = [Pushed(worker[w].target, Unit(TheUnit(w).c, 0, 0, FALSE))
                   EXCEPT ![w].pc = "finish"]
  /\ UNCHANGED <<poolSize, roundRobin, client, context, sliced>>

\* on_work_finished: the count, its notification, the reference.
WorkFinish(w) ==
  LET c == TheUnit(w).c IN
  /\ Worker(w, "finish")
  /\ context' = [context EXCEPT ![c].work = W!Changed(@, w, @.value - 1)]
  /\ worker' = [worker EXCEPT ![w].pc = "notify"]
  /\ UNCHANGED <<poolSize, roundRobin, client, sliced>>

WorkNotify(w) ==
  /\ Worker(w, "notify")
  /\ Announced(TheUnit(w).c, w)
  /\ worker' = [worker EXCEPT ![w].pc = "unref"]
  /\ UNCHANGED <<poolSize, roundRobin, client, sliced>>

WorkUnref(w) ==
  /\ Worker(w, "unref")
  /\ context' = [context EXCEPT ![TheUnit(w).c].ref = @ - 1]
  /\ worker' = [worker EXCEPT ![w].pc = "next", ![w].item = <<>>, ![w].target = 0]
  /\ UNCHANGED <<poolSize, roundRobin, client, sliced>>

\* WorkerPool::halt, one queue after the other.
Halt ==
  \E w \in 1..poolSize :
    /\ worker[w].open
    /\ \A v \in 1..(w - 1) : ~ worker[v].open
    /\ worker' = [worker EXCEPT ![w].open = FALSE]
    /\ UNCHANGED <<poolSize, roundRobin, client, context, sliced>>

-----------------------------------------------------------------------------
ClientStep(c) ==
  \/ SliceInline(c) \/ SliceStart(c) \/ SliceCount(c) \/ SliceAnnounce(c) \/ SliceSubmit(c) \/ SlicePush(c) \/ SliceEnd(c)
  \/ DoneTest(c) \/ DoneLook(c) \/ DoneAttach(c) \/ DoneWakeUp(c) \/ DoneYield(c)

WorkerStep(w) ==
  \/ WorkNext(w) \/ WorkExit(w) \/ WorkRun(w) \/ WorkCount(w) \/ WorkAnnounce(w) \/ WorkSubmit(w) \/ WorkPush(w)
  \/ WorkFinish(w) \/ WorkNotify(w) \/ WorkUnref(w)

WorkStep ==
  (\E c \in Clients : ClientStep(c) \/ cancel(c)) \/ (\E w \in 1..MaxWorkers : WorkerStep(w)) \/ Halt

\* Every thread runs; nobody has to halt the pool.
WorkFairness ==
  /\ \A c \in Clients : WF_workVars(ClientStep(c))
  /\ \A w \in 1..MaxWorkers : WF_workVars(WorkerStep(w))

-----------------------------------------------------------------------------
\* The units of c that somebody holds.
Held(c) ==
  {w \in 1..poolSize : worker[w].item # <<>> /\ TheUnit(w).c = c}
Queued(c) ==
  {w \in 1..poolSize : \E i \in DOMAIN worker[w].queue : worker[w].queue[i].c = c}

\* await_done returns, and the context is destroyed, only when every element
\* of the input has been processed exactly once and no worker will touch the
\* context again, whatever the order of submissions, completions and halt;
\* the plan respects max_tasks and the checks in the code hold.
DoneMeansDone ==
  \A c \in Clients :
    /\ client[c].plan.tasks <= client[c].plan.max
    /\ client[c].pc # "panic"
    /\ \A i \in 1..MaxInput : sliced[c][i] <= 1
    /\ client[c].pc = "returned" =>
         /\ \A i \in 1..client[c].plan.n : sliced[c][i] = 1
         /\ Held(c) = {} /\ Queued(c) = {}

\* A client that has not cancelled waits forever only if the pool was halted and
\* a unit of its work went with it: a closed queue refused it, or it was pushed
\* onto the queue of a worker that had gone already.
Refused(c) ==
  client[c].lost \/ \E w \in Queued(c) : worker[w].pc = "exited"
ClientServed(c) == client[c].pc \in {"returned", "cancelled"} \/ Refused(c)
ClientsReturn == \A c \in Clients : <>ClientServed(c)
=============================================================================
