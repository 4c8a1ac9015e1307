# TLA+ models and proofs for batteries

`batteries` is a C++ library of asynchronous primitives (`src/batteries/async`)
and of utilities built on them or beside them. This directory holds TLA+
modules that model its parts, TLC configurations that check them on small
instances, and proofs that TLAPS checks for every instance. `PROJECT.json` is
the index: which definition models which lines, which run checks what, and
which hazards of the code are covered by which property.

All paths below are relative to `src/src/batteries/`.

## 1. The system

### Parts and how they interact

Everything that blocks in this library blocks on a `Watch`. The primitives form
a small stack:

```
            Task  (user-level threads; await suspends one)
              ^
              | resumes
  Watch / WatchAtomic  (value + closed flag + observers)
   ^     ^      ^       ^        ^          ^      ^
 Mutex  Queue  Channel  Grant  StreamBuffer Latch  WorkContext
          ^      ^                ^           ^       ^
          |      +---- HTTP client/server ----+       |
          +---- WorkerPool, parallel model checker ---+--- parallel algorithms
```

| Part | State | Operations that change it | What makes it hard | What must hold |
|---|---|---|---|---|
| `WatchAtomic` (`async/watch_decl.hpp`, `watch_impl.hpp`) | atomic value, spin-lock word with flags, observer list | `set_value`, `fetch_*`, `modify`, `modify_if`, `await_*`, `async_wait`, `close` | change and notification are two steps; `notify` skips the lock when nobody seems to wait | no lost wakeup, one handler per waiter, one final status |
| `Watch` (mutex version) | the same behind a `std::mutex` | the same | notification after the unlock | implements the same abstract watch |
| `Mutex` (`async/mutex.hpp`) | two ticket counters, one of them a watch | `lock`, `~Lock` | late notifications with old tickets | mutual exclusion, FIFO, everybody served |
| `Queue` (`async/queue.hpp`) | deque behind a `Mutex`, a count that is a watch | `push`, `push_all`, `await_next`, `try_pop_next`, `drain`, `await_empty`, `close` | count and deque change in different steps | whoever has reserved an item finds one |
| `Channel` (`async/channel.hpp`) | a raw pointer, two counts that are watches | `read`, `write`, their `async_` forms, `consume`, closes, destructor | the pointer is plain memory; wakeups may be late | objects in order, alive while read |
| `Grant` (`async/grant_decl.hpp`, `grant_impl.hpp`) | pool and grants, a watch each | `issue_grant`, `spend`, `spend_all`, `subsume`, `swap`, moves, `revoke`, `grow`, `close` | every transfer is several steps | the counts always add up |
| `Task` (`async/task_decl.hpp`, `task_impl.hpp`) | one atomic state word, two contexts, handler list, sleep timer | activation, `await`, `sleep`, `yield`, `join`, `wake`, stack dump, destructor | signal, suspension, dump and completion race on one word | activated once at a time, no signal lost |
| `StreamBuffer` (`async/stream_buffer*`) | a ring of bytes, two positions that are watches | prepare/commit, fetch/consume, `write_all`, async forms, closes | wrap-around, bytes rewritten while waiting, end of stream | the reader reads exactly what was written |
| `Latch`, `Future` (`async/latch.hpp`, `future_*.hpp`) | three-state watch and an `Optional` | `set_value`, `set_error`, `await`, `async_get` | value published by a state change | value seen complete, every getter answered |
| `Pin`/`Pinnable` (`async/pin.hpp`) | a count | `pin`, `unpin`, destructor | destructor races with the last unpin | no use after destruction |
| `WorkerPool`, `WorkContext`, `slice_work` | per-worker queues, a completion count, a reference count | `async_run`, `halt`, `join`, `await_done` | completion against destruction | all work done when the wait returns |
| Parallel state-machine checker (`state_machine_model/`) | shards, batches in flight, stalled flags | push, pop, flush, termination | distributed termination | terminates, and only when nothing is pending |
| `RadixQueue` (`radix_queue.hpp`) | ring of radix-coded segments | `push`, `pop` | radix product at 64 bits | FIFO of digits |
| HTTP client and server (`http/`) | queues, stream buffers, channels, pins, tasks per connection | request and response pipelines | failures half way through a request | each response to its own request |
| `BufferSource` (`async/buffer_source*.hpp`, `fetch.hpp`) | wrapped source, remaining count | `fetch_at_least`, `consume`, combinators | nested combinators | the bytes of the composition |
| Fake executor and time (`async/fake_*`) | a handler list, a timer heap, the time | `post`, `run`, `schedule_timer`, `advance_time` | timers against the advance | every due timer fires once |
| Backoff, rate limiter (`async/backoff.hpp`, `rate_limiter.hpp`) | attempt counts, elapsed time | `update_retry_state`, `poll` | overflow, zero limits | delays bounded and monotone |
| Parallel algorithms (`algo/`) | none between calls | merge, running total, transform, copy, accumulate | shard boundaries | equal to the sequential result |
| `seq` (`seq/`, `seq.hpp`) | cursor and cached items | `peek`, `next` | cached items of `group_by`, `kmerge`, ... | `peek` says what `next` returns; results as specified |
| Intervals (`interval.hpp`) | values | intersection, `without`, ... | empty and touching intervals | equal to the set operations |
| `Runtime` (`runtime.hpp`) | thread pool, current scheduler, table of condition slots | `halt`, `join`, `exchange`, `lock`, `notify`, `await_condition` | halt and join from several threads; objects that share a slot | join means gone; no notification lost |
| Handlers (`handler.hpp`) | intrusive lists, one small memory | `push_emplace`, `invoke_all_handlers`, moves | a handler that runs makes and destroys others | every handler ends once |
| Metrics (`metrics/`) | registry, dumper thread, atomic collectors | `add`, `remove`, `scoped_add`, `dump`, `update` | a metric destroyed while it is read | reads only what lives; no update lost |
| `Status` (`status.hpp`) | table of codes, two maps of categories | registration, `to_status`, `Update` | registration by several threads, caches | a code leads back to its value |
| `Optional`, `StatusOr`, `SmallFn`, `TypeErasedStorage` | storage and a flag | copy, move, assign, emplace | aliases of themselves | made and destroyed once |
| Protobuf streams (`protobuf/`) | a chunk handed out | `Next`, `BackUp`, `Skip` | what was backed up | the bytes of the stream |
| Debug info, assertions, buffers, language utilities | | | wrappers, printing and templates | |

### The modules

| Module | Models |
|---|---|
| `Watches` | operators on a watch *as its users see it*: `Changed`, `Notified`, `Closed`, the two looks of a waiter, `Registered`, `Handled` |
| `WatchSpec` | the abstract watch made of these operators: who may do what, and its fairness |
| `WatchAtomic` | the lock-free implementation, one access to shared memory per action, shown to implement `WatchSpec` |
| `WatchAtomicProofs` | what each step does to each part of the state (lemmas), the invariance proof on top, and the refinement of `WatchSpec` |
| `WatchLocked` | the implementation with a `std::mutex` |
| `Mutex`, `FifoLock` | the ticket lock over a watch; what it promises |
| `Queue`, `Channel`, `Grant`, `StreamBuffer`, `Latch` | the components built on a watch, over `Watches` |
| `WatchFacts`, `SyncProofs`, `ChannelProofs`, `QueueProofs`, `GrantFacts`, `GrantSteps`, `GrantProofs` | facts about watches and sums, and the proofs that use them: about `Mutex`, `Latch` and `Pins` in `SyncProofs`, about the others in the modules named after them |
| `Task` | one task with the workers and other threads that touch it |
| `Trampoline` | several tasks on the threads of an executor: priorities, `next_to_run_`, nested dispatches |
| `Pins`, `Handlers` | who owns a pinned object, or a handler, and when it ends |
| `Workers`, `Slicing` | worker pool, `WorkContext` and `slice_work`, with the arithmetic of the slices |
| `Parallel` | the algorithms of `algo/`, as units of work in any order |
| `Mesh`, `Radix`, `Walker` | the library's own model checkers: the parallel search, the coding of choices, the random walks |
| `FakeTime` | fake time, timers, ready handlers; in a second part, executors that count as work |
| `Runtime` | the default scheduler's threads, halt and join; in a second part, `await_condition`, `lock` and `notify` |
| `Sources`, `ProtoStreams` | `BufferSource` and its combinators; the protobuf streams over a `StreamBuffer` |
| `Http` | the HTTP client: callers, the host's task, connections with three tasks each, and a server that may fail |
| `HttpParser`, `Urls` | message heads, the chunked coding and `parse_url`, over small alphabets |
| `Pacing` | `with_retry_policy` with exponential backoff, and the rate limiter |
| `Metrics` | registry and dumper; in a second part, the atomic metrics |
| `Seq` | the lazy sequences: objects with `peek` and `next` against the sequence a pipeline stands for; in a second part, `group_by` |
| `StatusCodes` | registration of enums and error categories, `to_status` and its caches |
| `Holders` | `Optional`, `StatusOr`, `SmallFn`, `TypeErasedStorage` |
| `Intervals` | half-open and closed intervals against sets of points |
| `MCWatchAtomic` | values of constants that a `.cfg` cannot write |
| `MCTask`, `MCAsync`, `MCData` | unions: a behaviour is one of one component, chosen at the start; the components share variables, and a property says what it says of each |

`WatchAtomic` is modelled at the level of its memory accesses and shown to
implement `WatchSpec`. The components above it use `Watches`, so that each of
them is checked against everything a watch may do, late notifications
included, without the spin lock's states. The same is done further up. `Queue`
uses the result about `Mutex`: a critical section is one step. `Trampoline` uses
the result about `Task`: of all who find a task ready, one claims it.
`Parallel` uses the result about `Workers`: all units have run when the wait
returns. `ProtoStreams` and `HttpParser` (its chunked coding) use the result about
`StreamBuffer`.
`Http` is the largest composition: its queue, channels, pins and
latches take only the steps that the modules about them show to matter.


## 2. How the modules correspond to the code

A module of a component with threads has a program counter per thread (in
`Grant`, the rest of the call, `todo`), and one action per access to shared
state. A module of one without has one action per call. An operation whose
steps are shared with another one is told apart by a field of `call` (or `mode`,
`call` in `WatchAtomic`). `X_SomethingWrong` beside a definition `X` is a
deliberately wrong variant of `X`: the index pairs it with the property that
notices it.

* **`Watches`.** A watch is a record: value, final status, and for each thread
  the value it waits on, the change it has still to announce, and the result its
  handler is called with. A change and its announcement are two steps; a
  notification wakes everybody registered at that instant, with the value of
  the change it belongs to, which need not be current any more.
* **`WatchAtomic`.** `value`, `spin_state` (the set of its bits) and `observers`
  are the members of those names; the other variables are the locals of each
  thread's call. `set_value` and `fetch_*` are `ReadModifyWrite`; the CAS loops
  of `modify`, `modify_if` and `await_modify` are `ModifyIteration` and
  `ModifyNone`; `await_true` and `await_equal` are `AwaitTrueTest`; `async_wait` is
  `WaitLoad` .. `WaitUnlock`; `notify` is `NotifyLoad`, `NotifyLock`,
  `NotifyTake`, `Invoke`; `close` is `CloseLock`, `CloseTake`, `Invoke`.
* **`Mutex`.** `acquire` is `DrawTicket` and the loop over `current_ticket_`;
  `release` increments it and notifies.
* **`Queue`.** `push` and `push_all` test, store (`Emplace`), raise the count
  (`Raise`) and notify; the consumers lower the count with the CAS loop and then
  take an item (`pop`). No step looks into an item, so the deque is its length.
* **`Channel`.** The objects are the numbers of the writes and 0 is the null
  pointer. A failed `BATT_CHECK` and a use of the null pointer are places of
  their own (`panic_active`, `panic_count`, `crash`).
* **`Grant`.** An operation is a sequence of steps on one watch each (`take`,
  `exchange`, `put`, `add`, `announce`, `close`, ...); the count in a thread's
  hand between two of them is `got`. All threads may use all grants at once, as the
  class permits.
* **`Task`.** `state` is `state_` as the set of its bits. Workers are executor
  threads that run activations and fire the awaited events; callers create,
  join, wake, dump and destroy the task. A CAS loop that recomputes its target
  from what it read last is one action, its successful iteration.
* **`StreamBuffer`.** `pre_transfer` is `Load` .. `Again`, `get_buffers` the
  operator of that name. The n-th byte of the stream is the number n, and
  memory is a function of cells, the ring followed by `tmp_buffer_`, so that an
  overwritten or stale byte is seen. `write_type`, `fetch_type`, `read_type`,
  `consume_type` and `operator<<` are these operations with a fixed count. The
  model assumes what the class expects of its users: the writer does not write
  after it has closed its side, and `close()` is called by the writer.
* **`Trampoline`.** `posted` is the executor's queue, `next` is `next_to_run_`,
  `stack` the nested calls of `activate_task` and `depth` `nesting_depth()`, each of
  one thread; `depth` counts modulo a small word, as a `usize` does.
* **`WatchLocked`.** A critical section of the `std::mutex` is one step; the handlers
  are invoked one by one after it.
* **`Latch`.** `kInitial`, `kSetting` and `kReady` of the watch and the plain
  `Optional` beside it, written in between. Each thread makes one call; the value
  it sets is its own name.
* **`Pins`.** `unpin` is two steps: the count goes down, then the destructor is
  told. A task gets a pin from the owner or from a task that keeps its own.
* **`Handlers`.** `calls` is the stack of handlers that run. A running one may
  do everything user code may do with handlers.
* **`Workers`.** `worker` holds each queue and the place in the worker's loop, `client`
  the plan of `slice_work` and the place in it, `context` the `work_count_` and
  `ref_count_`. A push is two steps, because `halt` may come between them. Only the
  first slice of a client submits further work.
* **`Mesh`.** A branch is a state with the choices made so far; a batch is a
  sequence of branches. `pending`, `recvq`, `stalled` and `latches` are the members
  of `ParallelModelCheckState` and of `check_model`. The graph searched is chosen at
  the start, with a hash (`owner`) and the states that violate an invariant (`bad`).
* **`Runtime`.** `io` holds the work guard and handlers of each `io_context`, `pool` the
  threads, `caller` those who halt and join. In the part on conditions `slotOf` is the hash.
* **`Http`.** `call` is the caller, `host` the host's task, `conn` a connection with
  its tasks `process_requests`, `fill_input_buffer` and `process_responses` (`req`,
  `fill`, `rsp`). A reply is a head and body tokens. `trouble` bounds what goes wrong:
  the server's errors, socket failures, early hang-ups, responses dropped unread. A reply
  that ends the connection is in order when no other call waits for an answer.
* **`HttpParser`, `Urls`, `Seq`, `Sources`, `Radix`, `Intervals`, `Parallel`**
  translate functions as operators and compare them with a definition that does
  not follow the code: the parts a URL was built of, the sequence a pipeline
  denotes, the sequential algorithm, a set of points.
* **`StatusCodes`.** `registered`, `globalMap` and `threadMap` are the table of
  codes and the two caches of `status_from_error_category`.
* **`Metrics`.** One user thread and the dumper's thread. Names are distinct, the
  dumper is halted once, and `StatsMetric::reset` is called while nobody updates.

## 3. What TLC checks

| Run | Instance | Distinct states | Shows |
|---|---|---|---|
| `watch_atomic` | 3 threads (symmetric), a one-bit value, all close codes | 606,632 | the inductive invariant; the spin lock excludes; `kWaiting` is exact whenever the lock is free; no lost wakeup; one handler per waiter; one final status; every step is a step of `WatchSpec` |
| `watch_atomic_live` | 2 threads | 56,000 | with weak fairness only, a waiter whose value is gone or whose watch is closed is woken; with a spin lock that starves nobody, the fairness of `WatchSpec` |
| `mutex` | 3 threads, 6 tickets | 32,000 | mutual exclusion, `acquire`'s check, everybody served, implements `FifoLock` with its fairness |
| `queue` | 3 threads, 2 items, batches of up to 2 | 469,000 | count and deque agree up to the calls in flight; `pop_next_or_panic` never panics; readers and `await_empty` are released |
| `grant` | 2 threads, 2 grants, total size 1 growing to 2 | 267,000 | conservation; nobody waits for ever for a count its source has, or on a closed source that has come to rest |
| `task` | one task with 2 workers and 2 callers; or 3 tasks on 2 workers, one of them urgent | 45,602 | activated and executed once at a time; no `BATT_CHECK` fails; completion handlers called once; signals, preemptions and joins are not lost; among several, no activation is lost or made twice and the nesting limit holds |
| `stream_buffer` | ring of 3, stream of 5 bytes | 482,000 | the reader reads the stream; the first buffer is long enough; the sides never overlap; no early end of stream; both sides are released |
| `http` | 2 calls, up to 2 connections, 5 kinds of reply | 450,157 | a caller gets the reply to its own request; no request or response is destroyed before the tasks are done with it, unless its caller gives it up unread; while nothing goes wrong every call returns |
| `async` | the 16 parts of `MCAsync`, 1 to 3 threads each | 232,611 | see below |
| `data` | the 11 parts of `MCData`, all inputs up to a length | 416,622 | see below |
| `channel_read_doc`, `status_lookup_doc` | | | counterexamples, see section 5 |

`async` and `data` are unions: each property belongs to one or two components.

| Property | Of | Says |
|---|---|---|
| `HandsOver` | `Channel` | objects are read once and in order, and are alive until the reading side is closed; a successful write was consumed |
| `LatchAgrees` | `Latch` | one `set_value` wins; everybody who gets a value gets the winner's |
| `LockedWatchKeeps` | `WatchLocked` | a waiter is in one list, once; nobody sleeps through a change or the close |
| `PinProtects` | `Pins` | the destructor outlasts every pin and every unpin under way |
| `HandlersEndOnce` | `Handlers` | each handler ends once; its storage is free when it runs |
| `DoneMeansDone` | `Workers`, `Runtime` | after `await_done` all elements are processed, once, and no worker touches the context; after `join` the threads are gone |
| `MeshExplores` | `Mesh`, `Walker` | the queues close only when no branch is left anywhere, and then every branch was explored once, by its owner; the seed reported leads to the rejected state, with a `starting_seed` or without |
| `FakeContextKept` | `FakeTime` | a fake sleep ends once and not early; work counts are exact |
| `DeliversOnce` | `Sources`, `ProtoStreams` | every byte is handed on once, in order |
| `MetricsAgree` | `Metrics` | the dumper reads no metric that is gone, and its last row has all that came before `halt`; no update is lost |
| `WaitersReleased` | ten of them | whoever waits for what has happened, or must happen, stops waiting (of the clients of a pool, those none of whose work `halt` has dropped) |
| `LockedWatchReleases` | `WatchLocked` | `await_true` returns after a close, or when its predicate comes to hold and stays so |
| `SeqAgrees` | `Seq` | whatever mixture of `peek`, `next`, copies and moves, a pipeline yields what it stands for, and `peek` tells what `next` will return (where section 5 does not say otherwise) |
| `ParallelAgrees` | `Parallel` | units that may overlap in time write to different places; the result is the sequential one |
| `NumbersAgree` | `Radix`, `Intervals` | items come out as they went in; the operations are those of sets |
| `HttpReads` | `HttpParser`, `Urls` | heads parse the same however they arrive; chunked bodies come back, wherever what has arrived ends; URLs come apart into their parts |
| `PacingKept` | `Pacing` | as many tries as a maximum other than 0 says; delays after the first capped for every policy, and as the formula says where the product fits the word; no more than rate and burst |
| `StatusesTell` | `StatusCodes` | a code leads back to its value, whoever registers or asks first |
| `ObjectsKept` | `Holders` | made once, destroyed once, and the last one put there is the one held |

Where a component does not keep a promise for some input or use, the instance
or the property leaves that out, and section 5 says so.

**Bounds.** Three threads are the fewest with two racing parties and a waiter,
or with two waiters and one notifier; a one-bit value lets a value come back to
what a waiter has seen, the case in which a notification is out of date. Six
tickets let every thread queue twice. Two items and three threads let two
readers race for one item while a third closes or waits for emptiness. A third
write is the first that begins while wakeups of two earlier ones can be late.
A ring of 3 with 5 bytes wraps with regions that end before, at and after the
end of the ring. Two workers let a signal on one race with the suspension on the
other; two callers let a dump, a wake or a join race with another one. Two equal
tasks and an urgent one are the fewest with a task in `next_to_run_`, one that is
preempted for it and one that finds the place taken. Two calls and two
connections let requests be pipelined on one connection or spread over two; the
number of things that may go wrong is what `MaxConnections` leaves (one failure with
one connection, none with two). Two shards, three states and up to two choices a
step let a batch be in flight while its receiver stalls. In `Radix`, `Pacing`,
`Intervals` and `Trampoline` the machine word is 3 to 5 bits wide, so that
products and sums reach its end. `CHECK_DEADLOCK FALSE` is stated because callers may
stop calling, and because the bounded supplies (tickets, items, writes, bytes)
run out.

**Fairness.** Weak fairness of the steps *inside* a call, never of starting
one: a thread that has entered an operation is scheduled until it returns.
`Mutex` adds that the holder releases (`Lock` is a scope guard). Nothing makes
a caller close, push, consume or recycle: liveness is stated as "once the
condition holds". `Task` has strong fairness for two spinning acquisitions
(`RunLock`, `JoinLock`): the locks are bits of the state word that other threads
may take again and again, and the code relies on finding them free. For
the watch, the same assumption (`LockFairness`) is only a hypothesis of
`ImplementsWatchFairness`; `ChangeWakes` holds without it. In `MCAsync` one action
`FairStep(n)` stands for the n-th thread of whichever component the behaviour is
about. `Http` assumes that tasks and callers run on, that a caller does not keep a
response for ever, and that the server answers and hangs up at last
(`MustGoOn`). No step of `Http` can be taken for ever, so one weak fairness
condition on all of them is the same as one on each. `Sources` assumes that the
stream ends (`ProduceEnd`): a consumer of a whole stream has nothing else to wait for.

`grant` keeps other calls off a grant while it is being swapped
(`ConcurrentSwaps = FALSE`), and `task` lets the owner destroy the task only after
the last worker has left it (`PatientOwner = TRUE`); section 5 says why.

## 4. What is proved

TLAPS proves, for any set of threads and any constants that satisfy the named
assumptions:

* **`WatchAtomicProofs`** (from `WatchConstants`: the transforms are functions on
  the values, the status codes are distinct and no values):
  `Invariance` (`Spec => []WatchInv`), and from it `TypeCorrect`, `SpinLockSafe`,
  `FlagsSafe`, `WakeupSafe` and `WaitersTold`; and `WatchImplements`, the refinement. `NoLostWakeup` alone is not inductive. A notifier
  may skip the lock only because `kWaiting` is exact, and that holds while the
  lock is held, too (`FlagsExact`); it may take the whole list only because
  nobody else holds the lock (`SpinLockExclusive`); and a handler it calls may
  only move a thread that is blocked and is in no other list (`HandlersBlocked`,
  `HandlersDistinct`, `HandlersHeld`). `LocalsDefined` says that the values a
  thread is about to use are there. `WatchInv` is their conjunction, and the run
  `watch_atomic` checks it as an invariant. There is
  one lemma per kind of step that says what it does to each part of the state
  (`TypeStep`, `LocalEffect`, `AcquireEffect`, `RecheckEffect`, `ReleaseEffect`,
  `PushEffect`, `TakeEffect`, `InvokeEffect`, and `StepKinds`, which says that there
  are no others); the invariance proof combines them per conjunct
  (`HandlersStep`, `LocalsStep`, `LockStep`, `WakeStep`, `ListedStep`, `FinalStep`).
  `WaitersTold` (`Spec => []WaitersToldOnce`) needs two conjuncts more than the
  wakeups do: a blocked thread is in some list (`WaitersListed`), and whoever is
  about to tell waiters of a close has the final status in hand
  (`OneFinalStatus`).
  `WatchImplements` (`Spec => ImplementsWatchSafety`) maps the state to an abstract
  watch (`WatchBar`): a waiter waits from the moment it is in `observers`, its
  outcome is there from the moment a notifier has taken the list, and a notice
  is what a thread that has changed the value is still to announce. Each kind of
  step is then one step of `WatchSpec` or none. `Taker`, the one who holds a handler
  taken, is well defined by `HandlersDistinct`.
* **`SyncProofs`**, about two users of a watch and about pins:
  * `Mutex` (from `MutexConstants`): `MutexSafe` and `TicketCheckSafe`, with
    `MutexInv`: the tickets in hand are distinct, between the one served and
    the next one, and without a gap (`TicketsInHand`), and what anybody has learned,
    is told or announces about the ticket served is never ahead of it
    (`TicketsLearned`). The second is what makes late notifications harmless.
    `MutexRefines` (`Spec => GrantsInOrder`) shows the safety part of
    `ImplementsFifoLock`: the holders of the tickets, in order, are the queue of
    `FifoLock`. Because there is no gap, every place of the queue has a holder.
  * `Latch` (from `None` being no state of the latch, a hypothesis of the theorem):
    `LatchSafe` (`LatchSpec => []LatchAgrees`), with `LatchInv`. That a reader gets the
    value set follows from two facts about time: one thread changes the state
    from `kInitial`, and has stored the value before it changes it to `kReady`
    (`LatchSetOnce`); and a reader may be told an old state, but `kReady` is never
    left, so that who hears of it finds the value (`LatchHeard`). The run `async` checks
    `LatchInv` and `LatchAgrees` of the instance it makes of the module.
  * `Pins` (from finitely many tasks that pin, a hypothesis of the theorem):
    `PinSafe` (`PinSpec => []PinProtects`). `PinProtects` is inductive: the count is the
    owner's one, the pins held and the unpins under way, and the proof is about the
    cardinalities of the last two.
* **`ChannelProofs`** (from `ChannelConstants`: two threads, and `None` and
  `kClosed` distinct and no counts): `ChannelSafe` (`Spec => []HandsOver`), with `ChannelInv`.
  `OneInFlight` is not inductive: the two sides must take turns (`TakeTurns`), what
  the writer hears of the read count must not be ahead of it (`HeardIsPast`), and
  the pointer must lead to the next object, lent by a writer that waits for it to
  be given back (`PointsToNext`).
* **`QueueProofs`** (from `QueueConstants`: finitely many threads):
  `QueueInvariant` (`Spec => []QueueInv`). `NeverPanics` is not inductive, and neither
  is it with `CountExact`, an equation between the count, the deque and a sum over
  all threads: a thread that is about to store must be a producer and one
  that is about to pop a consumer (`CallsInPlace`), and what is being pushed must
  fit under the bound (`PushesFit`).
* **`GrantFacts`, `GrantSteps`, `GrantProofs`** (from `GrantConstants`: finitely many
  threads and grants, and an issuer that is none of them; and `~ConcurrentSwaps`: a
  grant that is swapped is used by no other call at that time):
  `GrantInvariant` (`Spec => []GrantInv`) and
  `IssuerCheckUnlessSwapsOverlap`, the assertion of `~Issuer`. `Conservation` alone says nothing
  about what a step is about to do. `CallsPlanned` lists what a call may have
  left to do while it has a count in hand, and when not; `TransfersPlaced` gives
  every `transfer_impl` a place of its own for the new grant; `CallsExclude` keeps
  other calls away from a grant that is swapped or destroyed; with it,
  `OverwritesNothing` says that whatever is stored over is zero. `GrantFacts` has
  the facts about sums and short sequences, the frame `OwnStep` (what is left
  to show when one thread changes one watch) and the steps that move a
  count; `GrantSteps` the others, `transfer_impl` among them; `GrantProofs` the
  calls and the theorems.
* **`WatchFacts`**: what the operators of `Watches` do to a watch, and the laws of
  `Total`, the sum of a function over a finite set. It is the number of
  pairs of an argument and one of its units, because the laws of `Cardinality`
  are at hand and a recursive sum would need an induction.

Only model-checked: all liveness and fairness properties (the prover does not
handle them), with the fairness parts of the two refinements, and all properties
of the other modules. What recursive operators compute (`Seq`, `HttpParser`)
is out of the prover's reach altogether, and so is `StreamKept` as it stands:
the cells of the buffers handed out are a concatenation (`FlattenSeq`), whose laws
need an induction over sequences.

The leaves name the prover that finds them (`Zenon`, `SMT`) where the default
order would spend its time limit first, and a longer limit where they come near
to it.

## 5. Where the code and its documentation disagree

Two runs expect a violation. Each checks one property that quotes a comment of
the code, and TLC's counterexample is what the code does.

* `channel_read_doc` (`ReadDoc`): `Channel::read` waits once for a change of
  `write_count_` and dereferences `value_`. The late notification of a write
  already consumed ends the wait of the next read, and `value_` is null.
* `status_lookup_doc` (`LookupReturns`): for an error code whose category is
  registered and whose value is not, `status_from_error_category` calls itself while
  it holds the mutex of the global map, and locks it again
  (`status.hpp:1093`).

Some modules state a documented promise that the code does not keep; no run
keeps the counterexample, and the runs avoid or except the case.

* `ThreadSafeDoc` (`Grant`): `swap` is listed among the methods that are
  thread-safe with respect to each other (`grant_decl.hpp:168`), and its last
  `set_value` overwrites what another thread has added in between.
* `JoinDoc` (`Task`): `join` may return as soon as the state is terminal, while the
  worker has still to empty the list of completion handlers, so that `join` is not
  sufficient before the destructor. `WakeDoc`: `run` takes any `kSleepTimerLock` it
  sees after a yield for the task's own; a concurrent `wake` leaves the task with a
  lock that nothing releases.
* `ErrorsReported` (`Http`): a failure to serialize the request, or to read the
  response, leaves the caller of `http_request` waiting (`http_client.hpp:313-315`).
* `NoCheckFails` (`Mesh`): two assertions on counters that other shards change
  between two looks (`exhaustive_model_checker.hpp:296`,
  `parallel_model_check_state.hpp:130`).
* `ObjectStays` (`Channel`): "the referred object will stay valid until
  Channel::consume is called" (`channel.hpp:64-66`). `close_for_read` ends the write at
  once, and its object may go while the reader holds it. `HandsOver` and the theorem
  `ChannelSafe` speak of the time until the reading side is closed.
* `NoMaximum` (`Pacing`): `max_attempts` 0 is documented as "no maximum"
  (`backoff.hpp:58`) and makes one attempt.
* `QueuedInTime` (`FakeTime`): a timer whose time has passed when it is queued waits
  for the next `advance_time` (`fake_time_service_decl.hpp:85-86`).

Further observations made while modelling:

* Watch: `WatchAtomic::await_not_equal` may return a value equal to `last_seen`
  (`watch_decl.hpp:748`; the comment at 592 excludes it). `Watch<T>::modify` returns
  the new value, the atomic `modify` and `modify_if` the old one, each against its
  comment (134-135).
* `Channel`: the checks in the handlers of `async_read` (135) and `async_write` (164)
  can fail on a late notification; a write after `close_for_read` panics on
  `is_active()` (146, 205) although the comment at 74 describes an error status. The
  destructor waits for the read count, not for `consume`: it may be over while
  `consume` has still to call the handlers of the count it has raised (44).
* `Grant`: `g.swap(g)` loses the count; `issue_grant` succeeds on a closed issuer that
  still has the count; a close may go unnoticed while the value keeps changing.
* `Task`: a task preempted inside the `fn` of an `await`, before `fn` has stored the
  handler, is never signalled. `nesting_depth()` is thread-local, but a preempted
  task leaves the scope that restores it on whatever thread it resumes on: one
  thread's count stays too high and the other's wraps below zero, after which
  that thread always posts instead of dispatching. The limit itself holds.
* `StreamBuffer::write_all` loops over `prepare_at_least(1)`; its comment describes
  `prepare_exactly`.
* `Sources`: `consume_buffers_iter` returns `count`, not offset and count
  (`buffer.hpp:134-154`), so that `write_to` over a prepended header repeats or loses
  bytes after two partial writes inside one buffer (`buffer_source.hpp:168-169`). The
  headers of the instance have buffers of at most two bytes, where that cannot happen.
  `write_to` over a `take_n` with nothing left waits for one more byte, and is left out.
* HTTP client: a dead connection stays in `connection_tasks_`; after `Connection: close`
  the requests task goes on taking requests; the look of the host's task at the
  queue can miss one (`CallsReturn` holds all the same, because the connection takes
  it); the destructor of a message and a connection that writes to its channel can
  wait for each other. A message is a `Pinnable` by inheritance, so that its channels and
  its state are destroyed before `~Pinnable` waits for the Pins; a response given up
  before its data was asked for is then written to after that (`Drop`, which
  `ObjectsLive` excepts), and the last look of `await_set_data`, or the notification in
  `set_value`, may come after it too. The chunk decoder is asked not to consume the trailer, so that
  its final CRLF precedes the next head. A body in chunks is therefore not among the
  replies of `Http`.
* Chunked coding: an empty body is encoded as `"\r\n0\r\n"`, which the decoder rejects
  (the instance has no empty body; a tab is treated as the space is, and is not a
  character of its own in the model). `HttpParser`: folded headers print as `": value"`;
  a block without headers is never found complete once `last_len` is not 0.
* `Urls`: a user with a password is read as host and port; a query or fragment that
  follows host or port directly is not recognised; an empty port is read as an
  uninitialized number; some text after `]` reaches a panic that
  "should not be possible". The instance has a path wherever there is a query.
* `Pacing`: the first delay is not capped, and the product may wrap at 64 bits, which
  makes a delay shorter than the one before it. The instance has such policies.
* `StatusCodes`: the first code of every group counts as ok; `Update` replaces
  `kUnknown` by an ok status; a group of `kGroupSize` codes spills into the next one.
* `Holders`: an empty `TypeErasedStorage` or `SmallFn` cannot be copied or moved; an
  `Optional` or `StatusOr` assigned from an alias of its own value uses a destroyed
  object; the converting copy of `StatusOr` names a member that does not exist.
* `Intervals`: for closed intervals, `intersection_with` of disjoint ones is one point
  (`interval.hpp:133`) and `without` keeps the boundary (150); an empty
  half-open interval inside another one overlaps it; `adjacent_to` fails at the
  largest value of the type.
* `Seq`: `skip_n` yields `None` as often as it skips, so that consumers end at once.
  `peek` of a `chain` or `splice` answers `None` at the end of a half that is not the
  last one (`chain.hpp:33-35`), and that of `fuse` dereferences what its source has not
  got (`fuse.hpp:42`); the former is excepted, the latter not called.
* `Parallel`: with `max_tasks` 0 `parallel_merge` divides by zero
  (`parallel_merge.hpp:175-178`); the instance begins at 1.
* `WorkerPool`: work submitted after `halt` is dropped, and whoever waits for it waits for
  ever.
* Metrics: the destructor of a `MetricDumper` that was halted sets its promise again
  and terminates; `add` of a metric of several parts moves the labels into the first
  and adds the parts in critical sections of their own; `StatsMetric<double>` starts
  with the smallest positive number as maximum.
* Runtime: `join` called by a thread of the pool joins itself; `reset` may delete what
  another `halt` is using. Model checkers: `starting_seed` gives every shard the same
  seeds, and the initial state's invariants are not checked by the random walks. A shard
  of the parallel search that finds a violation leaves its loop without closing the
  queues, and the others then wait for it; that the search ends is checked for models
  whose invariants hold.

## 6. What is not modelled

* Components: `Continuation`, debug info and task dumps (wrappers around
  `boost::context`, and printing); assertions and error macros (a failed assertion
  is a state in the modules, an early return a branch); buffers and containers
  (memory layout); language utilities (templates and macros without state).
* Of modelled components: `Runtime::reset` (and with it the closing of the counters that
  `await_condition` waits on, which nothing else closes), the handler of `SIGINFO` and
  `single_thread_executor`; the trace printed for a violation by the model checkers;
  the HTTP server, which accepts connections and does nothing else yet, and the
  resolver; `RateMetric`, approximate by design, and the labels of metrics; the `seq`
  operations that only rename another one.
* Inside the modelled parts: 64-bit tickets and positions do not wrap;
  memory orders weaker than sequential consistency are not modelled (the code uses
  the default order on these variables); the executor, the socket, the HTTP server
  at the other end, the random generator and the clock are external and are
  represented by what the code may observe of them.

## 7. Still to prove

`StreamBuffer` (no overlap; it needs the arithmetic of positions modulo the capacity,
apart from the laws of concatenation above), `Task` and `Trampoline` (one
activation), and the client's side of `Http` (each response to its own request).
