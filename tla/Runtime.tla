------------------------------ MODULE Runtime ------------------------------
(***************************************************************************)
(* Runtime and Runtime::DefaultScheduler (runtime.hpp): one io_context, one*)
(* work guard and one thread per CPU; tasks are spread round robin; halt   *)
(* and join may be called by any thread, at the same time and repeatedly.  *)
(* FakeTaskScheduler::ScopeGuard puts another scheduler in place and back. *)
(***************************************************************************)
EXTENDS Naturals, Sequences

CONSTANTS
  CpuCount,        \* cpu_count_
  Callers,         \* threads that use the Runtime
  NoCaller,        \* the holder of join_mutex_ when it is free
  MaxTasks         \* bound on the tasks that are scheduled

VARIABLES
  halted,          \* Runtime::halted_ and DefaultScheduler::halted_
  scheduler,       \* scheduler_: "default" or "fake"
  roundRobin,      \* round_robin_
  io,              \* for each io_context [guard, stopped, posted]
  pool,            \* thread_pool_, the CPUs of the threads not joined
  running,         \* what the thread of each CPU does: "run", "task", "gone"
  joinMutex,       \* who holds join_mutex_
  caller           \* [pc, at, saved, joined]: where each caller is

runtimeVars == <<halted, scheduler, roundRobin, io, pool, running, joinMutex, caller>>

-----------------------------------------------------------------------------
Cpus == 0 .. CpuCount - 1
Free == [guard |-> TRUE, stopped |-> FALSE, posted |-> 0]
RuntimeInit ==
  /\ halted = [runtime |-> FALSE, scheduler |-> FALSE]
  /\ scheduler = "default" /\ roundRobin = 0
  /\ io = [i \in Cpus |-> Free]
  /\ pool = [i \in 1 .. CpuCount |-> i - 1] /\ running = [i \in Cpus |-> "run"]
  /\ joinMutex = NoCaller
  /\ caller = [c \in Callers |-> [pc |-> "idle", at |-> 0, saved |-> "none", joined |-> FALSE]]

CallerAt(c, pc) == caller[c].pc = pc
Moves(c, pc, at) == caller' = [caller EXCEPT ![c] = [@ EXCEPT !.pc = pc, !.at = at]]

\* A Task is posted to the io_context that schedule_task returns; it runs nowhere
\* in this model if that is the fake one.
Chosen(n) == n % CpuCount
schedule_task(c) ==
  /\ CallerAt(c, "idle") /\ scheduler = "default" /\ roundRobin < MaxTasks
  /\ roundRobin' = roundRobin + 1
  /\ io' = [io EXCEPT ![Chosen(roundRobin)].posted = @ + 1]
  /\ UNCHANGED <<halted, scheduler, pool, running, joinMutex, caller>>

\* ScopeGuard, one at a time.
exchange_task_scheduler(c) ==
  /\ CallerAt(c, "idle") /\ caller[c].saved = "none" /\ scheduler = "default"
  /\ scheduler' = "fake"
  /\ caller' = [caller EXCEPT ![c].saved = scheduler]
  /\ UNCHANGED <<halted, roundRobin, io, pool, running, joinMutex>>
RestoreScheduler(c) ==
  /\ CallerAt(c, "idle") /\ caller[c].saved # "none"
  /\ scheduler' = caller[c].saved
  /\ caller' = [caller EXCEPT ![c].saved = "none"]
  /\ UNCHANGED <<halted, roundRobin, io, pool, running, joinMutex>>

-----------------------------------------------------------------------------
(* halt: Runtime's flag, then the scheduler's; guards, then stops.  After  *)
(* it scheduler_->halt() finds the flag set, or is the fake one's, which   *)
(* does nothing.                                                           *)

halt(c) ==
  /\ CallerAt(c, "idle")
  /\ halted' = [halted EXCEPT !.runtime = TRUE]
  /\ IF halted.runtime THEN UNCHANGED caller ELSE Moves(c, "halt", 0)
  /\ UNCHANGED <<scheduler, roundRobin, io, pool, running, joinMutex>>
HaltScheduler(c) ==
  /\ CallerAt(c, "halt")
  /\ halted' = [halted EXCEPT !.scheduler = TRUE]
  /\ IF halted.scheduler THEN Moves(c, "idle", 0) ELSE Moves(c, "guards", 0)
  /\ UNCHANGED <<scheduler, roundRobin, io, pool, running, joinMutex>>
ResetGuard(c) ==
  /\ CallerAt(c, "guards")
  /\ io' = [io EXCEPT ![caller[c].at].guard = FALSE]
  /\ IF caller[c].at + 1 < CpuCount THEN Moves(c, "guards", caller[c].at + 1) ELSE Moves(c, "stops", 0)
  /\ UNCHANGED <<halted, scheduler, roundRobin, pool, running, joinMutex>>
StopIo(c) ==
  /\ CallerAt(c, "stops")
  /\ io' = [io EXCEPT ![caller[c].at].stopped = TRUE]
  /\ IF caller[c].at + 1 < CpuCount THEN Moves(c, "stops", caller[c].at + 1) ELSE Moves(c, "idle", 0)
  /\ UNCHANGED <<halted, scheduler, roundRobin, pool, running, joinMutex>>

-----------------------------------------------------------------------------
(* join: default_scheduler_->join(), then scheduler_->join(), which is the *)
(* same again or the fake one's, which does nothing.                       *)

\* join() takes join_mutex_ before it looks at the pool.
\* Mutant: it takes no mutex.
CanJoin_Always(c) == TRUE
CanJoin(c) == joinMutex = NoCaller
join(c) ==
  /\ CallerAt(c, "idle") /\ ~caller[c].joined /\ CanJoin(c)
  /\ joinMutex' = c /\ Moves(c, "join", 1)
  /\ UNCHANGED <<halted, scheduler, roundRobin, io, pool, running>>
\* at is 1 for the first of the two joins, 2 for the second.
JoinAgain(c) ==
  /\ CallerAt(c, "again") /\ CanJoin(c)
  /\ joinMutex' = c /\ Moves(c, "join", 2)
  /\ UNCHANGED <<halted, scheduler, roundRobin, io, pool, running>>
\* thread_pool_.back().join() waits for the thread.
AwaitThread(c) ==
  /\ CallerAt(c, "join") /\ pool # <<>>
  /\ running[pool[Len(pool)]] = "gone"
  /\ Moves(c, "pop", caller[c].at)
  /\ UNCHANGED <<halted, scheduler, roundRobin, io, pool, running, joinMutex>>
PopThread(c) ==
  /\ CallerAt(c, "pop")
  /\ pool' = SubSeq(pool, 1, Len(pool) - 1)
  /\ Moves(c, "join", caller[c].at)
  /\ UNCHANGED <<halted, scheduler, roundRobin, io, running, joinMutex>>
AllJoined(c) ==
  /\ CallerAt(c, "join") /\ pool = <<>>
  /\ joinMutex' = NoCaller
  /\ IF caller[c].at = 1 /\ scheduler = "default"
     THEN Moves(c, "again", 0)
     ELSE caller' = [caller EXCEPT ![c] = [@ EXCEPT !.pc = "idle", !.at = 0, !.joined = TRUE]]
  /\ UNCHANGED <<halted, scheduler, roundRobin, io, pool, running>>

-----------------------------------------------------------------------------
(* io_context::run of the thread of a CPU, external: it runs what is posted*)
(* until it is stopped, or there is neither work nor a guard.              *)

RunTask(i) ==
  /\ running[i] = "run" /\ ~io[i].stopped /\ io[i].posted > 0
  /\ io' = [io EXCEPT ![i].posted = @ - 1]
  /\ running' = [running EXCEPT ![i] = "task"]
  /\ UNCHANGED <<halted, scheduler, roundRobin, pool, joinMutex, caller>>
EndTask(i) ==
  /\ running[i] = "task"
  /\ running' = [running EXCEPT ![i] = "run"]
  /\ UNCHANGED <<halted, scheduler, roundRobin, io, pool, joinMutex, caller>>
RunReturns(i) ==
  /\ running[i] = "run"
  /\ io[i].stopped \/ (io[i].posted = 0 /\ ~io[i].guard)
  /\ running' = [running EXCEPT ![i] = "gone"]
  /\ UNCHANGED <<halted, scheduler, roundRobin, io, pool, joinMutex, caller>>

-----------------------------------------------------------------------------
ThreadStep(i) == RunTask(i) \/ EndTask(i) \/ RunReturns(i)
CallerGoesOn(c) ==
  \/ HaltScheduler(c) \/ ResetGuard(c) \/ StopIo(c)
  \/ JoinAgain(c) \/ AwaitThread(c) \/ PopThread(c) \/ AllJoined(c)
RuntimeStep ==
  \/ \E c \in Callers :
       schedule_task(c) \/ exchange_task_scheduler(c) \/ RestoreScheduler(c) \/ halt(c) \/ join(c) \/ CallerGoesOn(c)
  \/ \E i \in Cpus : ThreadStep(i)
RuntimeFairness == (\A c \in Callers : WF_runtimeVars(CallerGoesOn(c))) /\ (\A i \in Cpus : WF_runtimeVars(ThreadStep(i)))
RuntimeSpec == RuntimeInit /\ [][RuntimeStep]_runtimeVars /\ RuntimeFairness

-----------------------------------------------------------------------------
\* join returns to nobody before the threads of the pool are gone, and two callers
\* never join the same thread: the one that is being joined is still in the pool,
\* and belongs to one caller.
JoinedMeansGone ==
  /\ \A c \in Callers : caller[c].joined => \A i \in Cpus : running[i] = "gone"
  /\ \A c, d \in Callers : CallerAt(c, "pop") /\ CallerAt(d, "pop") => c = d
  /\ \A c \in Callers : CallerAt(c, "pop") => pool # <<>>
\* After halt, whoever made it and however far it is, every join returns.
Halting == halted.runtime
JoinWaits(c) == Halting /\ caller[c].pc \in {"join", "pop", "again"}
JoinReturned(c) == CallerAt(c, "idle")
JoinsReturn == \A c \in Callers : JoinWaits(c) ~> JoinReturned(c)

-----------------------------------------------------------------------------
(***************************************************************************)
(* Runtime::await_condition, lock and notify (runtime.hpp): objects that   *)
(* have no condition variable of their own share a table of slots, each a  *)
(* Mutex and a Watch<u64>, found by hashing their addresses.  Writers do as*)
(* runtime.test.cpp does: lock, change the object, unlock, notify.         *)
(***************************************************************************)

CONSTANTS
  Awaiters,      \* threads in await_condition
  Writers,       \* threads that change objects
  Objects,
  Slots,
  Tables,        \* the ways get_weak_notify_slot_index may spread the objects
  Awaited,       \* the object each awaiter awaits
  Nobody,        \* the holder of a Mutex that is free
  NoCount,       \* stands for no value in a watch
  MaxChanges     \* bound on the changes each writer makes

VARIABLES
  slotOf,        \* get_weak_notify_slot_index
  condition,     \* whether what is awaited of an object holds
  counter,       \* of each slot, a watch
  holder,        \* of the mutex of each slot
  awaiter,       \* [pc, obj, observed]
  writer         \* [pc, obj, left]

weakVars == <<slotOf, condition, counter, holder, awaiter, writer>>

C == INSTANCE Watches WITH Threads <- Awaiters \cup Writers, None <- NoCount

-----------------------------------------------------------------------------
WeakInit ==
  /\ slotOf \in Tables
  /\ condition = [o \in Objects |-> FALSE]
  /\ counter = [s \in Slots |-> C!NewWatch(0)] /\ holder = [s \in Slots |-> Nobody]
  /\ awaiter = [t \in Awaiters |-> [pc |-> "observe", obj |-> Awaited[t], observed |-> 0]]
  /\ writer = [t \in Writers |-> [pc |-> "idle", obj |-> CHOOSE o \in Objects : TRUE, left |-> MaxChanges]]

\* The Mutex of a slot, as its users see it (Mutex.tla).
Locks(t, s) == holder[s] = Nobody /\ holder' = [holder EXCEPT ![s] = t]
Unlocks(s) == holder' = [holder EXCEPT ![s] = Nobody]

lock(t) ==
  /\ writer[t].pc = "idle" /\ writer[t].left > 0
  /\ \E o \in Objects :
       /\ Locks(t, slotOf[o])
       /\ writer' = [writer EXCEPT ![t] = [@ EXCEPT !.pc = "locked", !.obj = o, !.left = @ - 1]]
  /\ UNCHANGED <<slotOf, condition, counter, awaiter>>
Change(t) ==
  /\ writer[t].pc = "locked"
  /\ \E b \in BOOLEAN : condition' = [condition EXCEPT ![writer[t].obj] = b]
  /\ Unlocks(slotOf[writer[t].obj])
  /\ writer' = [writer EXCEPT ![t].pc = "changed"]
  /\ UNCHANGED <<slotOf, counter, awaiter>>
SlotOfWriter(t) == slotOf[writer[t].obj]
\* fetch_add changes the counter, and then wakes those who wait on it.
notify(t) ==
  /\ writer[t].pc = "changed"
  /\ counter' = [counter EXCEPT ![SlotOfWriter(t)] = C!Changed(@, t, @.value + 1)]
  /\ writer' = [writer EXCEPT ![t].pc = "announce"]
  /\ UNCHANGED <<slotOf, condition, holder, awaiter>>
Announce(t) ==
  /\ writer[t].pc = "announce"
  /\ counter' = [counter EXCEPT ![SlotOfWriter(t)] = C!Notified(@, t)]
  /\ writer' = [writer EXCEPT ![t].pc = "idle"]
  /\ UNCHANGED <<slotOf, condition, holder, awaiter>>

-----------------------------------------------------------------------------
SlotOfAwaiter(t) == slotOf[awaiter[t].obj]
CounterOf(t) == counter[SlotOfAwaiter(t)]
Proceeds(t, from, to) == awaiter[t].pc = from /\ awaiter' = [awaiter EXCEPT ![t].pc = to]
\* observed_ts is set, and the lock is next.
Observed(t, ts) == awaiter' = [awaiter EXCEPT ![t] = [@ EXCEPT !.pc = "lock", !.observed = ts]]

Observe(t) ==
  /\ awaiter[t].pc = "observe" /\ Observed(t, CounterOf(t).value)
  /\ UNCHANGED <<slotOf, condition, counter, holder, writer>>
AwaitLock(t) ==
  /\ Proceeds(t, "lock", "check") /\ Locks(t, SlotOfAwaiter(t))
  /\ UNCHANGED <<slotOf, condition, counter, writer>>
\* Either way the lock goes: it is reset before the wait, or destroyed on return.
CheckCondition(t) ==
  /\ Proceeds(t, "check", IF condition[awaiter[t].obj] THEN "done" ELSE "await")
  /\ Unlocks(SlotOfAwaiter(t))
  /\ UNCHANGED <<slotOf, condition, counter, writer>>
\* await_not_equal is told the counter that was read before the lock was taken.
\* Nothing closes the watch of a slot while its Runtime lives, so that it always
\* returns a value.
AwaitNotEqual(t) ==
  LET r == C!FirstLook(CounterOf(t), awaiter[t].observed) IN
  /\ awaiter[t].pc = "await"
  /\ IF r # NoCount THEN Observed(t, r) ELSE Proceeds(t, "await", "attach")
  /\ UNCHANGED <<slotOf, condition, counter, holder, writer>>
Attach(t) ==
  LET r == C!SecondLook(CounterOf(t), awaiter[t].observed) IN
  /\ awaiter[t].pc = "attach"
  /\ IF r # NoCount
       THEN Observed(t, r) /\ UNCHANGED counter
       ELSE /\ Proceeds(t, "attach", "asleep")
            /\ counter' = [counter EXCEPT ![SlotOfAwaiter(t)] = C!Registered(@, t)]
  /\ UNCHANGED <<slotOf, condition, holder, writer>>
\* The value handed over is that of some announcement, which need not be the last.
Wake(t) ==
  /\ awaiter[t].pc = "asleep" /\ CounterOf(t).outcome[t] # NoCount
  /\ Observed(t, CounterOf(t).outcome[t])
  /\ counter' = [counter EXCEPT ![SlotOfAwaiter(t)] = C!Handled(@, t)]
  /\ UNCHANGED <<slotOf, condition, holder, writer>>

AwaiterStep(t) ==
  Observe(t) \/ AwaitLock(t) \/ CheckCondition(t) \/ AwaitNotEqual(t) \/ Attach(t) \/ Wake(t)
WriterGoesOn(t) == Change(t) \/ notify(t) \/ Announce(t)
WeakStep ==
  \/ \E t \in Awaiters : AwaiterStep(t)
  \/ \E t \in Writers : lock(t) \/ WriterGoesOn(t)

\* A thread in a call goes on; a writer need not begin.
WeakFairness == (\A t \in Awaiters : WF_weakVars(AwaiterStep(t))) /\ (\A t \in Writers : WF_weakVars(WriterGoesOn(t)))
WeakSpec == WeakInit /\ [][WeakStep]_weakVars /\ WeakFairness

-----------------------------------------------------------------------------
\* What await_condition waits for holds, and nobody will change it again.
ConditionStays(t) ==
  condition[awaiter[t].obj] /\ \A w \in Writers : writer[w].left = 0 /\ writer[w].pc # "locked"
AwaitReturned(t) == awaiter[t].pc = "done"
\* await_condition returns once the condition holds for good, though objects that
\* share its slot are changed and notified as well.
ConditionsAwaited == \A t \in Awaiters : ConditionStays(t) ~> AwaitReturned(t)
=============================================================================
