-------------------------------- MODULE Task --------------------------------
(***************************************************************************)
(* batt::Task (async/task_decl.hpp, async/task_impl.hpp): one user-level   *)
(* thread, with everybody who touches it.  Workers are the threads of its  *)
(* executor: they run its activations and fire the events it awaits.       *)
(* Callers are other threads: one creates the task, and they join it, wake *)
(* it, dump its stack and destroy it.  The body of the task awaits events, *)
(* sleeps and is preempted in any order before it returns.                 *)
(*                                                                         *)
(* state_ is the set of its bits; one action is one access to it.  A CAS   *)
(* loop that recomputes its target from the value it has read last is one  *)
(* action, the iteration that succeeds.                                    *)
(***************************************************************************)
EXTENDS Integers, FiniteSets

CONSTANTS
  Workers, Callers,
  PatientOwner    \* whether the owner waits for the last worker to leave
                  \* the task before it destroys it, or only for join

ASSUME TaskConstants ==
  /\ Workers \cap Callers = {}
  /\ PatientOwner \in BOOLEAN

VARIABLES
  state,          \* state_
  self,           \* self_ holds the suspended context of the task
  scheduler,      \* scheduler_ holds the context that resumed the task
  body,           \* where the task's own code is, see Places
  sleeping,       \* whether it is inside sleep_impl
  armed,          \* whether its handler waits to be called
  result,         \* whether the await has its result
  is_preempted,   \* is_preempted_
  posted,         \* the activations in the executor's queue
  handlers,       \* completion_handlers_: the callers to call
  leaving,        \* local_handlers in run_completion_handlers
  invoked,        \* how often the handler of each caller has been called
  destroyed,      \* whether ~Task has run
  pc              \* where each thread is

vars == <<state, self, scheduler, body, sleeping, armed, result, is_preempted,
          posted, handlers, leaving, invoked, destroyed, pc>>

Threads == Workers \cup Callers

Bits == {"kNeedSignal", "kHaveSignal", "kSuspended", "kTerminated",
         "kStackTrace", "kSleepTimerLock", "kCompletionHandlersLock",
         "kSleepTimerLockSuspend", "kCompletionHandlersClosed"}

\* The task's own code: before its first activation, in the user's function,
\* taking the sleep timer's lock, about to await the timer, in await's fn
\* before and after it has given the handler away, suspended in await,
\* releasing the lock after a sleep, returned.
Places == {"new", "user", "sleep_lock", "sleep_await", "fn", "registered",
           "awaiting", "sleep_unlock", "exited"}

\* A worker: run to suspend are Trampoline::activate_task; complete to invoke
\* are run_completion_handlers.  A caller: is_done to joining are join, wake
\* is wake, and dump to dump_clear are try_dump_stack_trace.  panic is a
\* failed BATT_CHECK.
Labels == {"idle", "panic", "schedule", "schedule_post",
           "run", "resume", "hosting", "after", "after_cas", "suspend",
           "complete", "complete_close", "complete_unlock", "invoke",
           "create", "is_done", "join_lock", "join_retry", "join_unlock",
           "joining", "joined", "wake", "dump", "dumping", "dump_clear"}

TypeOK ==
  /\ state \subseteq Bits
  /\ self \in BOOLEAN /\ scheduler \in BOOLEAN
  /\ body \in Places
  /\ sleeping \in BOOLEAN /\ armed \in BOOLEAN /\ result \in BOOLEAN
  /\ is_preempted \in BOOLEAN
  /\ posted \in Nat
  /\ handlers \subseteq Callers /\ leaving \subseteq Callers
  /\ invoked \in [Callers -> Nat]
  /\ destroyed \in BOOLEAN
  /\ pc \in [Threads -> Labels]

\* The task has been built and is on the list of all tasks; its creator is
\* about to call handle_event.
Init ==
  /\ state = {"kNeedSignal"}
  /\ self = TRUE /\ scheduler = FALSE
  /\ body = "new"
  /\ sleeping = FALSE /\ armed = FALSE /\ result = FALSE
  /\ is_preempted = FALSE
  /\ posted = 0
  /\ handlers = {} /\ leaving = {}
  /\ invoked = [c \in Callers |-> 0]
  /\ destroyed = FALSE
  /\ \E c \in Callers : pc = [t \in Threads |-> IF t = c THEN "create" ELSE "idle"]

-----------------------------------------------------------------------------
is_running_state(s) == "kSuspended" \notin s

is_terminal_state(s) == {"kSuspended", "kTerminated"} \subseteq s

is_ready_state_IgnoresTrace(s) ==
  /\ "kSuspended" \in s /\ "kTerminated" \notin s
  /\ "kNeedSignal" \in s <=> "kHaveSignal" \in s
is_ready_state_SignalOnly(s) ==
  /\ "kSuspended" \in s /\ "kTerminated" \notin s
  /\ {"kNeedSignal", "kHaveSignal"} \subseteq s
  /\ "kStackTrace" \notin s
is_ready_state(s) ==
  /\ "kSuspended" \in s /\ "kTerminated" \notin s
  /\ "kNeedSignal" \in s <=> "kHaveSignal" \in s
  /\ "kStackTrace" \notin s

At(t, l) == pc[t] = l
Goto(t, l) == pc' = [pc EXCEPT ![t] = l]
SetBits(bits) == state' = state \cup bits
Clear(bits) == state' = state \ bits

taskVars == <<self, scheduler, body, sleeping>>
awaitVars == <<armed, result>>
doneVars == <<handlers, leaving, invoked, destroyed>>

\* handle_event: what thread t does next depends on the state it has made.
handle_event(t, mask) ==
  LET new_state == state \cup mask IN
  /\ state' = new_state
  /\ IF is_ready_state(new_state)
     THEN /\ Goto(t, IF is_preempted THEN "schedule_post" ELSE "schedule")
          /\ is_preempted' = FALSE
     ELSE /\ Goto(t, IF is_terminal_state(new_state) THEN "complete" ELSE "idle")
          /\ UNCHANGED is_preempted

\* The last step of the constructor.
Create(c) ==
  /\ At(c, "create")
  /\ handle_event(c, {"kSuspended", "kHaveSignal"})
  /\ UNCHANGED <<taskVars, awaitVars, posted, doneVars>>

\* schedule_to_run: of all who find the task ready, one claims it, and
\* activates it on its own thread (dispatch) or through the queue (post).
Claimed_KeepsSignal(s) == s \ {"kSuspended"}
Claimed(s) == s \ {"kSuspended", "kNeedSignal", "kHaveSignal"}
schedule_to_run(t) ==
  /\ pc[t] \in {"schedule", "schedule_post"}
  /\ IF ~is_ready_state(state)
     THEN Goto(t, "idle") /\ UNCHANGED <<state, posted>>
     ELSE /\ state' = Claimed(state)
          /\ IF ~self THEN Goto(t, "panic") /\ UNCHANGED posted
             ELSE \/ Goto(t, "idle") /\ posted' = posted + 1
                  \/ /\ t \in Workers /\ At(t, "schedule")
                     /\ Goto(t, "run") /\ UNCHANGED posted
  /\ UNCHANGED <<taskVars, awaitVars, is_preempted, doneVars>>

-----------------------------------------------------------------------------
(* Trampoline::activate_task and Task::run.                                *)

\* The executor calls the activation handler.
Queued == posted > 0
Activate(w) ==
  /\ At(w, "idle") /\ Queued
  /\ Goto(w, "run") /\ posted' = posted - 1
  /\ UNCHANGED <<state, taskVars, awaitVars, is_preempted, doneVars>>

\* A sleep timer lock that was put aside is taken again.
RunLock(w) ==
  /\ At(w, "run")
  /\ IF "kSleepTimerLockSuspend" \in state
     THEN /\ "kSleepTimerLock" \notin state
          /\ state' = (state \ {"kSleepTimerLockSuspend"}) \cup {"kSleepTimerLock"}
     ELSE UNCHANGED state
  /\ Goto(w, "resume")
  /\ UNCHANGED <<taskVars, awaitVars, is_preempted, posted, doneVars>>

resume_impl(w) ==
  /\ At(w, "resume")
  /\ IF self
     THEN /\ Goto(w, "hosting")
          /\ self' = FALSE /\ scheduler' = TRUE
          /\ body' = IF body = "new" THEN "user" ELSE body
     ELSE Goto(w, "panic") /\ UNCHANGED <<self, scheduler, body>>
  /\ UNCHANGED <<state, sleeping, awaitVars, is_preempted, posted, doneVars>>

\* The task has given control back: a sleep timer lock that it holds is put
\* aside.  The bit is tested, not who has set it.
RunUnlock(w) ==
  \/ /\ At(w, "after")
     /\ Goto(w, IF "kSleepTimerLock" \in state THEN "after_cas" ELSE "suspend")
     /\ UNCHANGED <<state, taskVars, awaitVars, is_preempted, posted, doneVars>>
  \/ /\ At(w, "after_cas")
     /\ state' = (state \ {"kSleepTimerLock"}) \cup {"kSleepTimerLockSuspend"}
     /\ Goto(w, "suspend")
     /\ UNCHANGED <<taskVars, awaitVars, is_preempted, posted, doneVars>>

\* The end of the scope in activate_task.
Suspend(w) ==
  /\ At(w, "suspend")
  /\ handle_event(w, {"kSuspended"})
  /\ UNCHANGED <<taskVars, awaitVars, posted, doneVars>>

-----------------------------------------------------------------------------
(* The task itself, on the worker w that hosts it.                         *)

Hosted(w, where) == At(w, "hosting") /\ body = where

\* yield_impl: control goes back to run.
yield_impl(w, where) ==
  /\ Goto(w, "after")
  /\ self' = TRUE /\ scheduler' = FALSE
  /\ body' = where

\* await_impl up to the call of fn, from an await or inside a sleep
BeginAwait(w) ==
  /\ Hosted(w, "user") \/ Hosted(w, "sleep_await")
  /\ SetBits({"kNeedSignal"})
  /\ IF "kHaveSignal" \in state THEN Goto(w, "panic") ELSE UNCHANGED pc
  /\ body' = "fn"
  /\ UNCHANGED <<self, scheduler, sleeping, awaitVars, is_preempted, posted, doneVars>>

\* fn has stored the handler.
Register(w) ==
  /\ Hosted(w, "fn")
  /\ armed' = TRUE /\ body' = "registered"
  /\ UNCHANGED <<state, self, scheduler, sleeping, result, is_preempted, posted,
                 doneVars, pc>>

\* fn calls the handler itself: the task is not suspended, so that is all.
SelfSignal(w) ==
  /\ Hosted(w, "registered") /\ armed
  /\ armed' = FALSE /\ result' = TRUE
  /\ SetBits({"kHaveSignal"})
  /\ UNCHANGED <<taskVars, is_preempted, posted, doneVars, pc>>

AwaitYield(w) ==
  /\ Hosted(w, "registered")
  /\ yield_impl(w, "awaiting")
  /\ UNCHANGED <<state, sleeping, awaitVars, is_preempted, posted, doneVars>>

\* await returns *result.
AwaitReturn(w) ==
  /\ Hosted(w, "awaiting")
  /\ IF result THEN UNCHANGED pc ELSE Goto(w, "panic")
  /\ result' = FALSE
  /\ body' = IF sleeping THEN "sleep_unlock" ELSE "user"
  /\ UNCHANGED <<state, self, scheduler, sleeping, armed, is_preempted, posted,
                 doneVars>>

\* sleep_impl: a SpinLockGuard around the await of the timer.
BeginSleep(w) ==
  /\ Hosted(w, "user")
  /\ sleeping' = TRUE /\ body' = "sleep_lock"
  /\ UNCHANGED <<state, self, scheduler, awaitVars, is_preempted, posted,
                 doneVars, pc>>

SleepLock(w) ==
  /\ Hosted(w, "sleep_lock") /\ "kSleepTimerLock" \notin state
  /\ SetBits({"kSleepTimerLock"})
  /\ body' = "sleep_await"
  /\ UNCHANGED <<self, scheduler, sleeping, awaitVars, is_preempted, posted,
                 doneVars, pc>>

SleepUnlock(w) ==
  /\ Hosted(w, "sleep_unlock")
  /\ Clear({"kSleepTimerLock"})
  /\ sleeping' = FALSE /\ body' = "user"
  /\ UNCHANGED <<self, scheduler, awaitVars, is_preempted, posted, doneVars, pc>>

\* Something the body calls, or fn, dispatches a task of higher priority on
\* this thread: activate_task makes this one yield.
Preempt(w) ==
  /\ \E where \in {"user", "fn", "registered"} :
       Hosted(w, where) /\ yield_impl(w, where)
  /\ is_preempted' = TRUE
  /\ UNCHANGED <<state, sleeping, awaitVars, posted, doneVars>>

\* Task::yield, called by the body: the worker finds the task ready at once.
Yield(w) ==
  /\ Hosted(w, "user") /\ yield_impl(w, "user")
  /\ UNCHANGED <<state, sleeping, awaitVars, is_preempted, posted, doneVars>>

\* post_body_fn_exit: handle_event(kTerminated) finds the task running.
post_body_fn_exit(w) ==
  /\ Hosted(w, "user")
  /\ SetBits({"kTerminated"})
  /\ scheduler' = FALSE /\ body' = "exited"
  /\ Goto(w, "after")
  /\ UNCHANGED <<self, sleeping, awaitVars, is_preempted, posted, doneVars>>

\* The event happens, or the timer expires or is cancelled: the handler of
\* await_impl runs on a worker.
Signal(w) ==
  /\ At(w, "idle") /\ armed
  /\ armed' = FALSE /\ result' = TRUE
  /\ handle_event(w, {"kHaveSignal"})
  /\ UNCHANGED <<taskVars, posted, doneVars>>

-----------------------------------------------------------------------------
(* Completion: run_completion_handlers, call_when_done, join, ~Task.       *)

CompleteLock(w) ==
  /\ At(w, "complete")
  /\ IF self \/ scheduler THEN Goto(w, "panic") /\ UNCHANGED state
     ELSE /\ "kCompletionHandlersLock" \notin state
          /\ SetBits({"kCompletionHandlersLock"})
          /\ Goto(w, "complete_close")
  /\ UNCHANGED <<taskVars, awaitVars, is_preempted, posted, doneVars>>

\* The list is moved, not copied.
Kept_Copied == handlers
Kept == {}
CompleteClose(w) ==
  /\ At(w, "complete_close")
  /\ SetBits({"kCompletionHandlersClosed"})
  /\ Goto(w, IF "kCompletionHandlersClosed" \in state THEN "panic"
             ELSE "complete_unlock")
  /\ leaving' = handlers /\ handlers' = Kept
  /\ UNCHANGED <<taskVars, awaitVars, is_preempted, posted, invoked, destroyed>>

CompleteUnlock(w) ==
  /\ At(w, "complete_unlock")
  /\ Clear({"kCompletionHandlersLock"})
  /\ Goto(w, "invoke")
  /\ UNCHANGED <<taskVars, awaitVars, is_preempted, posted, doneVars>>

Invoke(w) ==
  /\ At(w, "invoke")
  /\ \/ /\ leaving = {} /\ Goto(w, "idle")
        /\ UNCHANGED <<leaving, invoked>>
     \/ \E c \in leaving :
          /\ leaving' = leaving \ {c}
          /\ invoked' = [invoked EXCEPT ![c] = @ + 1]
          /\ UNCHANGED pc
  /\ UNCHANGED <<state, taskVars, awaitVars, is_preempted, posted, handlers, destroyed>>

\* A caller that has the task, and nothing else to do.
Free(c) == At(c, "idle") /\ ~destroyed /\ \A d \in Callers : ~At(d, "create")

join(c) ==
  /\ Free(c) /\ invoked[c] = 0
  /\ Goto(c, "is_done")
  /\ UNCHANGED <<state, taskVars, awaitVars, is_preempted, posted, doneVars>>

\* call_when_done
JoinIsDone(c) ==
  /\ At(c, "is_done")
  /\ IF is_terminal_state(state)
     THEN Goto(c, "joining") /\ invoked' = [invoked EXCEPT ![c] = @ + 1]
     ELSE Goto(c, "join_lock") /\ UNCHANGED invoked
  /\ UNCHANGED <<state, taskVars, awaitVars, is_preempted, posted, handlers,
                 leaving, destroyed>>

TooLate_Never(s) == FALSE
TooLate(s) == is_terminal_state(s) \/ "kCompletionHandlersClosed" \in s
JoinLock(c) ==
  /\ At(c, "join_lock") /\ "kCompletionHandlersLock" \notin state
  /\ SetBits({"kCompletionHandlersLock"})
  /\ IF TooLate(state)
     THEN Goto(c, "join_retry") /\ UNCHANGED handlers
     ELSE Goto(c, "join_unlock") /\ handlers' = handlers \cup {c}
  /\ UNCHANGED <<taskVars, awaitVars, is_preempted, posted, leaving, invoked, destroyed>>

JoinUnlock(c) ==
  /\ pc[c] \in {"join_retry", "join_unlock"}
  /\ Clear({"kCompletionHandlersLock"})
  /\ Goto(c, IF At(c, "join_retry") THEN "is_done" ELSE "joining")
  /\ UNCHANGED <<taskVars, awaitVars, is_preempted, posted, doneVars>>

\* join awaits the call of its handler.
JoinReturn(c) ==
  /\ At(c, "joining") /\ invoked[c] > 0
  /\ Goto(c, "joined")
  /\ UNCHANGED <<state, taskVars, awaitVars, is_preempted, posted, doneVars>>

InsideTask(t) == pc[t] \notin {"idle", "invoke", "joined", "panic"}

Destroy(c) ==
  /\ At(c, "joined") /\ ~destroyed
  /\ \A d \in Callers : ~InsideTask(d)
  /\ PatientOwner => \A w \in Workers : ~InsideTask(w)
  /\ IF self \/ scheduler \/ ~is_terminal_state(state)
     THEN Goto(c, "panic") /\ UNCHANGED destroyed
     ELSE destroyed' = TRUE /\ UNCHANGED pc
  /\ UNCHANGED <<state, taskVars, awaitVars, is_preempted, posted, handlers,
                 leaving, invoked>>

-----------------------------------------------------------------------------
(* wake and try_dump_stack_trace.                                          *)

\* wake cancels the timer under the lock; Signal may happen without it, too.
Wake(c) ==
  \/ /\ Free(c) /\ "kSleepTimerLock" \notin state
     /\ SetBits({"kSleepTimerLock"})
     /\ Goto(c, "wake")
     /\ UNCHANGED <<taskVars, awaitVars, is_preempted, posted, doneVars>>
  \/ /\ At(c, "wake")
     /\ Clear({"kSleepTimerLock"})
     /\ Goto(c, "idle")
     /\ UNCHANGED <<taskVars, awaitVars, is_preempted, posted, doneVars>>

\* The task is on the list of all tasks until ~Task, also while its creator
\* has not returned; backtrace_all holds the list's mutex.
CannotDump_EvenRunning(s) ==
  is_ready_state(s) \/ is_terminal_state(s) \/ "kStackTrace" \in s
CannotDump(s) ==
  is_running_state(s) \/ is_ready_state(s) \/ is_terminal_state(s)
    \/ "kStackTrace" \in s
Dump(c) ==
  /\ At(c, "idle") /\ ~destroyed
  /\ \A d \in Callers : pc[d] \notin {"dump", "dumping", "dump_clear"}
  /\ ~CannotDump(state)
  /\ SetBits({"kStackTrace"})
  /\ Goto(c, "dump")
  /\ UNCHANGED <<taskVars, awaitVars, is_preempted, posted, doneVars>>

\* The task is resumed on the caller's thread; in yield_impl it sees
\* kStackTrace, collects its stack and yields again.
DumpResume(c) ==
  /\ At(c, "dump")
  /\ IF self /\ body # "new"
     THEN Goto(c, "dumping") /\ self' = FALSE /\ scheduler' = TRUE
     ELSE Goto(c, "panic") /\ UNCHANGED <<self, scheduler>>
  /\ UNCHANGED <<state, body, sleeping, awaitVars, is_preempted, posted, doneVars>>

DumpYield(c) ==
  /\ At(c, "dumping")
  /\ Goto(c, "dump_clear") /\ self' = TRUE /\ scheduler' = FALSE
  /\ UNCHANGED <<state, body, sleeping, awaitVars, is_preempted, posted, doneVars>>

\* A signal that came in the meantime has found the task not ready.
AfterDump_NoCheck(c, s) == Goto(c, "idle")
AfterDump(c, s) == Goto(c, IF is_ready_state(s) THEN "schedule_post" ELSE "idle")
DumpClear(c) ==
  LET target == (state \ {"kStackTrace"}) \cup {"kSuspended"} IN
  /\ At(c, "dump_clear")
  /\ state' = target
  /\ IF is_terminal_state(target) THEN Goto(c, "panic") ELSE AfterDump(c, target)
  /\ UNCHANGED <<taskVars, awaitVars, is_preempted, posted, doneVars>>

-----------------------------------------------------------------------------
\* What a thread does without being asked to, once it has begun.
WorkerSteps(w) ==
  \/ schedule_to_run(w) \/ Activate(w) \/ RunLock(w) \/ resume_impl(w)
  \/ RunUnlock(w) \/ Suspend(w) \/ Register(w) \/ AwaitYield(w)
  \/ AwaitReturn(w) \/ SleepLock(w) \/ SleepUnlock(w) \/ CompleteLock(w)
  \/ CompleteClose(w) \/ CompleteUnlock(w) \/ Invoke(w)
  \/ (Hosted(w, "sleep_await") /\ BeginAwait(w))

CallerSteps(c) ==
  \/ Create(c) \/ schedule_to_run(c) \/ JoinIsDone(c) \/ JoinLock(c)
  \/ JoinUnlock(c) \/ JoinReturn(c) \/ (At(c, "wake") /\ Wake(c))
  \/ DumpResume(c) \/ DumpYield(c) \/ DumpClear(c)

Next ==
  \/ \E w \in Workers :
       \/ WorkerSteps(w) \/ BeginAwait(w) \/ SelfSignal(w) \/ BeginSleep(w)
       \/ Preempt(w) \/ Yield(w) \/ post_body_fn_exit(w) \/ Signal(w)
  \/ \E c \in Callers :
       CallerSteps(c) \/ join(c) \/ Wake(c) \/ Dump(c) \/ Destroy(c)

Spec == Init /\ [][Next]_vars

\* Threads go on with what they have begun.  RunLock spins on a lock that
\* callers of wake may take again and again: like the code, we rely on it
\* being free often enough.
FairSpec ==
  /\ Spec
  /\ \A w \in Workers : WF_vars(WorkerSteps(w)) /\ SF_vars(RunLock(w))
  /\ \A c \in Callers : WF_vars(CallerSteps(c)) /\ SF_vars(JoinLock(c))

-----------------------------------------------------------------------------
Activation == {"run", "resume", "hosting", "after", "after_cas", "suspend"}

\* The task is activated once at a time: everything in activate_task relies
\* on being alone, and so does activate_memory_.  While it is activated it is
\* not marked suspended, and nobody dumps it.
OneActivation ==
  LET active == {w \in Workers : pc[w] \in Activation} IN
  /\ posted + Cardinality(active) =< 1
  /\ (posted > 0 \/ active # {}) =>
       /\ is_running_state(state)
       /\ \A c \in Callers : pc[c] \notin {"dump", "dumping", "dump_clear"}

\* The state of a task is well-formed, and it is activated once at a time.
TaskInv == TypeOK /\ OneActivation

\* "At most one of `scheduler_` and `self_` are non-empty at any given time",
\* and the task's context is executed by one thread at most.
OneContext ==
  /\ ~(self /\ scheduler)
  /\ scheduler <=> Cardinality({t \in Threads : pc[t] \in {"hosting", "dumping"}}) = 1
  /\ ~scheduler => Cardinality({t \in Threads : pc[t] \in {"hosting", "dumping"}}) = 0

\* No BATT_CHECK fails: there is a context to resume, await finds no old
\* signal and has its result when it returns, the completion handlers are
\* closed once, and the task is terminated when it is destroyed.
NeverPanics == \A t \in Threads : pc[t] # "panic"

\* A completion handler is called once, and only when the task is done.
HandlersCalledOnce ==
  \A c \in Callers :
    /\ invoked[c] =< 1
    /\ invoked[c] = 1 => is_terminal_state(state)
    /\ invoked[c] = 1 => c \notin handlers \cup leaving

\* The task is activated and executed by one thread at a time, its handlers
\* are called once, and no check fails.
TaskRunsAlone == TaskInv /\ OneContext /\ NeverPanics /\ HandlersCalledOnce

\* A task that awaits and whose handler has been called goes on, whether it
\* was called before or after the task yielded, or during a stack dump.
SignalResumes == (body = "awaiting" /\ result) ~> ~(body = "awaiting" /\ result)

\* A task that was preempted outside of an await is scheduled again.
PreemptedResumes == (self /\ body = "user") ~> scheduler

\* join returns once the task's function has returned.
JoinReturns ==
  \A c \in Callers :
    (/\ "kTerminated" \in state
     /\ pc[c] \in {"is_done", "join_lock", "join_retry", "join_unlock", "joining"})
    ~> pc[c] = "joined"

\* Nobody waits for a signal, a preemption or an end that has come.
TaskGoesOn == SignalResumes /\ PreemptedResumes /\ JoinReturns

\* The documentation of wake: it "has no effect if the Task is not inside
\* sleep", so that the lock of the sleep timer is held by a call of wake or by
\* the task inside sleep_impl, if at all.
WakeDoc ==
  "kSleepTimerLock" \in state => sleeping \/ \E c \in Callers : At(c, "wake")

\* The documentation of ~Task: "Calling Task::join() prior to destroying a
\* Task object is sufficient": nobody uses it afterwards.
JoinDoc == destroyed => \A w \in Workers : ~InsideTask(w)
=============================================================================
