------------------------------ MODULE FakeTime ------------------------------
(***************************************************************************)
(* FakeTimeService and FakeExecutionContext (async/fake_*.hpp): tasks that *)
(* sleep in fake time, a test that advances it, and the handlers that are  *)
(* ready, popped by whoever runs them.  Several threads do all of this.    *)
(***************************************************************************)
EXTENDS Integers, Sequences, FiniteSets

CONSTANTS
  FakeThreads,
  Timers,            \* the handlers of the sleeps
  MaxFakeTime        \* bound on fake_time_

VARIABLES
  fakeTime,          \* fake_time_
  timerQueue,        \* timer_queue_
  ready,             \* ready_to_run_
  count,             \* push_ready_count_ and pop_ready_count_
  thread,            \* of each thread: pc, and the timers in its hands
  expiry,            \* expires_at of each sleep
  ran                \* when its handler ran

fakeVars == <<fakeTime, timerQueue, ready, count, thread, expiry, ran>>

FakeInit ==
  /\ fakeTime = 0
  /\ timerQueue = {}
  /\ ready = <<>>
  /\ count = [push |-> 0, pop |-> 0]
  /\ thread = [t \in FakeThreads |-> [pc |-> "idle", todo |-> <<>>]]
  /\ expiry = [h \in Timers |-> -1]
  /\ ran = [h \in Timers |-> <<>>]

ThreadAt(t, pc) == thread[t].pc = pc
ThreadGoto(t, pc, todo) == thread' = [thread EXCEPT ![t] = [pc |-> pc, todo |-> todo]]
InHand(t) == thread[t].todo[1]

\* sleep_impl reads the time; schedule_timer reads it again.
SleepFor(t, h, d) ==
  /\ ThreadAt(t, "idle") /\ expiry[h] = -1
  /\ expiry' = [expiry EXCEPT ![h] = fakeTime + d]
  /\ ThreadGoto(t, "schedule", <<h>>)
  /\ UNCHANGED <<fakeTime, timerQueue, ready, count, ran>>
ScheduleTimer(t) ==
  /\ ThreadAt(t, "schedule")
  /\ ThreadGoto(t, IF expiry[InHand(t)] <= fakeTime THEN "post" ELSE "insert", thread[t].todo)
  /\ UNCHANGED <<fakeTime, timerQueue, ready, count, expiry, ran>>
InsertTimer(t) ==
  /\ ThreadAt(t, "insert")
  /\ timerQueue' = timerQueue \cup {InHand(t)}
  /\ ThreadGoto(t, "idle", <<>>)
  /\ UNCHANGED <<fakeTime, ready, count, expiry, ran>>

\* advance_time: the timers that have expired leave the heap in their order.
Expired(h, now) == expiry[h] <= now
Sequence(set) ==
  {s \in [1 .. Cardinality(set) -> set] :
     /\ \A h \in set : \E i \in DOMAIN s : s[i] = h
     /\ \A i, j \in DOMAIN s : i < j => expiry[s[i]] <= expiry[s[j]]}
AdvanceTime(t, d) ==
  LET now == fakeTime + d
      expired == {h \in timerQueue : Expired(h, now)} IN
  /\ ThreadAt(t, "idle") /\ now <= MaxFakeTime
  /\ fakeTime' = now
  /\ timerQueue' = timerQueue \ expired
  /\ \E s \in Sequence(expired) : ThreadGoto(t, IF s = <<>> THEN "idle" ELSE "post", s)
  /\ UNCHANGED <<ready, count, expiry, ran>>

\* push_ready_handler: into the vector, then the count.
Push(t) ==
  /\ ThreadAt(t, "post")
  /\ ready' = Append(ready, InHand(t))
  /\ ThreadGoto(t, "count", Tail(thread[t].todo))
  /\ UNCHANGED <<fakeTime, timerQueue, count, expiry, ran>>
PushCount(t) ==
  /\ ThreadAt(t, "count")
  /\ count' = [count EXCEPT !.push = @ + 1]
  /\ ThreadGoto(t, IF thread[t].todo = <<>> THEN "idle" ELSE "post", thread[t].todo)
  /\ UNCHANGED <<fakeTime, timerQueue, ready, expiry, ran>>

\* pop_ready_handler: the last handler takes the place of the one popped; then
\* the count; then the caller runs it.
Without_Last(i) == SubSeq(ready, 1, Len(ready) - 1)
Without(i) == SubSeq([ready EXCEPT ![i] = ready[Len(ready)]], 1, Len(ready) - 1)
Pop(t, i) ==
  /\ ThreadAt(t, "idle") /\ i <= Len(ready)
  /\ ready' = Without(i)
  /\ ThreadGoto(t, "popped", <<ready[i]>>)
  /\ UNCHANGED <<fakeTime, timerQueue, count, expiry, ran>>
PopCount(t) ==
  /\ ThreadAt(t, "popped")
  /\ count' = [count EXCEPT !.pop = @ + 1]
  /\ ThreadGoto(t, "run", thread[t].todo)
  /\ UNCHANGED <<fakeTime, timerQueue, ready, expiry, ran>>
RunHandler(t) ==
  /\ ThreadAt(t, "run")
  /\ ran' = [ran EXCEPT ![InHand(t)] = Append(@, fakeTime)]
  /\ ThreadGoto(t, "idle", <<>>)
  /\ UNCHANGED <<fakeTime, timerQueue, ready, count, expiry>>

-----------------------------------------------------------------------------
FakeStep ==
  \E t \in FakeThreads :
    \/ \E h \in Timers, d \in 0 .. 2 : SleepFor(t, h, d)
    \/ ScheduleTimer(t) \/ InsertTimer(t)
    \/ \E d \in 1 .. 2 : AdvanceTime(t, d)
    \/ Push(t) \/ PushCount(t)
    \/ \E i \in 1 .. Cardinality(Timers) : Pop(t, i)
    \/ PopCount(t) \/ RunHandler(t)

FakeSpec == FakeInit /\ [][FakeStep]_fakeVars

\* How often a handler is somewhere on its way.
OnItsWay(h) ==
  LET hands == {<<t, i>> \in FakeThreads \X (1 .. Cardinality(Timers)) :
                  i <= Len(thread[t].todo) /\ thread[t].todo[i] = h} IN
  Cardinality(hands) + Cardinality({i \in DOMAIN ready : ready[i] = h})
    + (IF h \in timerQueue THEN 1 ELSE 0) + Len(ran[h])

\* A sleep ends once, and not before its time: whichever threads schedule,
\* advance, pop and run, the handler is in one place only and is never lost on
\* the way, it runs when the fake time has reached its expiry; and when no
\* thread is at work the counts tell how many handlers are ready.
SleepsEndOnce ==
  /\ \A h \in Timers : OnItsWay(h) = IF expiry[h] = -1 THEN 0 ELSE 1
  /\ \A h \in Timers : \A i \in DOMAIN ran[h] : ran[h][i] >= expiry[h]
  /\ (\A t \in FakeThreads : ThreadAt(t, "idle")) => count.push - count.pop = Len(ready)

\* "Queue a timer for later invocation, or immediate invocation if 'fake time'
\* is at or beyond expires_at": no timer is queued past its time.
QueuedInTime == \A h \in timerQueue : expiry[h] > fakeTime

-----------------------------------------------------------------------------
(***************************************************************************)
(* BasicFakeExecutor (async/fake_executor_*.hpp): handles on a             *)
(* FakeExecutionContext, of which the tracked ones count as work; they are *)
(* copied, moved, assigned, swapped, turned from one sort into the other   *)
(* and destroyed in any order.                                             *)
(***************************************************************************)

CONSTANTS
  Handles,           \* variables of the executor types
  Contexts           \* FakeExecutionContexts

VARIABLES
  handle,            \* of each: its sort, and context_; "null", or "dead" outside its life
  workCount,         \* work_count_ of each context
  checkFailed        \* a BATT_CHECK has failed

executorVars == <<handle, workCount, checkFailed>>

Sorts == {"tracked", "untracked"}
Alive(h) == handle[h].context # "dead"

\* The state of all three variables, for the steps of one operation.
Now == [handle |-> handle, work |-> workCount, failed |-> checkFailed]
Do(s) == handle' = s.handle /\ workCount' = s.work /\ checkFailed' = s.failed

on_work_started(s, sort, c) ==
  IF sort = "tracked" /\ c # "null" THEN [s EXCEPT !.work[c] = @ + 1] ELSE s
on_work_finished(s, sort, c) ==
  IF sort = "tracked" /\ c # "null"
  THEN [s EXCEPT !.work[c] = @ - 1, !.failed = @ \/ s.work[c] <= 0] ELSE s

ConstructOn(s, h, sort, c) ==
  [on_work_started(s, sort, c) EXCEPT !.handle[h] = [sort |-> sort, context |-> c]]
CopyOf(s, h, o) == ConstructOn(s, h, s.handle[o].sort, s.handle[o].context)
Moved_Kept(s, h, o) == [s EXCEPT !.handle[h] = s.handle[o]]
Moved(s, h, o) == [s EXCEPT !.handle[h] = s.handle[o], !.handle[o].context = "null"]
Swapped(s, h, o) ==
  [s EXCEPT !.handle[h].context = s.handle[o].context, !.handle[o].context = s.handle[h].context]
Destroyed(s, h) ==
  [on_work_finished(s, s.handle[h].sort, s.handle[h].context) EXCEPT !.handle[h].context = "dead"]

-----------------------------------------------------------------------------
NewExecutor(h, sort, c) == ~Alive(h) /\ Do(ConstructOn(Now, h, sort, c))
CopyExecutor(h, o) == ~Alive(h) /\ Alive(o) /\ Do(CopyOf(Now, h, o))
MoveExecutor(h, o) == ~Alive(h) /\ Alive(o) /\ Do(Moved(Now, h, o))
\* The assignments go through a temporary that is swapped with the target.
AssignCopy(h, o) ==
  /\ Alive(h) /\ Alive(o) /\ handle[h].sort = handle[o].sort
  /\ Do(Destroyed(Swapped(CopyOf(Now, "tmp", o), h, "tmp"), "tmp"))
AssignMove(h, o) ==
  /\ Alive(h) /\ Alive(o) /\ handle[h].sort = handle[o].sort
  /\ Do(Destroyed(Swapped(Moved(Now, "tmp", o), h, "tmp"), "tmp"))
\* require and prefer of outstanding_work: an executor of the other sort.
require(h, o, sort) == ~Alive(h) /\ Alive(o) /\ Do(ConstructOn(Now, h, sort, handle[o].context))
DestroyExecutor(h) == Alive(h) /\ Do(Destroyed(Now, h))

ExecutorInit ==
  /\ handle = [h \in Handles \cup {"tmp"} |-> [sort |-> "untracked", context |-> "dead"]]
  /\ workCount = [c \in Contexts |-> 0]
  /\ checkFailed = FALSE
ExecutorStep ==
  \/ \E h \in Handles :
       \/ \E sort \in Sorts, c \in Contexts \cup {"null"} : NewExecutor(h, sort, c)
       \/ DestroyExecutor(h)
  \/ \E h, o \in Handles :
       \/ CopyExecutor(h, o) \/ MoveExecutor(h, o) \/ AssignCopy(h, o) \/ AssignMove(h, o)
       \/ \E sort \in Sorts : require(h, o, sort)

ExecutorSpec == ExecutorInit /\ [][ExecutorStep]_executorVars

\* The work count of a context is the number of tracked executors on it, so that
\* it is zero exactly when no one keeps the context busy, and no check of the
\* count fails.
WorkCounted ==
  /\ ~checkFailed
  /\ \A c \in Contexts :
       workCount[c] = Cardinality({h \in DOMAIN handle : handle[h].sort = "tracked" /\ handle[h].context = c})
=============================================================================
