------------------------------- MODULE Queue -------------------------------
(***************************************************************************)
(* batt::Queue<T> (async/queue.hpp): an unbounded FIFO queue for any       *)
(* number of producers and consumers, made of a deque behind a Mutex and a *)
(* Watch<i64> that counts the items.  A producer first stores its items    *)
(* and then raises the count; a consumer first lowers the count, which     *)
(* reserves an item, and then takes the front of the deque.                *)
(*                                                                         *)
(* A critical section of the Mutex is one step (see SyncProofs); the       *)
(* accesses to the watch are separate steps (see Watches).  No step looks  *)
(* into an item, so the deque is represented by its length.                *)
(***************************************************************************)
EXTENDS WatchFacts

CONSTANTS
  MaxBatch,         \* the most items one push_all inserts
  MaxItems,         \* how many items are pushed in all
  kClosed           \* StatusCode

ASSUME QueueConstants ==
  IsFiniteSet(Threads) /\ MaxBatch \in Nat /\ MaxItems \in Nat /\ None \notin Int

VARIABLES
  pending_count,    \* pending_count_
  pending_items,    \* the length of the deque in pending_items_
  pc,               \* where each thread is
  call,             \* the call it executes, with its arguments and locals
  pushed            \* how many items have been pushed in all

vars == <<pending_count, pending_items, pc, call, pushed>>
deque == <<pending_items, pushed>>

Operations == {"none", "push", "await_next", "try_pop_next", "drain",
               "await_empty"}
Labels == {"idle", "emplace", "raise", "load", "modify", "test", "await",
           "attach", "blocked", "notify", "pop"}

\* batch: how many items it pushes; old_value: the count that its modify or
\* wait loop goes by.
CallOf(op, n, v) == [op |-> op, batch |-> n, old_value |-> v]
NoCall == CallOf("none", 0, 0)

TypeOK ==
  /\ pending_count \in WatchOf(Nat, {kClosed})
  /\ pending_items \in 0..MaxItems
  /\ pc \in [Threads -> Labels]
  /\ call \in [Threads -> [op : Operations, batch : 0..MaxBatch, old_value : Nat]]
  /\ pushed \in 0..MaxItems

Init ==
  /\ pending_count = NewWatch(0)
  /\ pending_items = 0
  /\ pc = [t \in Threads |-> "idle"]
  /\ call = [t \in Threads |-> NoCall]
  /\ pushed = 0

Goto(t, l) == pc' = [pc EXCEPT ![t] = l] /\ UNCHANGED call
Return(t) ==
  /\ pc' = [pc EXCEPT ![t] = "idle"]
  /\ call' = [call EXCEPT ![t] = NoCall]

\* t goes to l knowing the count n.
Learn(t, n, l) ==
  /\ pc' = [pc EXCEPT ![t] = l]
  /\ call' = [call EXCEPT ![t].old_value = n]

\* t begins a call.
Begin(t, op, n, l) ==
  /\ pc[t] = "idle"
  /\ pc' = [pc EXCEPT ![t] = l]
  /\ call' = [call EXCEPT ![t] = CallOf(op, n, 0)]

-----------------------------------------------------------------------------
(* Producers: push, push_with_lock (batch 1) and push_all.                 *)

\* The items of the pushes under way that are not in the deque yet.
UnstoredOf == [t \in Threads |-> IF pc[t] = "emplace" THEN call[t].batch ELSE 0]
Unstored == Total(UnstoredOf)

\* is_open(); a push on a closed queue returns false.
push(t, n) ==
  /\ pushed + Unstored + n <= MaxItems
  /\ pending_count.final = None
  /\ Begin(t, "push", n, "emplace")
  /\ UNCHANGED <<pending_count, deque>>

\* The items go to the back of the deque, under the lock.
Emplace(t) ==
  /\ pc[t] = "emplace"
  /\ pending_items' = pending_items + call[t].batch
  /\ pushed' = pushed + call[t].batch
  /\ Goto(t, "raise")
  /\ UNCHANGED pending_count

\* notify(count): fetch_add, and the notification of the watch if count > 0.
Raise(t) ==
  /\ pc[t] = "raise"
  /\ pending_count' =
       Changed(pending_count, t, pending_count.value + call[t].batch)
  /\ IF call[t].batch > 0 THEN Goto(t, "notify") ELSE Return(t)
  /\ UNCHANGED deque

-----------------------------------------------------------------------------
(* Consumers: await_next, try_pop_next, drain; and await_empty.            *)

await_next(t) ==
  Begin(t, "await_next", 0, "load") /\ UNCHANGED <<pending_count, deque>>

try_pop_next(t) ==
  Begin(t, "try_pop_next", 0, "load") /\ UNCHANGED <<pending_count, deque>>

drain(t) ==
  Begin(t, "drain", 0, "load") /\ UNCHANGED <<pending_count, deque>>

await_empty(t) ==
  Begin(t, "await_empty", 0, "load") /\ UNCHANGED <<pending_count, deque>>

\* What t does with a count: await_empty tests it, the others lower it.
Examine(t, n) ==
  Learn(t, n, IF call[t].op = "await_empty" THEN "test" ELSE "modify")

\* await_modify, modify_if and await_true read the count first.
LoadCount(t) ==
  /\ pc[t] = "load"
  /\ Examine(t, pending_count.value)
  /\ UNCHANGED <<pending_count, deque>>

\* decrement_if_positive; None stands for batt::None.
DecrementIfPositive(n) == IF n > 0 THEN n - 1 ELSE None

\* compare_exchange_weak finds the expected count.
CountIs_Unchecked(n) == TRUE
CountIs(n) == pending_count.value = n

\* One iteration of the compare-and-swap loop.
Acquire(t) ==
  LET lowered == DecrementIfPositive(call[t].old_value) IN
  /\ pc[t] = "modify"
  /\ lowered # None
  /\ IF CountIs(call[t].old_value)
       THEN pending_count' = Changed(pending_count, t, lowered) /\ Goto(t, "notify")
       ELSE Examine(t, pending_count.value) /\ UNCHANGED pending_count
  /\ UNCHANGED deque

\* Nothing to take: await_next waits for a change, the others give up.
AcquireNone(t) ==
  /\ pc[t] = "modify"
  /\ DecrementIfPositive(call[t].old_value) = None
  /\ IF call[t].op = "await_next" THEN Goto(t, "await") ELSE Return(t)
  /\ UNCHANGED <<pending_count, deque>>

\* The loop condition of await_true.
EmptyTest(t) ==
  /\ pc[t] = "test"
  /\ IF call[t].old_value = 0 THEN Return(t) ELSE Goto(t, "await")
  /\ UNCHANGED <<pending_count, deque>>

\* The result r of a wait: a failure ends the call, a count is tried.
Resume(t, r) == IF r = kClosed THEN Return(t) ELSE Examine(t, r)

\* await_not_equal(old_value), in its two looks.
Await(t) ==
  LET r == FirstLook(pending_count, call[t].old_value) IN
  /\ pc[t] = "await"
  /\ IF r # None THEN Resume(t, r) ELSE Goto(t, "attach")
  /\ UNCHANGED <<pending_count, deque>>

Attach(t) ==
  LET r == SecondLook(pending_count, call[t].old_value) IN
  /\ pc[t] = "attach"
  /\ IF r # None
       THEN Resume(t, r) /\ UNCHANGED pending_count
       ELSE pending_count' = Registered(pending_count, t) /\ Goto(t, "blocked")
  /\ UNCHANGED deque

WakeUp(t) ==
  /\ pc[t] = "blocked"
  /\ pending_count.outcome[t] # None
  /\ Resume(t, pending_count.outcome[t])
  /\ pending_count' = Handled(pending_count, t)
  /\ UNCHANGED deque

\* The watch notifies after a change by t: a producer is done then, and a
\* consumer goes on to take its item.
Announced_ToNobody(w, t) == [w EXCEPT !.notice[t] = None]
Announced(w, t) == Notified(w, t)

Notify(t) ==
  /\ pc[t] = "notify"
  /\ pending_count' = Announced(pending_count, t)
  /\ IF call[t].op = "push" THEN Return(t) ELSE Goto(t, "pop")
  /\ UNCHANGED deque

\* pop_next_or_panic, under the lock; drain then tries the next one.
Pop(t) ==
  /\ pc[t] = "pop"
  /\ pending_items > 0
  /\ pending_items' = pending_items - 1
  /\ IF call[t].op = "drain" THEN Learn(t, 0, "load") ELSE Return(t)
  /\ UNCHANGED <<pending_count, pushed>>

close(t) ==
  /\ pc[t] = "idle"
  /\ pending_count.final = None
  /\ pending_count' = Closed(pending_count, kClosed)
  /\ UNCHANGED <<pc, call, deque>>

Start(t) ==
  \/ \E n \in 0..MaxBatch : push(t, n)
  \/ await_next(t) \/ try_pop_next(t) \/ drain(t) \/ await_empty(t) \/ close(t)

Continue(t) ==
  \/ Emplace(t) \/ Raise(t) \/ LoadCount(t) \/ Acquire(t) \/ AcquireNone(t)
  \/ EmptyTest(t) \/ Await(t) \/ Attach(t) \/ WakeUp(t) \/ Notify(t) \/ Pop(t)

Next == \E t \in Threads : Start(t) \/ Continue(t)

Spec == Init /\ [][Next]_vars

\* A thread inside a call keeps going.
FairSpec == Spec /\ \A t \in Threads : WF_vars(Continue(t))

-----------------------------------------------------------------------------
(* Properties.                                                             *)

\* Only a producer stores and raises, only a consumer lowers and pops.
CallsInPlace ==
  \A t \in Threads :
    /\ pc[t] \in {"emplace", "raise"} => call[t].op = "push"
    /\ pc[t] \notin {"emplace", "raise", "notify"} => call[t].op # "push"

\* What is in the deque has been pushed, and what is being pushed fits.
PushesFit == pending_items <= pushed /\ pushed + Unstored <= MaxItems

\* The items that are in the deque but not counted: of producers that have
\* not raised the count yet, and of consumers that have lowered it already.
Unraised(t) == IF pc[t] = "raise" THEN call[t].batch ELSE 0
Reserved(t) ==
  IF pc[t] = "pop" \/ (pc[t] = "notify" /\ call[t].op # "push") THEN 1 ELSE 0
InFlightOf == [t \in Threads |-> Unraised(t) + Reserved(t)]
InFlight == Total(InFlightOf)

\* The count and the deque agree up to the calls in flight: no item is lost
\* or counted twice, whoever races.
CountExact == pending_items = pending_count.value + InFlight

\* The BATT_CHECK in pop_next_or_panic never fails: whoever has lowered the
\* count finds an item.
NeverPanics == \A t \in Threads : pc[t] = "pop" => pending_items > 0

\* The state of a queue is well-formed, its count exact, and whoever has
\* lowered the count finds an item.
QueueInv == TypeOK /\ CallsInPlace /\ PushesFit /\ CountExact /\ NeverPanics

\* A blocked reader is released once there is an item to read or the queue is
\* closed, unless another reader takes the item first: a wakeup with an
\* outdated count does not strand it.
ReaderReleased ==
  \A t \in Threads :
    (/\ pc[t] = "blocked" /\ call[t].op = "await_next"
     /\ pending_count.value > 0 \/ pending_count.final # None)
    ~> (\/ pc[t] # "blocked"
        \/ pending_count.value = 0 /\ pending_count.final = None)

\* await_empty does not miss that the queue has become empty for good.
EmptySeen ==
  \A t \in Threads :
    <>[](pending_count.value = 0) => []<>(call[t].op # "await_empty")

\* No wait on a queue outlasts its reason: readers are released by an item or
\* by close, and await_empty notices that the queue has become empty.
WaitsEnd == ReaderReleased /\ EmptySeen
=============================================================================
