---------------------------- MODULE WatchAtomic ----------------------------
(***************************************************************************)
(* batt::WatchAtomic<T>: an atomic value that tasks and threads can block  *)
(* on (async/watch_decl.hpp, async/watch_impl.hpp).                        *)
(*                                                                         *)
(* The value (value_) is a std::atomic; the list of handlers waiting for a *)
(* change (observers_) is guarded by a spin lock, whose word (spin_state_) *)
(* also says whether the watch is open and whether anybody waits.  A       *)
(* change of the value and the notification of the observers are separate  *)
(* steps, and a notifier that sees neither kLocked nor kWaiting skips the  *)
(* spin lock altogether.  One action is one access to shared memory.       *)
(*                                                                         *)
(* The caller of every operation is a thread t; a waiter blocked in        *)
(* await_not_equal is represented in observers_ by the thread itself: its  *)
(* handler stores the result and resumes it.                               *)
(***************************************************************************)
EXTENDS Integers, Sequences, FiniteSets

CONSTANTS
  Threads,                    \* the callers
  Values,                     \* the values of T
  InitValue,                  \* the value the watch is constructed with
  Transforms,                 \* what set_value, fetch_add/or/sub/and compute
  PartialTransforms,          \* the fn of modify, modify_if, await_modify,
                              \* and (where fn is not None) pred of await_true
  CloseCodes,                 \* the status codes callers close it with
  None,                       \* batt::None
  kClosed, kEndOfStream, kClosedBeforeEndOfStream     \* StatusCode

StatusCodes == {kClosed, kEndOfStream, kClosedBeforeEndOfStream}

ASSUME WatchConstants ==
  /\ InitValue \in Values
  /\ Transforms \subseteq [Values -> Values]
  /\ PartialTransforms \subseteq [Values -> Values \cup {None}]
  /\ CloseCodes \subseteq StatusCodes
  /\ None \notin Values /\ None \notin PartialTransforms
  /\ StatusCodes \cap (Values \cup {None}) = {}
  /\ kClosed # kEndOfStream
  /\ kClosed # kClosedBeforeEndOfStream
  /\ kEndOfStream # kClosedBeforeEndOfStream

\* The bits of spin_state_, which is modelled as the set of bits that are on.
Bits == {"kLocked", "kOpen", "kWaiting", "kClosedAtEnd", "kClosedBeforeEnd"}

VARIABLES
  value,            \* value_
  spin_state,       \* spin_state_
  observers,        \* observers_, oldest handler first
  pc,               \* where each thread is
  call,             \* the operation it executes
  fn,               \* the argument fn (or pred) of that operation
  old_value,        \* old_value in the CAS loops, last_seen in await_true
  changed,          \* changed in modify and modify_if
  last_seen,        \* last_seen in async_wait
  arg,              \* what it notifies with: new_value, or the close code
  local_observers,  \* the handlers it has taken and has not invoked yet
  got               \* the result of the wait it has returned from

shared == <<value, spin_state, observers>>
vars == <<value, spin_state, observers, pc, call, fn, old_value, changed,
          last_seen, arg, local_observers, got>>

Calls == {"none", "rmw", "modify_if", "await_modify", "await_true",
          "await_not_equal", "close"}
Labels == {"idle", "modify", "test", "returned", "blocked",
           "notify", "notify_lock", "notify_take", "invoke",
           "wait_load", "wait_lock", "wait_closed", "wait_recheck",
           "wait_push", "wait_unlock", "close_lock", "close_take"}

\* The labels at which a thread holds the spin lock.
HoldsLock == {"notify_take", "close_take", "wait_closed", "wait_recheck",
              "wait_push", "wait_unlock"}

TypeOK ==
  /\ value \in Values
  /\ spin_state \in SUBSET Bits
  /\ observers \in Seq(Threads)
  /\ pc \in [Threads -> Labels]
  /\ call \in [Threads -> Calls]
  /\ fn \in [Threads -> PartialTransforms \cup {None}]
  /\ old_value \in [Threads -> Values \cup {None}]
  /\ changed \in [Threads -> BOOLEAN]
  /\ last_seen \in [Threads -> Values \cup {None}]
  /\ arg \in [Threads -> Values \cup StatusCodes \cup {None}]
  /\ local_observers \in [Threads -> Seq(Threads)]
  /\ got \in [Threads -> Values \cup StatusCodes \cup {None}]

Init ==
  /\ value = InitValue
  /\ spin_state = {"kOpen"}
  /\ observers = <<>>
  /\ pc = [t \in Threads |-> "idle"]
  /\ call = [t \in Threads |-> "none"]
  /\ fn = [t \in Threads |-> None]
  /\ old_value = [t \in Threads |-> None]
  /\ changed = [t \in Threads |-> FALSE]
  /\ last_seen = [t \in Threads |-> None]
  /\ arg = [t \in Threads |-> None]
  /\ local_observers = [t \in Threads |-> <<>>]
  /\ got = [t \in Threads |-> None]

Goto(t, l) == pc' = [pc EXCEPT ![t] = l]

\* get_final_status
FinalStatus(state) ==
  IF "kClosedBeforeEnd" \in state THEN kClosedBeforeEndOfStream
  ELSE IF "kClosedAtEnd" \in state THEN kEndOfStream ELSE kClosed

\* fetch_or(kLocked) found the bit off.
LockIsFree_Unchecked(state) == TRUE
LockIsFree(state) == "kLocked" \notin state

\* t waits for the spin lock, and takes it: lock_observers
LockObservers(t, from, to) ==
  /\ pc[t] = from
  /\ LockIsFree(spin_state)
  /\ spin_state' = spin_state \cup {"kLocked"}
  /\ Goto(t, to)

\* unlock_observers(desired)
UnlockObservers_Unmasked(desired) == spin_state' = desired
UnlockObservers(desired) == spin_state' = desired \ {"kLocked"}

-----------------------------------------------------------------------------
(* The end of a call; the next call starts from "idle".                    *)

Return(t) ==
  /\ pc[t] = "returned"
  /\ Goto(t, "idle")
  /\ call' = [call EXCEPT ![t] = "none"]
  /\ fn' = [fn EXCEPT ![t] = None]
  /\ old_value' = [old_value EXCEPT ![t] = None]
  /\ changed' = [changed EXCEPT ![t] = FALSE]
  /\ last_seen' = [last_seen EXCEPT ![t] = None]
  /\ arg' = [arg EXCEPT ![t] = None]
  /\ got' = [got EXCEPT ![t] = None]
  /\ UNCHANGED <<shared, local_observers>>

\* After its change of the value, t calls notify(new) if there was one.
NotifyIf(t, is_changed, new) ==
  /\ Goto(t, IF is_changed THEN "notify" ELSE "returned")
  /\ arg' = [arg EXCEPT ![t] = new]

-----------------------------------------------------------------------------
(* Changing the value.                                                     *)

\* set_value, fetch_add, fetch_or, fetch_sub, fetch_and: one atomic
\* read-modify-write, then notify if it made a difference.
ReadModifyWrite(t, f) ==
  /\ pc[t] = "idle"
  /\ call' = [call EXCEPT ![t] = "rmw"]
  /\ value' = f[value]
  /\ NotifyIf(t, f[value] # value, f[value])
  /\ UNCHANGED <<spin_state, observers, fn, old_value, changed, last_seen,
                 local_observers, got>>

\* modify, modify_if and await_modify load the value; await_true calls
\* get_value.
StartLoop(t, c, f, l) ==
  /\ pc[t] = "idle"
  /\ call' = [call EXCEPT ![t] = c]
  /\ fn' = [fn EXCEPT ![t] = f]
  /\ old_value' = [old_value EXCEPT ![t] = value]
  /\ Goto(t, l)
  /\ UNCHANGED <<shared, changed, last_seen, arg, local_observers, got>>

modify_if(t, f) == StartLoop(t, "modify_if", f, "modify")
await_modify(t, f) == StartLoop(t, "await_modify", f, "modify")
await_true(t, f) == StartLoop(t, "await_true", f, "test")

\* One iteration of the compare-and-swap loop.  modify_if (and modify, whose
\* fn never is None) notifies when any iteration computed a difference,
\* await_modify when the last one did.  A spurious failure of
\* compare_exchange_weak only repeats the iteration.
ModifyIteration(t) ==
  LET modified == fn[t][old_value[t]]
      now_changed ==
        IF call[t] = "modify_if" THEN changed[t] \/ modified # old_value[t]
                                 ELSE modified # old_value[t]
  IN
  /\ pc[t] = "modify"
  /\ modified # None
  /\ changed' = [changed EXCEPT ![t] = now_changed]
  /\ \/ /\ value = old_value[t]
        /\ value' = modified
        /\ NotifyIf(t, now_changed, modified)
        /\ UNCHANGED old_value
     \/ /\ value # old_value[t]
        /\ old_value' = [old_value EXCEPT ![t] = value]
        /\ UNCHANGED <<value, pc, arg>>
  /\ UNCHANGED <<spin_state, observers, call, fn, last_seen, local_observers,
                 got>>

\* fn is None: modify_if gives up, await_modify waits for a new value.
ModifyNone(t) ==
  /\ pc[t] = "modify"
  /\ fn[t][old_value[t]] = None
  /\ IF call[t] = "modify_if"
       THEN Goto(t, "returned") /\ UNCHANGED last_seen
       ELSE /\ Goto(t, "wait_load")
            /\ last_seen' = [last_seen EXCEPT ![t] = old_value[t]]
  /\ UNCHANGED <<shared, call, fn, old_value, changed, arg, local_observers,
                 got>>

\* The loop condition of await_true.
AwaitTrueTest(t) ==
  /\ pc[t] = "test"
  /\ IF fn[t][old_value[t]] # None
       THEN /\ Goto(t, "returned")
            /\ got' = [got EXCEPT ![t] = old_value[t]]
            /\ UNCHANGED last_seen
       ELSE /\ Goto(t, "wait_load")
            /\ last_seen' = [last_seen EXCEPT ![t] = old_value[t]]
            /\ UNCHANGED got
  /\ UNCHANGED <<shared, call, fn, old_value, changed, arg, local_observers>>

-----------------------------------------------------------------------------
(* Waiting: async_wait, with the handler that resumes the waiter.          *)

await_not_equal(t, v) ==
  /\ pc[t] = "idle"
  /\ call' = [call EXCEPT ![t] = "await_not_equal"]
  /\ last_seen' = [last_seen EXCEPT ![t] = v]
  /\ Goto(t, "wait_load")
  /\ UNCHANGED <<shared, fn, old_value, changed, arg, local_observers, got>>

\* Where the result r of async_wait takes the waiter w: out of the call, or
\* on to the next iteration of await_modify or await_true.
Resumed_IgnoresStatus(w, r) ==
  IF call[w] = "await_not_equal" THEN "returned"
  ELSE IF call[w] = "await_modify" THEN "modify" ELSE "test"
Resumed(w, r) ==
  IF r \in StatusCodes \/ call[w] = "await_not_equal" THEN "returned"
  ELSE IF call[w] = "await_modify" THEN "modify" ELSE "test"

\* The handler of w is invoked with r.
Resume(w, r) ==
  /\ Goto(w, Resumed(w, r))
  /\ IF Resumed(w, r) = "returned"
       THEN got' = [got EXCEPT ![w] = r] /\ UNCHANGED old_value
       ELSE old_value' = [old_value EXCEPT ![w] = r] /\ UNCHANGED got

WaitLoad(t) ==
  /\ pc[t] = "wait_load"
  /\ IF value # last_seen[t]
       THEN Resume(t, value)
       ELSE Goto(t, "wait_lock") /\ UNCHANGED <<old_value, got>>
  /\ UNCHANGED <<shared, call, fn, changed, last_seen, arg, local_observers>>

WaitLock(t) ==
  /\ LockObservers(t, "wait_lock",
       IF "kOpen" \in spin_state THEN "wait_recheck" ELSE "wait_closed")
  /\ UNCHANGED <<value, observers, call, fn, old_value, changed, last_seen,
                 arg, local_observers, got>>

WaitClosed(t) ==
  /\ pc[t] = "wait_closed"
  /\ UnlockObservers(spin_state)
  /\ Resume(t, FinalStatus(spin_state))
  /\ UNCHANGED <<value, observers, call, fn, changed, last_seen, arg,
                 local_observers>>

\* The second look at the value, under the spin lock (phase 2).
Unchanged2_Assumed(t) == TRUE
Unchanged2(t) == value = last_seen[t]

WaitRecheck(t) ==
  /\ pc[t] = "wait_recheck"
  /\ IF Unchanged2(t)
       THEN Goto(t, "wait_push") /\ UNCHANGED arg
       ELSE /\ Goto(t, "wait_unlock")
            /\ arg' = [arg EXCEPT ![t] = value]
  /\ UNCHANGED <<shared, call, fn, old_value, changed, last_seen,
                 local_observers, got>>

\* The word that async_wait stores after pushing its handler.
PushedState_NoFlag(state) == state
PushedState(state) == state \cup {"kWaiting"}

WaitPush(t) ==
  /\ pc[t] = "wait_push"
  /\ observers' = Append(observers, t)
  /\ UnlockObservers(PushedState(spin_state))
  /\ Goto(t, "blocked")
  /\ UNCHANGED <<value, call, fn, old_value, changed, last_seen, arg,
                 local_observers, got>>

WaitUnlock(t) ==
  /\ pc[t] = "wait_unlock"
  /\ UnlockObservers(spin_state)
  /\ Resume(t, arg[t])
  /\ UNCHANGED <<value, observers, call, fn, changed, last_seen, arg,
                 local_observers>>

-----------------------------------------------------------------------------
(* Notifying and closing.                                                  *)

\* t, holding the spin lock, moves the handlers out and unlocks.
LeftBehind_Copied(list) == list
LeftBehind(list) == <<>>

TakeObservers(t, desired) ==
  /\ local_observers' = [local_observers EXCEPT ![t] = observers]
  /\ observers' = LeftBehind(observers)
  /\ UnlockObservers(desired)
  /\ Goto(t, "invoke")

\* notify skips the spin lock when it is free and nobody waits.
SkipsLock_WaitingOnly(state) == "kWaiting" \notin state
SkipsLock(state) == "kLocked" \notin state /\ "kWaiting" \notin state

NotifyLoad(t) ==
  /\ pc[t] = "notify"
  /\ Goto(t, IF SkipsLock(spin_state) THEN "returned" ELSE "notify_lock")
  /\ UNCHANGED <<shared, call, fn, old_value, changed, last_seen, arg,
                 local_observers, got>>

NotifyLock(t) ==
  /\ LockObservers(t, "notify_lock", "notify_take")
  /\ UNCHANGED <<value, observers, call, fn, old_value, changed, last_seen,
                 arg, local_observers, got>>

NotifyTake(t) ==
  /\ pc[t] = "notify_take"
  /\ TakeObservers(t, spin_state \ {"kWaiting"})
  /\ UNCHANGED <<value, call, fn, old_value, changed, last_seen, arg, got>>

close(t, code) ==
  /\ pc[t] = "idle"
  /\ call' = [call EXCEPT ![t] = "close"]
  /\ arg' = [arg EXCEPT ![t] = code]
  /\ Goto(t, "close_lock")
  /\ UNCHANGED <<shared, fn, old_value, changed, last_seen, local_observers,
                 got>>

CloseLock(t) ==
  /\ LockObservers(t, "close_lock", "close_take")
  /\ UNCHANGED <<value, observers, call, fn, old_value, changed, last_seen,
                 arg, local_observers, got>>

\* The bit that records the final status; a second close adds none.
CloseBit_LastWins(state, code) ==
  IF code = kEndOfStream THEN {"kClosedAtEnd"}
  ELSE IF code = kClosedBeforeEndOfStream THEN {"kClosedBeforeEnd"} ELSE {}
CloseBit(state, code) ==
  IF "kOpen" \notin state THEN {}
  ELSE IF code = kEndOfStream THEN {"kClosedAtEnd"}
  ELSE IF code = kClosedBeforeEndOfStream THEN {"kClosedBeforeEnd"} ELSE {}

CloseTake(t) ==
  /\ pc[t] = "close_take"
  /\ TakeObservers(t, (spin_state \ {"kOpen", "kWaiting"})
                        \cup CloseBit(spin_state, arg[t]))
  /\ arg' = [arg EXCEPT ![t] = FinalStatus(spin_state')]
  /\ UNCHANGED <<value, call, fn, old_value, changed, last_seen, got>>

\* invoke_all_handlers: pop the first handler and invoke it, until none is
\* left.
MoreHandlers(list) == list # <<>>

Invoke(t) ==
  /\ pc[t] = "invoke"
  /\ IF MoreHandlers(local_observers[t])
       THEN /\ Resume(Head(local_observers[t]), arg[t])
            /\ local_observers' = [local_observers EXCEPT ![t] = Tail(@)]
       ELSE Goto(t, "returned") /\ UNCHANGED <<local_observers, old_value, got>>
  /\ UNCHANGED <<shared, call, fn, changed, last_seen, arg>>

-----------------------------------------------------------------------------
\* What a caller may start, and what the call in progress does next.
Start(t) ==
  \/ \E f \in Transforms : ReadModifyWrite(t, f)
  \/ \E f \in PartialTransforms :
       modify_if(t, f) \/ await_modify(t, f) \/ await_true(t, f)
  \/ \E v \in Values : await_not_equal(t, v)
  \/ \E code \in CloseCodes : close(t, code)

Continue(t) ==
  \/ Return(t) \/ ModifyIteration(t) \/ ModifyNone(t) \/ AwaitTrueTest(t)
  \/ WaitLoad(t) \/ WaitLock(t) \/ WaitClosed(t) \/ WaitRecheck(t)
  \/ WaitPush(t) \/ WaitUnlock(t)
  \/ NotifyLoad(t) \/ NotifyLock(t) \/ NotifyTake(t)
  \/ CloseLock(t) \/ CloseTake(t) \/ Invoke(t)

Next == \E t \in Threads : Start(t) \/ Continue(t)

Spec == Init /\ [][Next]_vars

\* A thread inside a call keeps going: calls are never abandoned half way.
Fairness == \A t \in Threads : WF_vars(Continue(t))
FairSpec == Spec /\ Fairness

\* The spin lock itself promises nothing to one spinning thread while others
\* keep taking it.  LockFairness says that a thread that finds it free again
\* and again gets it.
LockFairness ==
  \A t \in Threads :
    SF_vars(NotifyLock(t)) /\ SF_vars(CloseLock(t)) /\ SF_vars(WaitLock(t))

-----------------------------------------------------------------------------
(* Properties.                                                             *)

\* The spin lock excludes: at most one thread is between lock_observers and
\* unlock_observers, and kLocked is on exactly while one is.
SpinLockExclusive ==
  /\ \A t, u \in Threads :
       pc[t] \in HoldsLock /\ pc[u] \in HoldsLock => t = u
  /\ "kLocked" \in spin_state <=> \E t \in Threads : pc[t] \in HoldsLock

\* What lets notify skip the lock: whenever the spin lock is free, kWaiting
\* is on exactly when a handler is attached; a closed watch has none.
ObserversFlagged ==
  /\ "kLocked" \notin spin_state =>
       ("kWaiting" \in spin_state <=> observers # <<>>)
  /\ "kOpen" \notin spin_state => observers = <<>>

\* The threads that will still look at the observers after a change they made.
Announcing == {t \in Threads : pc[t] \in {"notify", "notify_lock", "notify_take"}}

\* The threads whose handler is attached, or is about to be.
Attached == {w \in Threads :
               pc[w] = "wait_push" \/ \E i \in 1..Len(observers) : observers[i] = w}

\* No lost wakeup: when the value is no longer the one an attached waiter has
\* seen, some thread has still to notify.  This is the argument of the
\* comment in notify.
NoLostWakeup ==
  \A w \in Attached : value # last_seen[w] => Announcing # {}

\* t has taken the handler of w from observers and has yet to invoke it.
HasTaken(t, w) ==
  \E i \in 1..Len(local_observers[t]) : local_observers[t][i] = w

\* How many handlers of w there are, in observers and in the lists taken from
\* it.
Occurrences(w) ==
  Cardinality({i \in 1..Len(observers) : observers[i] = w})
  + Cardinality({p \in UNION {{t} \X (1..Len(local_observers[t])) : t \in Threads} :
                   local_observers[p[1]][p[2]] = w})

\* Every blocked waiter has exactly one handler somewhere, and nobody else
\* has one: no handler is dropped, duplicated or invoked twice when notify
\* and close race for the list.
OneHandlerPerWaiter ==
  \A w \in Threads : Occurrences(w) = IF pc[w] = "blocked" THEN 1 ELSE 0

\* r is the status that the watch, once closed, keeps reporting.
IsFinalStatus(r) == "kOpen" \notin spin_state /\ r = FinalStatus(spin_state)

\* Whatever closes race, the status that a failed wait has reported, or that
\* the waiters are being told, is the final one.
OneFinalStatus ==
  \A t \in Threads :
    /\ got[t] \in StatusCodes => IsFinalStatus(got[t])
    /\ pc[t] = "invoke" /\ arg[t] \in StatusCodes => IsFinalStatus(arg[t])
    /\ pc[t] = "wait_closed" => "kOpen" \notin spin_state

\* When notify and closes for different reasons race for the handlers, every
\* waiter is told, once, and all that fail are told the same status.
WaitersToldOnce == OneHandlerPerWaiter /\ OneFinalStatus

\* A waiter whose value is gone is woken, and so is every waiter once the
\* watch is closed.
ChangeWakes ==
  \A w \in Threads :
    pc[w] = "blocked" /\ (value # last_seen[w] \/ "kOpen" \notin spin_state)
      ~> pc[w] # "blocked"

-----------------------------------------------------------------------------
(* The inductive invariant behind SpinLockExclusive, ObserversFlagged,     *)
(* NoLostWakeup and WaitersToldOnce.                                       *)

\* The arguments and locals a thread is about to use are there.
LocalsDefined ==
  \A t \in Threads :
    /\ pc[t] \in {"modify", "test"} => old_value[t] \in Values
    /\ pc[t] = "modify" => fn[t] # None
    /\ call[t] = "await_modify" => fn[t] # None
    /\ pc[t] \in {"notify", "notify_lock", "notify_take", "wait_unlock"}
         => arg[t] \in Values
    /\ pc[t] = "invoke" => arg[t] # None

\* A thread with a handler in a list is blocked.
HandlersBlocked ==
  /\ \A i \in 1..Len(observers) : pc[observers[i]] = "blocked"
  /\ \A t \in Threads : \A i \in 1..Len(local_observers[t]) :
       pc[local_observers[t][i]] = "blocked"

\* No thread has two handlers in the lists.
HandlersDistinct ==
  /\ \A i, j \in 1..Len(observers) : observers[i] = observers[j] => i = j
  /\ \A t \in Threads : \A i \in 1..Len(local_observers[t]) :
       /\ \A j \in 1..Len(observers) : local_observers[t][i] # observers[j]
       /\ \A u \in Threads : \A j \in 1..Len(local_observers[u]) :
            local_observers[t][i] = local_observers[u][j] => t = u /\ i = j

\* Only a thread that is invoking handlers holds any.
HandlersHeld ==
  \A t \in Threads : pc[t] # "invoke" => local_observers[t] = <<>>

\* kWaiting is exact, and a watch at which somebody attaches is open.
FlagsExact ==
  /\ "kWaiting" \in spin_state <=> observers # <<>>
  /\ "kOpen" \notin spin_state => observers = <<>>
  /\ \A t \in Threads : pc[t] \in {"wait_recheck", "wait_push", "wait_unlock"}
                          => "kOpen" \in spin_state

\* A blocked thread has a handler in some list, and has registered with a
\* value.
WaitersListed ==
  \A w \in Threads :
    /\ pc[w] = "blocked" => \/ \E i \in 1..Len(observers) : observers[i] = w
                            \/ \E t \in Threads : HasTaken(t, w)
    /\ pc[w] \in {"wait_push", "blocked"} => last_seen[w] \in Values

\* The inductive invariant: the state is well-formed, a thread has what its
\* next step uses, every handler is in one place and belongs to a waiter that
\* is blocked, every blocked waiter has one, and the spin lock, its flags, the
\* wakeups and the final status are as above.
WatchInv ==
  /\ TypeOK /\ LocalsDefined
  /\ HandlersBlocked /\ HandlersDistinct /\ HandlersHeld /\ WaitersListed
  /\ SpinLockExclusive /\ FlagsExact /\ NoLostWakeup /\ OneFinalStatus

-----------------------------------------------------------------------------
(* WatchAtomic implements WatchSpec.  A waiter counts as registered from   *)
(* its second look at the value, and as woken from the instant a notifier  *)
(* takes its handler.                                                      *)

IsTaken(w) == \E t \in Threads : HasTaken(t, w)
Taker(w) == CHOOSE t \in Threads : HasTaken(t, w)

FinalBar == IF "kOpen" \in spin_state THEN None ELSE FinalStatus(spin_state)
WaitingBar == [w \in Threads |-> IF w \in Attached THEN last_seen[w] ELSE None]
NoticeBar == [t \in Threads |-> IF t \in Announcing THEN arg[t] ELSE None]
OutcomeBar == [w \in Threads |-> IF IsTaken(w) THEN arg[Taker(w)] ELSE None]

WatchBar == [value |-> value, final |-> FinalBar, waiting |-> WaitingBar,
             notice |-> NoticeBar, outcome |-> OutcomeBar]

Abstract == INSTANCE WatchSpec WITH watch <- WatchBar

\* Every step of the spin-lock implementation is a step of the abstract watch
\* or leaves it alone.
ImplementsWatchSafety == Abstract!Safety

\* The fairness of the abstract watch: with a fair lock, a change is announced
\* and a woken handler is called.
ImplementsWatchFairness == LockFairness => Abstract!Fairness

=============================================================================
