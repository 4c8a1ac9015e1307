---------------------------- MODULE WatchLocked ----------------------------
(***************************************************************************)
(* batt::Watch<T> of a type that is not atomic (watch_decl.hpp): the value,*)
(* the closed flag and the observers are under one std::mutex; handlers    *)
(* are invoked after it is unlocked, one after the other.                  *)
(***************************************************************************)
EXTENDS Naturals, Sequences, FiniteSets, SequencesExt

CONSTANTS
  Users,             \* threads
  MaxValue,          \* values are 0 .. MaxValue
  MaxCalls           \* bound on the calls each makes

VARIABLES
  value,             \* value_
  closed,            \* closed_
  observers,         \* observers_, by the thread that waits
  user               \* what each thread is doing

watchVars == <<value, closed, observers, user>>

-----------------------------------------------------------------------------
WatchValues == 0 .. MaxValue
ClosedResult == MaxValue + 1      \* what a handler is given instead of a value

\* pc "ready"; "invoke", with the handlers to invoke and what to give them;
\* in await_true for a value of at least want: "check" it, "wait" on the last
\* one seen, "hand" over what async_wait found itself
NewUser == [pc |-> "ready", calls |-> MaxCalls, handlers |-> <<>>, given |-> 0,
            want |-> 0, seen |-> 0]
CanCall(t) == user[t].pc = "ready" /\ user[t].calls > 0
MakesCall(t, pc) == [user[t] EXCEPT !.pc = pc, !.calls = @ - 1]

\* The locked part of set_value and modify.
Changed(t, v) ==
  /\ value' = v
  /\ observers' = IF v # value THEN <<>> ELSE observers
  /\ user' = [user EXCEPT ![t] = [MakesCall(t, "invoke") EXCEPT !.given = v,
                                  !.handlers = IF v # value THEN observers ELSE <<>>]]

set_value(t, v) == CanCall(t) /\ Changed(t, v) /\ UNCHANGED closed
modify(t, fn) == CanCall(t) /\ Changed(t, fn[value]) /\ UNCHANGED closed
clamp_min_value(t, bound) == modify(t, [v \in WatchValues |-> IF v < bound THEN bound ELSE v])
clamp_max_value(t, bound) == modify(t, [v \in WatchValues |-> IF bound < v THEN bound ELSE v])

\* A second close finds no observers.
close(t) ==
  /\ CanCall(t)
  /\ closed' = TRUE /\ observers' = <<>>
  /\ user' = [user EXCEPT ![t] = [MakesCall(t, "invoke") EXCEPT !.given = ClosedResult, !.handlers = observers]]
  /\ UNCHANGED value

\* A handler resumes the thread that waits, with what it was given.
Resumed(u, x) == [u EXCEPT !.pc = "check", !.seen = x]
\* Mutant: the rest of the handlers is dropped when one is invoked.
Rest_None(list) == <<>>
Rest(list) == Tail(list)
invoke_all_handlers(t) ==
  /\ user[t].pc = "invoke"
  /\ IF user[t].handlers = <<>>
     THEN user' = [user EXCEPT ![t] = [@ EXCEPT !.pc = "ready", !.given = 0]]
     ELSE LET w == Head(user[t].handlers) IN
          user' = [user EXCEPT ![t] = [@ EXCEPT !.handlers = Rest(@)],
                               ![w] = Resumed(@, user[t].given)]
  /\ UNCHANGED <<value, closed, observers>>

await_true(t, want) ==
  /\ CanCall(t)
  /\ user' = [user EXCEPT ![t] = [MakesCall(t, "check") EXCEPT !.want = want, !.seen = value]]
  /\ UNCHANGED <<value, closed, observers>>
Satisfied(u) == u.seen = ClosedResult \/ u.seen >= u.want
CheckDone(t) ==
  /\ user[t].pc = "check" /\ Satisfied(user[t])
  /\ user' = [user EXCEPT ![t] = [@ EXCEPT !.pc = "ready", !.want = 0, !.seen = 0]]
  /\ UNCHANGED <<value, closed, observers>>
\* await_not_equal: the locked part of async_wait, then the handler, if it was
\* not pushed.
\* Mutant: whether the Watch is closed is not asked before the handler is pushed.
NoWait_Open(u) == value # u.seen
NoWait(u) == closed \/ value # u.seen
async_wait(t) ==
  /\ user[t].pc = "check" /\ ~Satisfied(user[t])
  /\ IF NoWait(user[t])
     THEN /\ user' = [user EXCEPT ![t] = [@ EXCEPT !.pc = "hand", !.given = IF closed THEN ClosedResult ELSE value]]
          /\ UNCHANGED observers
     ELSE /\ user' = [user EXCEPT ![t].pc = "wait"]
          /\ observers' = Append(observers, t)
  /\ UNCHANGED <<value, closed>>
HandSelf(t) ==
  /\ user[t].pc = "hand"
  /\ user' = [user EXCEPT ![t] = [Resumed(@, @.given) EXCEPT !.given = 0]]
  /\ UNCHANGED <<value, closed, observers>>

WatchInit ==
  /\ value = 0 /\ closed = FALSE /\ observers = <<>>
  /\ user = [t \in Users |-> NewUser]
InCall(t) == invoke_all_handlers(t) \/ CheckDone(t) \/ async_wait(t) \/ HandSelf(t)
WatchStep ==
  \E t \in Users :
    \/ \E v \in WatchValues : set_value(t, v) \/ clamp_min_value(t, v) \/ clamp_max_value(t, v) \/ await_true(t, v)
    \/ close(t)
    \/ InCall(t)

\* A thread that is in a call goes on.
WatchLockedSpec == WatchInit /\ [][WatchStep]_watchVars /\ \A t \in Users : WF_watchVars(InCall(t))

-----------------------------------------------------------------------------
Lists == {observers} \cup {user[t].handlers : t \in Users}

\* Nobody sleeps through a change or the close: a thread that waits is in one
\* list, once; and as long as that is the Watch's own, the value is the one it has
\* seen and the Watch is open.
LockedWatchKeeps ==
  \A t \in Users :
    /\ user[t].pc = "wait" =>
         Cardinality({w \in Users : Contains(user[w].handlers, t)}) + (IF Contains(observers, t) THEN 1 ELSE 0) = 1
    /\ Contains(observers, t) => user[t].pc = "wait" /\ user[t].seen = value /\ ~closed
    /\ \A list \in Lists : IsInjective(list)

\* await_true returns: after a close, and when the value comes to satisfy the
\* predicate and stays so, even if the handler was given an older value.
Wanted(t) == closed \/ value >= user[t].want
Ready(t) == user[t].pc = "ready"
LockedWatchReleases == \A t \in Users : <>[]Wanted(t) => []<>Ready(t)
=============================================================================
