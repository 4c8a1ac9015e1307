------------------------------ MODULE Watches ------------------------------
(***************************************************************************)
(* A batt::Watch as its users see it, without the spin lock inside: the    *)
(* operators that the modules of the components built on a watch use.      *)
(* WatchSpec says which of them may happen when, and WatchAtomic is shown  *)
(* to implement it.                                                        *)
(*                                                                         *)
(* Changing the value and waking the waiters are two steps.  A waiter is   *)
(* only registered while the value is the one it has seen.  One            *)
(* notification, or close, wakes all the waiters of that instant, with the *)
(* value of the change it belongs to, which need not be the current value. *)
(***************************************************************************)
CONSTANTS
  Threads,      \* the callers
  None          \* no value, no status code

\* A watch is a record:
\*   value    its value
\*   final    None while it is open, then the status it was closed with
\*   waiting  for each registered waiter the value it has seen, else None
\*   notice   for each thread the change it has still to announce, else None
\*   outcome  for each waiter woken: the result its handler is called with
NewWatch(v) ==
  [value   |-> v,
   final   |-> None,
   waiting |-> [t \in Threads |-> None],
   notice  |-> [t \in Threads |-> None],
   outcome |-> [t \in Threads |-> None]]

WatchOf(Values, Codes) ==
  [value   : Values,
   final   : Codes \cup {None},
   waiting : [Threads -> Values \cup {None}],
   notice  : [Threads -> Values \cup {None}],
   outcome : [Threads -> Values \cup Codes \cup {None}]]

\* t sets the value to v, and has to announce it if that is a change.
Changed(w, t, v) ==
  [w EXCEPT !.value = v,
            !.notice[t] = IF v # w.value THEN v ELSE None]

\* Every registered waiter is woken with r.
WokenAll(w, r) ==
  [w EXCEPT !.waiting = [t \in Threads |-> None],
            !.outcome = [t \in Threads |->
                           IF w.waiting[t] # None THEN r ELSE w.outcome[t]]]

\* t announces its change.
Notified(w, t) == [WokenAll(w, w.notice[t]) EXCEPT !.notice[t] = None]

\* The first close decides the final status; a later one finds no waiters.
Closed(w, code) ==
  IF w.final = None THEN [WokenAll(w, code) EXCEPT !.final = code] ELSE w

\* The two looks of a waiter that has seen the value seen: first at the value
\* alone, then, with the observers locked, at everything.  None means that
\* it has to go on waiting.
FirstLook(w, seen) == IF w.value # seen THEN w.value ELSE None
SecondLook(w, seen) ==
  IF w.final # None THEN w.final
  ELSE IF w.value # seen THEN w.value ELSE None

\* t, whose second look found nothing, registers its handler.
Registered(w, t) == [w EXCEPT !.waiting[t] = w.value]

\* The handler of t has been called.
Handled(w, t) == [w EXCEPT !.outcome[t] = None]
=============================================================================
