----------------------------- MODULE WatchSpec -----------------------------
(***************************************************************************)
(* The specification of a batt::Watch (see Watches): what WatchAtomic      *)
(* implements.                                                             *)
(***************************************************************************)
EXTENDS Watches

CONSTANTS Values, InitValue,
          kClosed, kEndOfStream, kClosedBeforeEndOfStream     \* StatusCode

VARIABLE watch

Init == watch = NewWatch(InitValue)

\* A modify loop that had to retry may announce a value that is no change.
Change(t, v) ==
  /\ watch.notice[t] = None
  /\ \/ watch' = Changed(watch, t, v)
     \/ watch' = [watch EXCEPT !.value = v, !.notice[t] = v]

Register(t) ==
  /\ watch.final = None
  /\ watch.waiting[t] = None
  /\ watch.outcome[t] = None
  /\ watch' = Registered(watch, t)

Notify(t) ==
  /\ watch.notice[t] # None
  /\ watch' = Notified(watch, t)

Close(code) ==
  /\ watch.final = None
  /\ watch' = Closed(watch, code)

Handle(t) ==
  /\ watch.outcome[t] # None
  /\ watch' = Handled(watch, t)

Next ==
  \/ \E t \in Threads :
       (\E v \in Values : Change(t, v)) \/ Register(t) \/ Notify(t) \/ Handle(t)
  \/ \E code \in {kClosed, kEndOfStream, kClosedBeforeEndOfStream} : Close(code)

Safety == Init /\ [][Next]_watch

\* A change is announced, and a woken handler is called.
Fairness == \A t \in Threads : WF_watch(Notify(t)) /\ WF_watch(Handle(t))

Spec == Safety /\ Fairness
=============================================================================
