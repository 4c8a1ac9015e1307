------------------------------- MODULE Latch -------------------------------
(***************************************************************************)
(* batt::Latch (async/latch.hpp) and the Promise and Future built on it    *)
(* (async/future_decl.hpp, future_impl.hpp): a watch of three states in    *)
(* front of a plain Optional.  Each thread makes one call.  The value a    *)
(* thread sets is its own name.                                            *)
(***************************************************************************)
EXTENDS Sequences, Watches

VARIABLES
  latchState,   \* state_, a watch
  latchValue,   \* value_: <<>> or <<the value>>
  latchCall     \* of each thread: its call

latchVars == <<latchState, latchValue, latchCall>>

kInitial == "kInitial"
kSetting == "kSetting"
kReady == "kReady"

\* state | kSetting: 0 | 1, 1 | 1 and 3 | 1.
OrSetting(x) == IF x = kInitial THEN kSetting ELSE x

\* A call: where it is, what it is, the state last seen, its result.
LatchCallAt(pc, op, seen, result) ==
  [pc |-> pc, op |-> op, seen |-> seen, result |-> result]

LatchInit ==
  /\ latchState = NewWatch(kInitial)
  /\ latchValue = <<>>
  /\ latchCall = [t \in Threads |-> LatchCallAt("idle", "none", kInitial, <<>>)]

LatchAt(t, pc) == latchCall[t].pc = pc
LatchGoto(t, pc) == latchCall' = [latchCall EXCEPT ![t].pc = pc]
LatchReturn(t, r) == latchCall' = [latchCall EXCEPT ![t].pc = "done", ![t].result = r]
LatchBegin(t, op, pc, seen) ==
  latchCall' = [latchCall EXCEPT ![t] = LatchCallAt(pc, op, seen, <<>>)]

-----------------------------------------------------------------------------
(* set_value: whoever finds kInitial sets the value, then announces it.    *)

LatchClaim(t) ==
  /\ LatchAt(t, "idle")
  /\ latchState' = Changed(latchState, t, OrSetting(latchState.value))
  /\ IF latchState.value = kInitial
       THEN LatchBegin(t, "set", "claimed", kInitial)
       ELSE latchCall' = [latchCall EXCEPT ![t] =
                            LatchCallAt("done", "set", kInitial, <<"false">>)]
  /\ UNCHANGED latchValue

\* The notification that ends fetch_or, and the one that ends set_value.
LatchAnnounce(t) ==
  /\ \/ LatchAt(t, "claimed") /\ LatchGoto(t, "emplace")
     \/ LatchAt(t, "ready") /\ LatchReturn(t, <<"true">>)
  /\ latchState' = Notified(latchState, t)
  /\ UNCHANGED latchValue

LatchEmplace(t) ==
  /\ LatchAt(t, "emplace")
  /\ latchValue' = <<t>>
  /\ LatchGoto(t, "publish")
  /\ UNCHANGED latchState

LatchPublish(t) ==
  /\ LatchAt(t, "publish")
  /\ latchState' = Changed(latchState, t, kReady)
  /\ LatchGoto(t, "ready")
  /\ UNCHANGED latchValue

-----------------------------------------------------------------------------
(* Readers.  await waits for kReady from the state it finds, async_get     *)
(* from kInitial on; both wait again when they are called with kSetting.   *)

LatchAwait(t) ==
  /\ LatchAt(t, "idle")
  /\ LatchBegin(t, "await", IF latchState.value = kReady THEN "take" ELSE "look",
                latchState.value)
  /\ UNCHANGED <<latchState, latchValue>>

LatchAsyncGet(t) ==
  /\ LatchAt(t, "idle")
  /\ LatchBegin(t, "async_get", "look", kInitial)
  /\ UNCHANGED <<latchState, latchValue>>

LatchPoll(t) ==
  /\ LatchAt(t, "idle")
  /\ IF latchState.value = kReady
       THEN LatchBegin(t, "poll", "take", kReady)
       ELSE latchCall' = [latchCall EXCEPT ![t] =
                            LatchCallAt("done", "poll", kInitial, <<"unavailable">>)]
  /\ UNCHANGED <<latchState, latchValue>>

\* AsyncGetHandler::operator(), and the loop of await_equal.
LatchHandle_Once(t, r) ==
  IF r = "closed" THEN LatchReturn(t, <<"closed">>) ELSE LatchGoto(t, "take")
LatchHandle(t, r) ==
  IF r = "closed" THEN LatchReturn(t, <<"closed">>)
  ELSE IF r = kReady THEN LatchGoto(t, "take")
  ELSE latchCall' = [latchCall EXCEPT ![t].pc = "look", ![t].seen = r]

LatchLook(t) ==
  LET r == FirstLook(latchState, latchCall[t].seen) IN
  /\ LatchAt(t, "look")
  /\ IF r # None THEN LatchHandle(t, r) ELSE LatchGoto(t, "attach")
  /\ UNCHANGED <<latchState, latchValue>>

LatchAttach(t) ==
  LET r == SecondLook(latchState, latchCall[t].seen) IN
  /\ LatchAt(t, "attach")
  /\ IF r # None
       THEN LatchHandle(t, r) /\ UNCHANGED latchState
       ELSE latchState' = Registered(latchState, t) /\ LatchGoto(t, "blocked")
  /\ UNCHANGED latchValue

LatchWakeUp(t) ==
  /\ LatchAt(t, "blocked")
  /\ latchState.outcome[t] # None
  /\ LatchHandle(t, latchState.outcome[t])
  /\ latchState' = Handled(latchState, t)
  /\ UNCHANGED latchValue

\* get_ready_value_or_panic, which also checks the state, and the handler's
\* own check of the value.
LatchTake(t) ==
  /\ LatchAt(t, "take")
  /\ IF latchValue # <<>> /\ (latchCall[t].op = "async_get" \/ latchState.value = kReady)
       THEN LatchReturn(t, latchValue)
       ELSE LatchReturn(t, <<"panic">>)
  /\ UNCHANGED <<latchState, latchValue>>

LatchInvalidate(t) ==
  /\ LatchAt(t, "idle")
  /\ latchState' = Closed(latchState, "closed")
  /\ latchCall' = [latchCall EXCEPT ![t] = LatchCallAt("done", "invalidate", kInitial, <<>>)]
  /\ UNCHANGED latchValue

-----------------------------------------------------------------------------
LatchStart(t) ==
  \/ LatchClaim(t) \/ LatchAwait(t) \/ LatchAsyncGet(t) \/ LatchPoll(t)
  \/ LatchInvalidate(t)

LatchContinue(t) ==
  \/ LatchAnnounce(t) \/ LatchEmplace(t) \/ LatchPublish(t)
  \/ LatchLook(t) \/ LatchAttach(t) \/ LatchWakeUp(t) \/ LatchTake(t)

LatchStep == \E t \in Threads : LatchStart(t) \/ LatchContinue(t)

LatchSpec == LatchInit /\ [][LatchStep]_latchVars

\* Threads inside a call keep running.
LatchFairness == \A t \in Threads : WF_latchVars(LatchContinue(t))

-----------------------------------------------------------------------------
LatchInvalidated == latchState.final # None
LatchWon(t) == latchCall[t].op = "set" /\ latchCall[t].result # <<"false">>
LatchReading(t) ==
  latchCall[t].op \in {"await", "async_get"} /\ ~ LatchAt(t, "done")

\* One call of set_value wins; every reader that gets a value gets the whole
\* value of the winner, through a stale kSetting too, and none panics; a
\* reader fails only if the latch was invalidated.
LatchAgrees ==
  /\ \A s, t \in Threads : LatchWon(s) /\ LatchWon(t) => s = t
  /\ \A t \in Threads :
       /\ latchCall[t].op \in {"await", "async_get"} /\ LatchAt(t, "done") =>
            \/ \E s \in Threads : LatchWon(s) /\ latchCall[t].result = <<s>>
            \/ LatchInvalidated /\ latchCall[t].result = <<"closed">>
       /\ latchCall[t].op = "poll" /\ LatchAt(t, "done") =>
            \/ \E s \in Threads : LatchWon(s) /\ latchCall[t].result = <<s>>
            \/ latchCall[t].result = <<"unavailable">>

-----------------------------------------------------------------------------
(* The inductive invariant behind LatchAgrees.                             *)

LatchStates == {kInitial, kSetting, kReady}
LatchResults == Threads \cup {"true", "false", "closed", "unavailable", "panic"}

LatchType ==
  /\ latchState \in WatchOf(LatchStates, {"closed"})
  /\ latchValue \in Seq(Threads)
  /\ latchCall \in [Threads ->
       [pc : {"idle", "claimed", "emplace", "publish", "ready", "look", "attach",
              "blocked", "take", "done"},
        op : {"none", "set", "await", "async_get", "poll", "invalidate"},
        seen : LatchStates, result : Seq(LatchResults)]]

\* Where the calls are: who sets, who waits and who takes the value.
LatchCalls ==
  \A t \in Threads :
    /\ LatchAt(t, "idle") => latchCall[t].op = "none"
    /\ latchCall[t].pc \in {"claimed", "emplace", "publish", "ready"} =>
         latchCall[t].op = "set" /\ latchCall[t].result = <<>>
    /\ latchCall[t].pc \in {"look", "attach", "blocked"} =>
         latchCall[t].op \in {"await", "async_get"}
    /\ LatchAt(t, "take") => latchCall[t].op \in {"await", "async_get", "poll"}

\* One thread sets the value, after it has changed the state and before it
\* announces it.
LatchSetOnce ==
  /\ \A s, t \in Threads : LatchWon(s) /\ LatchWon(t) => s = t
  /\ \A t \in Threads : LatchWon(t) => latchState.value # kInitial
  /\ latchValue # <<>> => \E s \in Threads : LatchWon(s) /\ latchValue = <<s>>
  /\ latchState.value = kReady => latchValue # <<>>
  /\ \A t \in Threads : latchCall[t].pc \in {"publish", "ready"} => latchValue # <<>>

\* What a reader hears may be old, but kReady is for good, and so is the close.
LatchHeard ==
  \A t \in Threads :
    /\ kReady \in {latchState.notice[t], latchState.outcome[t]} =>
         latchState.value = kReady
    /\ latchState.outcome[t] = "closed" => LatchInvalidated
    /\ LatchAt(t, "take") => latchState.value = kReady

LatchInv == LatchType /\ LatchCalls /\ LatchSetOnce /\ LatchHeard /\ LatchAgrees

\* Once someone sets the value, or invalidates the latch, every reader's
\* handler is called: no reader is left waiting on the state it saw first.
LatchOwed(t) == LatchReading(t) /\ ((\E s \in Threads : LatchWon(s)) \/ LatchInvalidated)
LatchReleases == \A t \in Threads : LatchOwed(t) ~> LatchAt(t, "done")
=============================================================================
