------------------------- MODULE WatchAtomicProofs -------------------------
(* The inductive invariant of WatchAtomic, what its waiters are told, and  *)
(* that it implements WatchSpec, for any set of threads and of values.     *)
EXTENDS WatchAtomic, TLAPS

(* The single steps: that they keep the types, and what each kind of step  *)
(* does to the spin lock, to the lists of handlers and to the threads.     *)

\* The result of a wait is stored in the waiter and sends it to a label.
LEMMA ResumeType ==
  ASSUME TypeOK, NEW w \in Threads, NEW r \in Values \cup StatusCodes,
         Resume(w, r)
  PROVE  /\ pc' \in [Threads -> Labels]
         /\ \A t \in Threads \ {w} : pc'[t] = pc[t]
         /\ pc'[w] \in {"returned", "modify", "test"}
         /\ got' \in [Threads -> Values \cup StatusCodes \cup {None}]
         /\ old_value' \in [Threads -> Values \cup {None}]
         /\ \A t \in Threads \ {w} : old_value'[t] = old_value[t]
         /\ pc'[w] \in {"modify", "test"} => old_value'[w] \in Values
         /\ pc'[w] = "modify" => call[w] = "await_modify"
<1>1. Resumed(w, r) \in {"returned", "modify", "test"}
  BY Zenon DEF Resumed
<1>2. Resumed(w, r) \in {"modify", "test"} => r \in Values
  BY WatchConstants, Zenon DEF Resumed
<1>3. Resumed(w, r) = "modify" => call[w] = "await_modify"
  BY Zenon DEF Resumed
<1>4. pc' = [pc EXCEPT ![w] = Resumed(w, r)] /\ pc \in [Threads -> Labels]
  BY Zenon DEF Resume, Goto, TypeOK
<1>5. pc'[w] = Resumed(w, r)
  BY <1>4, Zenon
<1> USE <1>1 DEF Labels
<1>6. CASE Resumed(w, r) = "returned"
  BY <1>4, <1>5, <1>6, ZenonT(30) DEF Resume, TypeOK
<1>7. CASE Resumed(w, r) # "returned"
  BY <1>1, <1>2, <1>3, <1>4, <1>5, <1>7, ZenonT(30) DEF Resume, TypeOK
<1> QED BY <1>6, <1>7, Zenon

\* Type correctness: every operation of the watch keeps its state in range.
LEMMA TypeStep == TypeOK /\ LocalsDefined /\ [Next]_vars => TypeOK'
<1> SUFFICES ASSUME TypeOK, LocalsDefined, [Next]_vars PROVE TypeOK'
  BY Zenon
<1>1. ASSUME NEW t \in Threads, NEW f \in Transforms, ReadModifyWrite(t, f)
      PROVE  TypeOK'
  BY <1>1, WatchConstants DEF TypeOK, ReadModifyWrite, NotifyIf, Goto, Labels, Calls
<1>2. ASSUME NEW t \in Threads, NEW f \in PartialTransforms,
             NEW c \in {"modify_if", "await_modify", "await_true"},
             NEW l \in {"modify", "test"}, StartLoop(t, c, f, l)
      PROVE  TypeOK'
  BY <1>2, Zenon DEF TypeOK, StartLoop, Goto, shared, Labels, Calls
<1>3. ASSUME NEW t \in Threads, NEW v \in Values, await_not_equal(t, v)
      PROVE  TypeOK'
  BY <1>3, Zenon DEF TypeOK, await_not_equal, Goto, shared, Labels, Calls
<1>4. ASSUME NEW t \in Threads, NEW code \in CloseCodes, close(t, code)
      PROVE  TypeOK'
  BY <1>4, WatchConstants, Zenon DEF TypeOK, close, Goto, shared, Labels, Calls
<1>5. ASSUME NEW t \in Threads, Return(t)
      PROVE  TypeOK'
  BY <1>5, Zenon DEF TypeOK, Return, Goto, shared, Labels, Calls
<1>6. ASSUME NEW t \in Threads, ModifyIteration(t)
      PROVE  TypeOK'
  <2> DEFINE m == fn[t][old_value[t]]
  <2>1. pc[t] = "modify" /\ m # None
    BY <1>6, Zenon DEF ModifyIteration
  <2>2. fn[t] \in [Values -> Values \cup {None}] /\ old_value[t] \in Values
    BY <2>1, WatchConstants, Zenon DEF TypeOK, LocalsDefined
  <2>3. m \in Values
    BY <2>1, <2>2, Zenon
  <2>4. changed' \in [Threads -> BOOLEAN]
    BY <1>6, Zenon DEF ModifyIteration, TypeOK
  <2>5. /\ value' \in Values
        /\ pc' \in [Threads -> Labels]
        /\ arg' \in [Threads -> Values \cup StatusCodes \cup {None}]
        /\ old_value' \in [Threads -> Values \cup {None}]
    <3>1. CASE value = old_value[t]
      <4>1. PICK l \in {"notify", "returned"} :
              pc' = [pc EXCEPT ![t] = l]
        BY <1>6, <3>1, Zenon DEF ModifyIteration, NotifyIf, Goto
      <4>2. /\ value' = m
            /\ arg' = [arg EXCEPT ![t] = m]
            /\ old_value' = old_value
        BY <1>6, <3>1, Zenon DEF ModifyIteration, NotifyIf
      <4> QED BY <2>3, <4>1, <4>2, Zenon DEF TypeOK, Labels
    <3>2. CASE value # old_value[t]
      <4>1. /\ old_value' = [old_value EXCEPT ![t] = value]
            /\ UNCHANGED <<value, pc, arg>>
        BY <1>6, <3>2, Zenon DEF ModifyIteration
      <4> QED BY <4>1, Zenon DEF TypeOK
    <3> QED BY <3>1, <3>2, Zenon
  <2> QED
    BY <1>6, <2>4, <2>5, Zenon DEF ModifyIteration, TypeOK
<1>7. ASSUME NEW t \in Threads, ModifyNone(t)
      PROVE  TypeOK'
  <2>1. old_value[t] \in Values
    BY <1>7, Zenon DEF ModifyNone, LocalsDefined
  <2>2. /\ pc' \in [Threads -> Labels]
        /\ last_seen' \in [Threads -> Values \cup {None}]
    <3>1. CASE call[t] = "modify_if"
      <4>1. pc' = [pc EXCEPT ![t] = "returned"] /\ last_seen' = last_seen
        BY <1>7, <3>1, Zenon DEF ModifyNone, Goto
      <4> QED BY <4>1, Zenon DEF TypeOK, Labels
    <3>2. CASE call[t] # "modify_if"
      <4>1. /\ pc' = [pc EXCEPT ![t] = "wait_load"]
            /\ last_seen' = [last_seen EXCEPT ![t] = old_value[t]]
        BY <1>7, <3>2, Zenon DEF ModifyNone, Goto
      <4> QED BY <2>1, <4>1, Zenon DEF TypeOK, Labels
    <3> QED BY <3>1, <3>2, Zenon
  <2> QED
    BY <1>7, <2>2, Zenon DEF ModifyNone, TypeOK, shared
<1>8. ASSUME NEW t \in Threads, AwaitTrueTest(t)
      PROVE  TypeOK'
  <2>1. old_value[t] \in Values
    BY <1>8, Zenon DEF AwaitTrueTest, LocalsDefined
  <2>2. /\ pc' \in [Threads -> Labels]
        /\ last_seen' \in [Threads -> Values \cup {None}]
        /\ got' \in [Threads -> Values \cup StatusCodes \cup {None}]
    <3>1. CASE fn[t][old_value[t]] # None
      <4>1. /\ pc' = [pc EXCEPT ![t] = "returned"]
            /\ got' = [got EXCEPT ![t] = old_value[t]]
            /\ last_seen' = last_seen
        BY <1>8, <3>1, Zenon DEF AwaitTrueTest, Goto
      <4> QED BY <2>1, <4>1, Zenon DEF TypeOK, Labels
    <3>2. CASE fn[t][old_value[t]] = None
      <4>1. /\ pc' = [pc EXCEPT ![t] = "wait_load"]
            /\ last_seen' = [last_seen EXCEPT ![t] = old_value[t]]
            /\ got' = got
        BY <1>8, <3>2, Zenon DEF AwaitTrueTest, Goto
      <4> QED BY <2>1, <4>1, Zenon DEF TypeOK, Labels
    <3> QED BY <3>1, <3>2, Zenon
  <2> QED
    BY <1>8, <2>2, Zenon DEF AwaitTrueTest, TypeOK, shared
<1>9. ASSUME NEW t \in Threads, WaitLoad(t)
      PROVE  TypeOK'
  <2>1. CASE value # last_seen[t]
    <3>1. value \in Values \cup StatusCodes /\ Resume(t, value)
      BY <1>9, <2>1, Zenon DEF WaitLoad, TypeOK
    <3> QED
      BY <1>9, <3>1, ResumeType, Zenon DEF TypeOK, WaitLoad, shared
  <2>2. CASE value = last_seen[t]
    BY <1>9, <2>2, Zenon DEF TypeOK, WaitLoad, Goto, shared, Labels
  <2> QED BY <2>1, <2>2, Zenon
<1>10. ASSUME NEW t \in Threads,
              WaitLock(t) \/ NotifyLock(t) \/ CloseLock(t)
       PROVE  TypeOK'
  BY <1>10, ZenonT(30) DEF TypeOK, WaitLock, NotifyLock, CloseLock, LockObservers, Goto,
               Labels, Bits
<1>11. ASSUME NEW t \in Threads, WaitClosed(t)
       PROVE  TypeOK'
  <2>1. FinalStatus(spin_state) \in StatusCodes
    BY Zenon DEF FinalStatus, StatusCodes
  <2>2. Resume(t, FinalStatus(spin_state)) /\ spin_state' \in SUBSET Bits
    BY <1>11, Zenon DEF WaitClosed, UnlockObservers, TypeOK
  <2> QED
    BY <1>11, <2>1, <2>2, ResumeType, Zenon DEF TypeOK, WaitClosed
<1>12. ASSUME NEW t \in Threads, WaitRecheck(t)
       PROVE  TypeOK'
  <2>1. /\ pc' \in [Threads -> Labels]
        /\ arg' \in [Threads -> Values \cup StatusCodes \cup {None}]
    <3>1. CASE Unchanged2(t)
      <4>1. pc' = [pc EXCEPT ![t] = "wait_push"] /\ arg' = arg
        BY <1>12, <3>1, Zenon DEF WaitRecheck, Goto
      <4> QED BY <4>1, Zenon DEF TypeOK, Labels
    <3>2. CASE ~Unchanged2(t)
      <4>1. /\ pc' = [pc EXCEPT ![t] = "wait_unlock"]
            /\ arg' = [arg EXCEPT ![t] = value]
        BY <1>12, <3>2, Zenon DEF WaitRecheck, Goto
      <4> QED BY <4>1, Zenon DEF TypeOK, Labels
    <3> QED BY <3>1, <3>2, Zenon
  <2> QED
    BY <1>12, <2>1, Zenon DEF WaitRecheck, TypeOK, shared
<1>13. ASSUME NEW t \in Threads, WaitPush(t)
       PROVE  TypeOK'
  <2>1. spin_state' \in SUBSET Bits
    BY <1>13, Zenon DEF WaitPush, UnlockObservers, PushedState, TypeOK, Bits
  <2>2. observers' \in Seq(Threads) /\ pc' \in [Threads -> Labels]
    BY <1>13 DEF WaitPush, Goto, TypeOK, Labels
  <2> QED
    BY <1>13, <2>1, <2>2, Zenon DEF WaitPush, TypeOK
<1>14. ASSUME NEW t \in Threads, WaitUnlock(t)
       PROVE  TypeOK'
  <2>1. arg[t] \in Values \cup StatusCodes
    BY <1>14, Zenon DEF WaitUnlock, LocalsDefined
  <2>2. Resume(t, arg[t]) /\ spin_state' \in SUBSET Bits
    BY <1>14, Zenon DEF WaitUnlock, UnlockObservers, TypeOK
  <2> QED
    BY <1>14, <2>1, <2>2, ResumeType, Zenon DEF WaitUnlock, TypeOK
<1>15. ASSUME NEW t \in Threads, NotifyLoad(t)
       PROVE  TypeOK'
  BY <1>15, Zenon DEF TypeOK, NotifyLoad, Goto, shared, Labels
<1>16. ASSUME NEW t \in Threads, NotifyTake(t)
       PROVE  TypeOK'
  <2>1. spin_state' \in SUBSET Bits
    BY <1>16, Zenon DEF NotifyTake, TakeObservers, UnlockObservers, TypeOK
  <2>2. /\ observers' \in Seq(Threads)
        /\ local_observers' \in [Threads -> Seq(Threads)]
        /\ pc' \in [Threads -> Labels]
    <3>1. observers \in Seq(Threads) /\ <<>> \in Seq(Threads)
      BY DEF TypeOK
    <3> QED
      BY <1>16, <3>1, Zenon DEF NotifyTake, TakeObservers, LeftBehind, Goto, TypeOK, Labels
  <2> QED
    BY <1>16, <2>1, <2>2, Zenon DEF NotifyTake, TypeOK
<1>17. ASSUME NEW t \in Threads, CloseTake(t)
       PROVE  TypeOK'
  <2>1. CloseBit(spin_state, arg[t]) \subseteq Bits
    BY Zenon DEF CloseBit, Bits
  <2>2. FinalStatus(spin_state') \in StatusCodes
    BY Zenon DEF FinalStatus, StatusCodes
  <2>3. spin_state' \in SUBSET Bits
    BY <1>17, <2>1, Zenon DEF CloseTake, TakeObservers, UnlockObservers, TypeOK
  <2>4. /\ observers' \in Seq(Threads)
        /\ local_observers' \in [Threads -> Seq(Threads)]
        /\ pc' \in [Threads -> Labels]
    <3>1. observers \in Seq(Threads) /\ <<>> \in Seq(Threads)
      BY DEF TypeOK
    <3> QED
      BY <1>17, <3>1, Zenon DEF CloseTake, TakeObservers, LeftBehind, Goto, TypeOK, Labels
  <2>5. arg' \in [Threads -> Values \cup StatusCodes \cup {None}]
    BY <1>17, <2>2, Zenon DEF CloseTake, TypeOK
  <2> QED
    BY <1>17, <2>3, <2>4, <2>5, Zenon DEF CloseTake, TypeOK
<1>18. ASSUME NEW t \in Threads, Invoke(t)
       PROVE  TypeOK'
  <2>1. CASE local_observers[t] # <<>>
    <3>1. Head(local_observers[t]) \in Threads
          /\ Tail(local_observers[t]) \in Seq(Threads)
      BY <2>1 DEF TypeOK
    <3>2. arg[t] \in Values \cup StatusCodes
      BY <1>18, Zenon DEF Invoke, TypeOK, LocalsDefined
    <3>3. /\ Resume(Head(local_observers[t]), arg[t])
          /\ local_observers' =
               [local_observers EXCEPT ![t] = Tail(local_observers[t])]
      BY <1>18, <2>1, Zenon DEF Invoke, MoreHandlers
    <3>4. local_observers' \in [Threads -> Seq(Threads)]
      BY <3>1, <3>3, Zenon DEF TypeOK
    <3> QED
      BY <1>18, <3>1, <3>2, <3>3, <3>4, ResumeType, Zenon DEF Invoke, TypeOK, shared
  <2>2. CASE local_observers[t] = <<>>
    BY <1>18, <2>2, Zenon DEF TypeOK, Invoke, MoreHandlers, Goto, shared, Labels
  <2> QED BY <2>1, <2>2, Zenon
<1>19. CASE UNCHANGED vars
  BY <1>19, Zenon DEF TypeOK, vars
<1> QED
  BY <1>1, <1>2, <1>3, <1>4, <1>5, <1>6, <1>7, <1>8, <1>9, <1>10, <1>11,
     <1>12, <1>13, <1>14, <1>15, <1>16, <1>17, <1>18, <1>19, Zenon
  DEF Next, Start, Continue, modify_if, await_modify, await_true

-----------------------------------------------------------------------------
(* What the steps do to the lock, the lists and the labels.                *)

\* Steps outside the spin lock that touch no list of handlers.
Local(t) == Start(t) \/ Return(t) \/ ModifyIteration(t) \/ ModifyNone(t)
              \/ AwaitTrueTest(t) \/ WaitLoad(t) \/ NotifyLoad(t)
Acquire(t) == WaitLock(t) \/ NotifyLock(t) \/ CloseLock(t)
Release(t) == WaitClosed(t) \/ WaitUnlock(t)
Take(t) == NotifyTake(t) \/ CloseTake(t)

\* t is the only thread that moves, and only what it waits for is its own.
OnlyMoves(t) ==
  \A u \in Threads \ {t} : pc'[u] = pc[u] /\ last_seen'[u] = last_seen[u]

Outside == Labels \ (HoldsLock \cup {"blocked", "invoke"})

\* Steps outside the spin lock: they change neither the word nor the lists,
\* and a change of the value leads to notify.
LEMMA LocalEffect ==
  ASSUME TypeOK, LocalsDefined, NEW t \in Threads, Local(t)
  PROVE  /\ pc[t] \in Outside /\ pc'[t] \in Outside
         /\ OnlyMoves(t)
         /\ UNCHANGED <<spin_state, observers, local_observers>>
         /\ value' = value \/ pc'[t] = "notify"
         /\ pc[t] \in {"notify", "notify_lock", "notify_take"} =>
              pc'[t] = "notify_lock" \/ SkipsLock(spin_state)
         /\ pc[t] = "notify" \/ pc[t] \notin {"notify_lock", "notify_take"}
<1> USE DEF Outside, HoldsLock, Labels, OnlyMoves, TypeOK
<1>1. ASSUME NEW f \in Transforms, ReadModifyWrite(t, f)
      PROVE  /\ pc[t] = "idle" /\ pc'[t] \in {"notify", "returned"}
             /\ OnlyMoves(t)
             /\ UNCHANGED <<spin_state, observers, local_observers>>
             /\ value' = value \/ pc'[t] = "notify"
  BY <1>1, Zenon DEF ReadModifyWrite, NotifyIf, Goto
<1>2. ASSUME NEW f \in PartialTransforms,
             NEW c \in {"modify_if", "await_modify", "await_true"},
             NEW l \in {"modify", "test"}, StartLoop(t, c, f, l)
      PROVE  /\ pc[t] = "idle" /\ pc'[t] \in {"modify", "test"}
             /\ OnlyMoves(t)
             /\ UNCHANGED <<value, spin_state, observers, local_observers>>
  BY <1>2, Zenon DEF StartLoop, Goto, shared
<1>3. ASSUME NEW v \in Values, await_not_equal(t, v)
      PROVE  /\ pc[t] = "idle" /\ pc'[t] = "wait_load"
             /\ OnlyMoves(t)
             /\ UNCHANGED <<value, spin_state, observers, local_observers>>
  BY <1>3, Zenon DEF await_not_equal, Goto, shared
<1>4. ASSUME NEW code \in CloseCodes, close(t, code)
      PROVE  /\ pc[t] = "idle" /\ pc'[t] = "close_lock"
             /\ OnlyMoves(t)
             /\ UNCHANGED <<value, spin_state, observers, local_observers>>
  BY <1>4, Zenon DEF close, Goto, shared
<1>5. ASSUME Return(t)
      PROVE  /\ pc[t] = "returned" /\ pc'[t] = "idle"
             /\ OnlyMoves(t)
             /\ UNCHANGED <<value, spin_state, observers, local_observers>>
  BY <1>5, Zenon DEF Return, Goto, shared
<1>6. ASSUME ModifyIteration(t)
      PROVE  /\ pc[t] = "modify" /\ pc'[t] \in {"notify", "returned", "modify"}
             /\ OnlyMoves(t)
             /\ UNCHANGED <<spin_state, observers, local_observers>>
             /\ value' = value \/ pc'[t] = "notify"
  <2>1. CASE value = old_value[t]
    BY <1>6, <2>1, Zenon DEF ModifyIteration, NotifyIf, Goto
  <2>2. CASE value # old_value[t]
    BY <1>6, <2>2, Zenon DEF ModifyIteration
  <2> QED BY <2>1, <2>2, Zenon
<1>7. ASSUME ModifyNone(t)
      PROVE  /\ pc[t] = "modify" /\ pc'[t] \in {"returned", "wait_load"}
             /\ OnlyMoves(t)
             /\ UNCHANGED <<value, spin_state, observers, local_observers>>
  BY <1>7, Zenon DEF ModifyNone, Goto, shared
<1>8. ASSUME AwaitTrueTest(t)
      PROVE  /\ pc[t] = "test" /\ pc'[t] \in {"returned", "wait_load"}
             /\ OnlyMoves(t)
             /\ UNCHANGED <<value, spin_state, observers, local_observers>>
  BY <1>8 DEF AwaitTrueTest, Goto, shared
<1>9. ASSUME WaitLoad(t)
      PROVE  /\ pc[t] = "wait_load"
             /\ pc'[t] \in {"returned", "modify", "test", "wait_lock"}
             /\ OnlyMoves(t)
             /\ UNCHANGED <<value, spin_state, observers, local_observers>>
  <2>1. CASE value # last_seen[t]
    <3>1. value \in Values \cup StatusCodes /\ Resume(t, value)
      BY <1>9, <2>1, Zenon DEF WaitLoad
    <3> QED BY <1>9, <3>1, ResumeType, Zenon DEF WaitLoad, shared
  <2>2. CASE value = last_seen[t]
    BY <1>9, <2>2, Zenon DEF WaitLoad, Goto, shared
  <2> QED BY <2>1, <2>2, Zenon
<1>10. ASSUME NotifyLoad(t)
       PROVE  /\ pc[t] = "notify" /\ pc'[t] \in {"returned", "notify_lock"}
              /\ pc'[t] = "notify_lock" \/ SkipsLock(spin_state)
              /\ OnlyMoves(t)
              /\ UNCHANGED <<value, spin_state, observers, local_observers>>
  BY <1>10, Zenon DEF NotifyLoad, Goto, shared
<1>11. CASE \E f \in Transforms : ReadModifyWrite(t, f)
  BY <1>1, <1>11, Zenon
<1>12. CASE \E f \in PartialTransforms :
              modify_if(t, f) \/ await_modify(t, f) \/ await_true(t, f)
  BY <1>2, <1>12, Zenon DEF modify_if, await_modify, await_true
<1>13. CASE \E v \in Values : await_not_equal(t, v)
  BY <1>3, <1>13, Zenon
<1>14. CASE \E code \in CloseCodes : close(t, code)
  BY <1>4, <1>14, Zenon
<1> HIDE DEF Outside, HoldsLock, Labels, OnlyMoves, TypeOK
<1>15. CASE Start(t)
  BY <1>11, <1>12, <1>13, <1>14, <1>15, Zenon DEF Start
<1>16. CASE ~Start(t)
  BY <1>5, <1>6, <1>7, <1>8, <1>9, <1>10, <1>16, Zenon
  DEF Local, Outside, HoldsLock, Labels
<1> QED BY <1>15, <1>16, Zenon

\* lock_observers, in async_wait, notify and close.
LEMMA AcquireEffect ==
  ASSUME TypeOK, NEW t \in Threads, Acquire(t)
  PROVE  /\ pc[t] \in {"wait_lock", "notify_lock", "close_lock"}
         /\ pc'[t] \in {"wait_recheck", "wait_closed", "notify_take", "close_take"}
         /\ pc[t] = "notify_lock" <=> pc'[t] = "notify_take"
         /\ pc'[t] = "wait_recheck" => "kOpen" \in spin_state
         /\ "kLocked" \notin spin_state
         /\ spin_state' = spin_state \cup {"kLocked"}
         /\ OnlyMoves(t)
         /\ UNCHANGED <<value, observers, local_observers, last_seen>>
BY Zenon DEF Acquire, WaitLock, NotifyLock, CloseLock, LockObservers, LockIsFree,
       Goto, OnlyMoves, TypeOK

\* async_wait goes on to push its handler only if the value is still the one
\* it has seen.
LEMMA RecheckEffect ==
  ASSUME TypeOK, NEW t \in Threads, WaitRecheck(t)
  PROVE  /\ pc[t] = "wait_recheck"
         /\ pc'[t] \in {"wait_push", "wait_unlock"}
         /\ pc'[t] = "wait_push" => value = last_seen[t]
         /\ OnlyMoves(t)
         /\ UNCHANGED <<value, spin_state, observers, local_observers, last_seen>>
BY Zenon DEF WaitRecheck, Unchanged2, Goto, OnlyMoves, shared, TypeOK

\* async_wait gives up under the lock: the watch is closed, or has changed.
LEMMA ReleaseEffect ==
  ASSUME TypeOK, LocalsDefined, NEW t \in Threads, Release(t)
  PROVE  /\ pc[t] \in {"wait_closed", "wait_unlock"}
         /\ pc'[t] \in {"returned", "modify", "test"}
         /\ spin_state' = spin_state \ {"kLocked"}
         /\ OnlyMoves(t)
         /\ UNCHANGED <<value, observers, local_observers, last_seen>>
<1>1. PICK r \in Values \cup StatusCodes : Resume(t, r)
  <2>1. CASE WaitClosed(t)
    <3>1. FinalStatus(spin_state) \in StatusCodes
      BY Zenon DEF FinalStatus, StatusCodes
    <3> QED BY <2>1, <3>1, Zenon DEF WaitClosed
  <2>2. CASE WaitUnlock(t)
    BY <2>2, Zenon DEF WaitUnlock, LocalsDefined
  <2> QED BY <2>1, <2>2, Zenon DEF Release
<1>2. /\ pc'[t] \in {"returned", "modify", "test"}
      /\ \A u \in Threads \ {t} : pc'[u] = pc[u]
  BY <1>1, ResumeType, Zenon
<1> QED
  BY <1>2, Zenon DEF Release, WaitClosed, WaitUnlock, UnlockObservers, OnlyMoves

\* async_wait pushes its handler and unlocks with kWaiting on.
LEMMA PushEffect ==
  ASSUME TypeOK, NEW t \in Threads, WaitPush(t)
  PROVE  /\ pc[t] = "wait_push" /\ pc'[t] = "blocked"
         /\ observers' = Append(observers, t)
         /\ spin_state' = (spin_state \cup {"kWaiting"}) \ {"kLocked"}
         /\ OnlyMoves(t)
         /\ UNCHANGED <<value, local_observers, last_seen>>
BY Zenon DEF WaitPush, UnlockObservers, PushedState, Goto, OnlyMoves, TypeOK

\* notify and close empty the list of observers and turn kWaiting off.
LEMMA TakeEffect ==
  ASSUME TypeOK, NEW t \in Threads, Take(t)
  PROVE  /\ pc[t] \in {"notify_take", "close_take"} /\ pc'[t] = "invoke"
         /\ observers' = <<>>
         /\ local_observers' = [local_observers EXCEPT ![t] = observers]
         /\ "kLocked" \notin spin_state' /\ "kWaiting" \notin spin_state'
         /\ OnlyMoves(t)
         /\ UNCHANGED <<value, last_seen>>
<1>1. CASE NotifyTake(t)
  BY <1>1, Zenon DEF NotifyTake, TakeObservers, LeftBehind, UnlockObservers, Goto,
              OnlyMoves, TypeOK
<1>2. CASE CloseTake(t)
  <2>1. "kWaiting" \notin CloseBit(spin_state, arg[t])
    BY Zenon DEF CloseBit
  <2>2. /\ pc[t] = "close_take"
        /\ pc' = [pc EXCEPT ![t] = "invoke"]
        /\ observers' = <<>>
        /\ local_observers' = [local_observers EXCEPT ![t] = observers]
        /\ spin_state' = ((spin_state \ {"kOpen", "kWaiting"})
                            \cup CloseBit(spin_state, arg[t])) \ {"kLocked"}
        /\ UNCHANGED <<value, last_seen>>
    BY <1>2, Zenon DEF CloseTake, TakeObservers, LeftBehind, UnlockObservers, Goto
  <2> QED BY <2>1, <2>2, Zenon DEF OnlyMoves, TypeOK
<1> QED BY <1>1, <1>2, Zenon DEF Take

\* invoke_all_handlers resumes the waiter of the first handler, or ends.
LEMMA InvokeEffect ==
  ASSUME TypeOK, LocalsDefined, NEW t \in Threads, Invoke(t)
  PROVE  /\ pc[t] = "invoke"
         /\ UNCHANGED <<value, spin_state, observers, last_seen>>
         /\ \/ /\ local_observers[t] = <<>>
               /\ pc'[t] = "returned"
               /\ OnlyMoves(t)
               /\ UNCHANGED local_observers
            \/ /\ local_observers[t] # <<>>
               /\ Head(local_observers[t]) \in Threads
               /\ pc'[Head(local_observers[t])] \in {"returned", "modify", "test"}
               /\ OnlyMoves(Head(local_observers[t]))
               /\ local_observers' =
                    [local_observers EXCEPT ![t] = Tail(local_observers[t])]
<1>1. pc[t] = "invoke" /\ UNCHANGED <<value, spin_state, observers, last_seen>>
  BY Zenon DEF Invoke, shared
<1>2. CASE local_observers[t] = <<>>
  BY <1>1, <1>2, Zenon DEF Invoke, MoreHandlers, Goto, OnlyMoves, TypeOK
<1>3. CASE local_observers[t] # <<>>
  <2>1. Head(local_observers[t]) \in Threads
    BY <1>3 DEF TypeOK
  <2>2. arg[t] \in Values \cup StatusCodes
    BY <1>1, Zenon DEF TypeOK, LocalsDefined
  <2>3. /\ Resume(Head(local_observers[t]), arg[t])
        /\ local_observers' =
             [local_observers EXCEPT ![t] = Tail(local_observers[t])]
    BY <1>3, Zenon DEF Invoke, MoreHandlers
  <2> QED BY <1>1, <1>3, <2>1, <2>2, <2>3, ResumeType, Zenon DEF OnlyMoves
<1> QED BY <1>2, <1>3, Zenon

\* Every step is of one of these kinds.
LEMMA StepKinds ==
  ASSUME [Next]_vars
  PROVE  \/ UNCHANGED vars
         \/ \E t \in Threads : \/ Local(t) \/ Acquire(t) \/ Release(t)
                               \/ WaitRecheck(t) \/ WaitPush(t) \/ Take(t)
                               \/ Invoke(t)
BY Zenon DEF Next, Continue, Local, Acquire, Release, Take

-----------------------------------------------------------------------------
(* The parts of the inductive invariant, one by one.                       *)

\* Handlers: at most one per thread, and only blocked threads have one.
Handlers == HandlersBlocked /\ HandlersDistinct /\ HandlersHeld

\* No step drops or duplicates a handler, or lets a thread run while it has
\* one.
LEMMA HandlersStep ==
  ASSUME TypeOK, LocalsDefined, Handlers, [Next]_vars
  PROVE  Handlers'
\* A thread that is not blocked is in no list.
<1>1. ASSUME NEW t \in Threads, pc[t] # "blocked"
      PROVE  /\ \A i \in 1..Len(observers) : observers[i] \in Threads \ {t}
             /\ \A u \in Threads : \A i \in 1..Len(local_observers[u]) :
                  local_observers[u][i] \in Threads \ {t}
  BY <1>1 DEF TypeOK, Handlers, HandlersBlocked
\* A step of a thread that is not blocked and holds no handlers.
<1>2. ASSUME NEW t \in Threads, pc[t] # "blocked", local_observers[t] = <<>>,
             OnlyMoves(t), UNCHANGED <<observers, local_observers>>
      PROVE  Handlers'
  <2>1. HandlersBlocked'
    BY <1>1, <1>2 DEF OnlyMoves, Handlers, HandlersBlocked
  <2>2. HandlersDistinct'
    BY <1>2 DEF Handlers, HandlersDistinct
  <2>3. HandlersHeld'
    BY <1>2, Zenon DEF OnlyMoves, Handlers, HandlersHeld
  <2> QED BY <2>1, <2>2, <2>3, Zenon DEF Handlers
<1>3. ASSUME NEW t \in Threads, Local(t) \/ Acquire(t) \/ Release(t)
                                  \/ WaitRecheck(t)
      PROVE  Handlers'
  <2>1. /\ pc[t] \notin {"blocked", "invoke"}
        /\ OnlyMoves(t)
        /\ UNCHANGED <<observers, local_observers>>
    BY <1>3, LocalEffect, AcquireEffect, ReleaseEffect, RecheckEffect, Zenon
    DEF Outside
  <2>2. local_observers[t] = <<>>
    BY <2>1, Zenon DEF Handlers, HandlersHeld
  <2> QED BY <1>2, <2>1, <2>2, Zenon
<1>4. ASSUME NEW t \in Threads, WaitPush(t)
      PROVE  Handlers'
  <2>1. /\ Len(observers') = Len(observers) + 1
        /\ \A i \in 1..Len(observers) : observers'[i] = observers[i]
        /\ observers'[Len(observers) + 1] = t
        /\ Len(observers) \in Nat
    <3>1. observers' = Append(observers, t) /\ observers \in Seq(Threads)
      BY <1>4, PushEffect, Zenon DEF TypeOK
    <3> QED BY <3>1
  <2>2. /\ pc[t] = "wait_push" /\ pc'[t] = "blocked"
        /\ OnlyMoves(t) /\ UNCHANGED local_observers
    BY <1>4, PushEffect, Zenon
  <2>3. /\ \A i \in 1..Len(observers) : observers[i] \in Threads \ {t}
        /\ \A u \in Threads : \A i \in 1..Len(local_observers[u]) :
             local_observers[u][i] \in Threads \ {t}
    BY <1>1, <2>2, Zenon
  <2>4. HandlersBlocked'
    BY <2>1, <2>2, <2>3 DEF OnlyMoves, Handlers, HandlersBlocked
  <2>5. HandlersHeld'
    BY <2>2, <2>3, Zenon DEF OnlyMoves, Handlers, HandlersHeld
  <2>6. HandlersDistinct'
    <3>1. \A i \in 1..Len(observers') :
            i \in 1..Len(observers) \/ i = Len(observers) + 1
      BY <2>1
    <3> QED BY <2>1, <2>2, <2>3, <3>1, SMTT(30) DEF Handlers, HandlersDistinct
  <2> QED BY <2>4, <2>5, <2>6, Zenon DEF Handlers
<1>5. ASSUME NEW t \in Threads, Take(t)
      PROVE  Handlers'
  <2>1. /\ pc[t] \notin {"blocked", "invoke"} /\ pc'[t] = "invoke"
        /\ observers' = <<>>
        /\ local_observers' = [local_observers EXCEPT ![t] = observers]
        /\ OnlyMoves(t)
    BY <1>5, TakeEffect, Zenon
  <2>2. local_observers[t] = <<>>
    BY <2>1, Zenon DEF Handlers, HandlersHeld
  <2>3. \A u \in Threads : local_observers'[u] =
          IF u = t THEN observers ELSE local_observers[u]
    BY <2>1, Zenon DEF TypeOK
  <2>4. Len(observers') = 0
    BY <2>1, Zenon
  <2>5. HandlersBlocked'
    BY <2>1, <2>3, <2>4 DEF OnlyMoves, TypeOK, Handlers, HandlersBlocked
  <2>6. HandlersHeld'
    BY <2>1, <2>3, Zenon DEF OnlyMoves, Handlers, HandlersHeld
  <2>7. HandlersDistinct'
    BY <2>2, <2>3, <2>4 DEF Handlers, HandlersDistinct
  <2> QED BY <2>5, <2>6, <2>7, Zenon DEF Handlers
<1>6. ASSUME NEW t \in Threads, Invoke(t)
      PROVE  Handlers'
  <2>1. CASE local_observers[t] = <<>>
    <3>1. /\ pc[t] = "invoke" /\ OnlyMoves(t)
          /\ UNCHANGED <<observers, local_observers>>
      BY <1>6, <2>1, InvokeEffect, Zenon
    <3> QED BY <1>2, <2>1, <3>1, Zenon
  <2>2. CASE local_observers[t] # <<>>
    <3> DEFINE list == local_observers[t]
               w == Head(list)
    <3>1. /\ list \in Seq(Threads) /\ list # <<>>
          /\ pc[t] = "invoke"
          /\ w \in Threads
          /\ pc'[w] \in {"returned", "modify", "test"}
          /\ OnlyMoves(w)
          /\ observers' = observers
          /\ local_observers' = [local_observers EXCEPT ![t] = Tail(list)]
      BY <1>6, <2>2, InvokeEffect, Zenon DEF TypeOK
    <3>2. /\ w = list[1] /\ 1 \in 1..Len(list)
          /\ Len(Tail(list)) = Len(list) - 1 /\ Len(list) \in Nat
          /\ \A i \in 1..Len(Tail(list)) : Tail(list)[i] = list[i + 1]
      BY <3>1
    <3>3. pc[w] = "blocked" /\ w # t
      BY <3>1, <3>2 DEF Handlers, HandlersBlocked
    <3>4. \A u \in Threads : local_observers'[u] =
            IF u = t THEN Tail(list) ELSE local_observers[u]
      BY <3>1, Zenon DEF TypeOK
    <3>5. \A i \in 1..Len(Tail(list)) :
            i + 1 \in 1..Len(list) /\ i + 1 # 1
      BY <3>2
    \* Every handler that is left was there before, and is not the first.
    <3>6. ASSUME NEW u \in Threads, NEW i \in 1..Len(local_observers'[u])
          PROVE  \E k \in 1..Len(local_observers[u]) :
                   /\ local_observers'[u][i] = local_observers[u][k]
                   /\ k = IF u = t THEN i + 1 ELSE i
                   /\ u = t => k # 1
      <4>1. CASE u = t
        <5>1. /\ i \in 1..Len(Tail(list))
              /\ local_observers'[u][i] = Tail(list)[i]
          BY <3>4, <4>1, Zenon
        <5> QED BY <3>2, <3>5, <4>1, <5>1, Zenon
      <4>2. CASE u # t
        BY <3>4, <4>2, Zenon
      <4> QED BY <4>1, <4>2, Zenon
    <3>7. HandlersHeld'
      BY <3>1, <3>3, <3>4, Zenon DEF OnlyMoves, Handlers, HandlersHeld
    <3>8. HandlersDistinct'
      <4>1. ASSUME NEW u \in Threads, NEW i \in 1..Len(local_observers'[u])
            PROVE  \A j \in 1..Len(observers) :
                     local_observers'[u][i] # observers[j]
        <5>1. PICK k \in 1..Len(local_observers[u]) :
                local_observers'[u][i] = local_observers[u][k]
          BY <3>6, Zenon
        <5> QED BY <5>1 DEF Handlers, HandlersDistinct
      <4>2. ASSUME NEW u \in Threads, NEW i \in 1..Len(local_observers'[u]),
                   NEW v \in Threads, NEW j \in 1..Len(local_observers'[v]),
                   local_observers'[u][i] = local_observers'[v][j]
            PROVE  u = v /\ i = j
        <5>1. PICK k \in 1..Len(local_observers[u]) :
                /\ local_observers'[u][i] = local_observers[u][k]
                /\ k = IF u = t THEN i + 1 ELSE i
          BY <3>6
        <5>2. PICK m \in 1..Len(local_observers[v]) :
                /\ local_observers'[v][j] = local_observers[v][m]
                /\ m = IF v = t THEN j + 1 ELSE j
          BY <3>6
        <5>3. local_observers[u][k] = local_observers[v][m]
          BY <4>2, <5>1, <5>2, Zenon
        <5>4. u = v /\ k = m
          BY <5>3, Zenon DEF Handlers, HandlersDistinct
        <5> QED BY <5>1, <5>2, <5>4
      <4> QED BY <3>1, <4>1, <4>2, SMTT(30) DEF Handlers, HandlersDistinct
    <3>9. HandlersBlocked'
      <4>1. \A i \in 1..Len(observers) :
              observers[i] # w /\ observers[i] \in Threads
        <5>1. \A i \in 1..Len(observers) : observers[i] \in Threads
          BY DEF TypeOK
        <5> QED BY <3>2, <5>1 DEF Handlers, HandlersDistinct
      <4>2. ASSUME NEW u \in Threads, NEW i \in 1..Len(local_observers'[u])
            PROVE  /\ local_observers'[u][i] # w
                   /\ local_observers'[u][i] \in Threads
                   /\ pc[local_observers'[u][i]] = "blocked"
        <5>1. PICK k \in 1..Len(local_observers[u]) :
                /\ local_observers'[u][i] = local_observers[u][k]
                /\ u = t => k # 1
          BY <3>6
        <5>2. local_observers[u][k] \in Threads
          BY DEF TypeOK
        <5>3. local_observers[u][k] # w
          BY <3>2, <5>1 DEF Handlers, HandlersDistinct
        <5>4. pc[local_observers[u][k]] = "blocked"
          BY Zenon DEF Handlers, HandlersBlocked
        <5> QED BY <5>1, <5>2, <5>3, <5>4, Zenon
      <4>3. \A u \in Threads \ {w} : pc'[u] = pc[u]
        BY <3>1, Zenon DEF OnlyMoves
      <4> QED BY <3>1, <4>1, <4>2, <4>3, ZenonT(30) DEF Handlers, HandlersBlocked
    <3> QED BY <3>7, <3>8, <3>9, Zenon DEF Handlers
  <2> QED BY <2>1, <2>2, Zenon
<1>7. CASE UNCHANGED vars
  BY <1>7 DEF vars, Handlers, HandlersBlocked, HandlersDistinct, HandlersHeld
<1> QED BY <1>3, <1>4, <1>5, <1>6, <1>7, StepKinds, Zenon

\* A thread that is about to compare, modify or notify has the value for it.
LEMMA LocalsStep ==
  ASSUME TypeOK, LocalsDefined, [Next]_vars
  PROVE  LocalsDefined'
<1>1. ASSUME NEW t \in Threads, NEW f \in Transforms, ReadModifyWrite(t, f)
      PROVE  LocalsDefined'
  BY <1>1, WatchConstants DEF TypeOK, LocalsDefined, ReadModifyWrite, NotifyIf, Goto
<1>2. ASSUME NEW t \in Threads, NEW f \in PartialTransforms,
             NEW c \in {"modify_if", "await_modify", "await_true"},
             NEW l \in {"modify", "test"}, StartLoop(t, c, f, l)
      PROVE  LocalsDefined'
  BY <1>2, WatchConstants DEF TypeOK, LocalsDefined, StartLoop, Goto, shared
<1>3. ASSUME NEW t \in Threads, NEW v \in Values, await_not_equal(t, v)
      PROVE  LocalsDefined'
  BY <1>3, Zenon DEF TypeOK, LocalsDefined, await_not_equal, Goto, shared
<1>4. ASSUME NEW t \in Threads, NEW code \in CloseCodes, close(t, code)
      PROVE  LocalsDefined'
  BY <1>4, WatchConstants DEF TypeOK, LocalsDefined, close, Goto, shared
<1>5. ASSUME NEW t \in Threads, Return(t)
      PROVE  LocalsDefined'
  BY <1>5, Zenon DEF TypeOK, LocalsDefined, Return, Goto, shared
<1>6. ASSUME NEW t \in Threads, ModifyIteration(t)
      PROVE  LocalsDefined'
  <2> DEFINE m == fn[t][old_value[t]]
  <2>1. pc[t] = "modify" /\ m # None
    BY <1>6, Zenon DEF ModifyIteration
  <2>2. m \in Values
    BY <2>1, WatchConstants DEF TypeOK, LocalsDefined
  <2>3. CASE value = old_value[t]
    <3>1. PICK l \in {"notify", "returned"} : pc' = [pc EXCEPT ![t] = l]
      BY <1>6, <2>3, Zenon DEF ModifyIteration, NotifyIf, Goto
    <3>2. /\ arg' = [arg EXCEPT ![t] = m]
          /\ UNCHANGED <<old_value, fn, call>>
      BY <1>6, <2>3, Zenon DEF ModifyIteration, NotifyIf
    <3> QED BY <2>2, <3>1, <3>2, Zenon DEF LocalsDefined, TypeOK
  <2>4. CASE value # old_value[t]
    <3>1. /\ old_value' = [old_value EXCEPT ![t] = value]
          /\ UNCHANGED <<pc, arg, fn, call>>
      BY <1>6, <2>4, Zenon DEF ModifyIteration
    <3> QED BY <3>1, Zenon DEF LocalsDefined, TypeOK
  <2> QED BY <2>3, <2>4, Zenon
<1>7. ASSUME NEW t \in Threads, ModifyNone(t)
      PROVE  LocalsDefined'
  BY <1>7 DEF TypeOK, LocalsDefined, ModifyNone, Goto, shared
<1>8. ASSUME NEW t \in Threads, AwaitTrueTest(t)
      PROVE  LocalsDefined'
  BY <1>8 DEF TypeOK, LocalsDefined, AwaitTrueTest, Goto, shared
\* A handler is invoked, by its own thread or by another.
<1>9. ASSUME NEW w \in Threads, NEW r \in Values \cup StatusCodes,
             Resume(w, r), UNCHANGED <<call, fn, arg>>
      PROVE  LocalsDefined'
  BY <1>9, ResumeType, ZenonT(30) DEF TypeOK, LocalsDefined
<1>10. ASSUME NEW t \in Threads, WaitLoad(t)
       PROVE  LocalsDefined'
  <2>1. CASE value # last_seen[t]
    <3>1. value \in Values \cup StatusCodes /\ Resume(t, value)
          /\ UNCHANGED <<call, fn, arg>>
      BY <1>10, <2>1, Zenon DEF WaitLoad, TypeOK
    <3> QED BY <1>9, <3>1, Zenon
  <2>2. CASE value = last_seen[t]
    BY <1>10, <2>2 DEF TypeOK, LocalsDefined, WaitLoad, Goto, shared
  <2> QED BY <2>1, <2>2, Zenon
<1>11. ASSUME NEW t \in Threads, Acquire(t)
       PROVE  LocalsDefined'
  <2>1. UNCHANGED <<call, fn, old_value, arg>>
    BY <1>11, Zenon DEF Acquire, WaitLock, NotifyLock, CloseLock
  <2>2. /\ pc[t] = "notify_lock" <=> pc'[t] = "notify_take"
        /\ pc'[t] \in {"wait_recheck", "wait_closed", "notify_take", "close_take"}
        /\ \A u \in Threads \ {t} : pc'[u] = pc[u]
    BY <1>11, AcquireEffect, Zenon DEF OnlyMoves
  <2> QED BY <2>1, <2>2, Zenon DEF LocalsDefined
<1>12. ASSUME NEW t \in Threads, Release(t)
       PROVE  LocalsDefined'
  <2>1. CASE WaitClosed(t)
    <3>1. FinalStatus(spin_state) \in StatusCodes
      BY Zenon DEF FinalStatus, StatusCodes
    <3> QED BY <1>9, <2>1, <3>1, Zenon DEF WaitClosed
  <2>2. CASE WaitUnlock(t)
    BY <1>9, <2>2, Zenon DEF WaitUnlock, LocalsDefined
  <2> QED BY <1>12, <2>1, <2>2, Zenon DEF Release
<1>13. ASSUME NEW t \in Threads, WaitRecheck(t)
       PROVE  LocalsDefined'
  <2>1. CASE Unchanged2(t)
    <3>1. /\ pc' = [pc EXCEPT ![t] = "wait_push"]
          /\ UNCHANGED <<call, fn, old_value, arg>>
      BY <1>13, <2>1, Zenon DEF WaitRecheck, Goto
    <3> QED BY <3>1, Zenon DEF LocalsDefined, TypeOK
  <2>2. CASE ~Unchanged2(t)
    <3>1. /\ pc' = [pc EXCEPT ![t] = "wait_unlock"]
          /\ arg' = [arg EXCEPT ![t] = value]
          /\ UNCHANGED <<call, fn, old_value>>
      BY <1>13, <2>2, Zenon DEF WaitRecheck, Goto
    <3> QED BY <3>1, Zenon DEF LocalsDefined, TypeOK
  <2> QED BY <2>1, <2>2, Zenon
<1>14. ASSUME NEW t \in Threads, WaitPush(t)
       PROVE  LocalsDefined'
  BY <1>14, Zenon DEF TypeOK, LocalsDefined, WaitPush, Goto
<1>15. ASSUME NEW t \in Threads, NotifyLoad(t)
       PROVE  LocalsDefined'
  BY <1>15, Zenon DEF TypeOK, LocalsDefined, NotifyLoad, Goto, shared
<1>16. ASSUME NEW t \in Threads, NotifyTake(t)
       PROVE  LocalsDefined'
  <2>1. /\ pc[t] = "notify_take"
        /\ pc' = [pc EXCEPT ![t] = "invoke"]
        /\ UNCHANGED <<call, fn, old_value, arg>>
    BY <1>16, Zenon DEF NotifyTake, TakeObservers, Goto
  <2>2. arg[t] # None
    BY <2>1, WatchConstants, Zenon DEF LocalsDefined
  <2> QED BY <2>1, <2>2, Zenon DEF LocalsDefined, TypeOK
<1>17. ASSUME NEW t \in Threads, CloseTake(t)
       PROVE  LocalsDefined'
  <2>1. FinalStatus(spin_state') \in StatusCodes
    BY Zenon DEF FinalStatus, StatusCodes
  <2> QED
    BY <1>17, <2>1, WatchConstants, Zenon DEF TypeOK, LocalsDefined, CloseTake, TakeObservers, Goto
<1>18. ASSUME NEW t \in Threads, Invoke(t)
       PROVE  LocalsDefined'
  <2>1. CASE local_observers[t] # <<>>
    <3>1. Head(local_observers[t]) \in Threads
      BY <2>1 DEF TypeOK
    <3>2. arg[t] \in Values \cup StatusCodes
      BY <1>18, Zenon DEF Invoke, TypeOK, LocalsDefined
    <3>3. Resume(Head(local_observers[t]), arg[t])
          /\ UNCHANGED <<call, fn, arg>>
      BY <1>18, <2>1, Zenon DEF Invoke, MoreHandlers
    <3> QED BY <1>9, <3>1, <3>2, <3>3, Zenon
  <2>2. CASE local_observers[t] = <<>>
    <3>1. /\ pc' = [pc EXCEPT ![t] = "returned"]
          /\ UNCHANGED <<call, fn, old_value, arg>>
      BY <1>18, <2>2, Zenon DEF Invoke, MoreHandlers, Goto
    <3> QED BY <3>1, Zenon DEF LocalsDefined, TypeOK
  <2> QED BY <2>1, <2>2, Zenon
<1>19. CASE UNCHANGED vars
  BY <1>19, Zenon DEF LocalsDefined, vars
<1> QED
  BY <1>1, <1>2, <1>3, <1>4, <1>5, <1>6, <1>7, <1>8, <1>10, <1>11, <1>12,
     <1>13, <1>14, <1>15, <1>16, <1>17, <1>18, <1>19, Zenon
  DEF Next, Start, Continue, modify_if, await_modify, await_true, Acquire,
      Release

\* Every step keeps the spin lock exclusive and kWaiting and kOpen exact.
LEMMA LockStep ==
  ASSUME TypeOK, LocalsDefined, Handlers, SpinLockExclusive, FlagsExact,
         [Next]_vars
  PROVE  SpinLockExclusive' /\ FlagsExact'
<1> USE DEF SpinLockExclusive, FlagsExact, HoldsLock
<1>1. ASSUME NEW t \in Threads, Local(t)
      PROVE  SpinLockExclusive' /\ FlagsExact'
  BY <1>1, LocalEffect DEF OnlyMoves, Outside
<1>2. ASSUME NEW t \in Threads, Acquire(t)
      PROVE  SpinLockExclusive' /\ FlagsExact'
  <2>1. /\ \A u \in Threads : pc[u] \notin HoldsLock
        /\ pc'[t] \in HoldsLock
        /\ \A u \in Threads \ {t} : pc'[u] = pc[u]
        /\ spin_state' = spin_state \cup {"kLocked"}
    BY <1>2, AcquireEffect, Zenon DEF OnlyMoves
  <2>2. SpinLockExclusive'
    BY <2>1, Zenon
  <2>3. /\ pc'[t] \notin {"wait_push", "wait_unlock"}
        /\ pc'[t] = "wait_recheck" => "kOpen" \in spin_state
        /\ UNCHANGED observers
    BY <1>2, AcquireEffect, Zenon
  <2> QED BY <2>1, <2>2, <2>3, Zenon
<1>3. ASSUME NEW t \in Threads, Release(t)
      PROVE  SpinLockExclusive' /\ FlagsExact'
  BY <1>3, ReleaseEffect DEF OnlyMoves
<1>4. ASSUME NEW t \in Threads, WaitRecheck(t)
      PROVE  SpinLockExclusive' /\ FlagsExact'
  BY <1>4, RecheckEffect DEF OnlyMoves
<1>5. ASSUME NEW t \in Threads, WaitPush(t)
      PROVE  SpinLockExclusive' /\ FlagsExact'
  <2>1. observers' # <<>>
    <3>1. observers' = Append(observers, t) /\ observers \in Seq(Threads)
      BY <1>5, PushEffect, Zenon DEF TypeOK
    <3> QED BY <3>1
  <2> QED BY <1>5, <2>1, PushEffect DEF OnlyMoves
<1>6. ASSUME NEW t \in Threads, Take(t)
      PROVE  SpinLockExclusive' /\ FlagsExact'
  <2>1. /\ \A u \in Threads \ {t} : pc'[u] \notin HoldsLock
        /\ pc'[t] = "invoke"
        /\ "kLocked" \notin spin_state' /\ "kWaiting" \notin spin_state'
        /\ observers' = <<>>
    BY <1>6, TakeEffect, Zenon DEF OnlyMoves
  <2> QED BY <2>1, Zenon
<1>7. ASSUME NEW t \in Threads, Invoke(t)
      PROVE  SpinLockExclusive' /\ FlagsExact'
  <2>1. CASE local_observers[t] = <<>>
    <3>1. /\ pc[t] = "invoke" /\ pc'[t] = "returned"
          /\ \A u \in Threads \ {t} : pc'[u] = pc[u]
          /\ UNCHANGED <<spin_state, observers>>
      BY <1>7, <2>1, InvokeEffect, Zenon DEF OnlyMoves
    <3> QED BY <3>1, Zenon
  <2>2. CASE local_observers[t] # <<>>
    <3> DEFINE w == Head(local_observers[t])
    <3>1. /\ w \in Threads
          /\ pc'[w] \in {"returned", "modify", "test"}
          /\ OnlyMoves(w)
          /\ UNCHANGED <<spin_state, observers>>
      BY <1>7, <2>2, InvokeEffect, Zenon
    <3>2. pc[w] = "blocked"
      <4>1. local_observers[t] \in Seq(Threads)
        BY Zenon DEF TypeOK
      <4>2. w = local_observers[t][1] /\ 1 \in 1..Len(local_observers[t])
        BY <2>2, <4>1
      <4> QED BY <4>2, Zenon DEF Handlers, HandlersBlocked
    <3> QED BY <3>1, <3>2, Zenon DEF OnlyMoves
  <2> QED BY <2>1, <2>2, Zenon
<1>8. CASE UNCHANGED vars
  <2>1. pc' = pc /\ spin_state' = spin_state /\ observers' = observers
    BY <1>8, Zenon DEF vars
  <2> QED BY <2>1, Zenon
<1> QED BY <1>1, <1>2, <1>3, <1>4, <1>5, <1>6, <1>7, <1>8, StepKinds, Zenon

\* Every step keeps the promise that a changed value will be announced: a
\* change is followed by notify, and notify skips the spin lock only when no
\* waiter is attached or attaching.
LEMMA WakeStep ==
  ASSUME TypeOK, LocalsDefined, Handlers, SpinLockExclusive,
         FlagsExact, NoLostWakeup, [Next]_vars
  PROVE  NoLostWakeup'
<1> DEFINE Listed(w) == \E i \in 1..Len(observers) : observers[i] = w
           Notifying == {"notify", "notify_lock", "notify_take"}
\* Nobody is attached to a watch whose word shows neither bit.
<1>1. SkipsLock(spin_state) => Attached = {}
  <2> SUFFICES ASSUME SkipsLock(spin_state) PROVE Attached = {}
    BY Zenon
  <2>1. observers = <<>>
    BY Zenon DEF SkipsLock, FlagsExact
  <2>2. \A w \in Threads : pc[w] # "wait_push"
    BY Zenon DEF SkipsLock, SpinLockExclusive, HoldsLock
  <2>3. 1..Len(observers) = {}
    BY <2>1
  <2> QED BY <2>2, <2>3, Zenon DEF Attached
\* A step that attaches nobody, leaves the value and what the waiters have
\* seen alone, and silences nobody.
<1>2. ASSUME NEW t \in Threads, OnlyMoves(t), UNCHANGED <<value, observers>>,
             pc'[t] # "wait_push" \/ value = last_seen'[t],
             ~ Listed(t) \/ last_seen'[t] = last_seen[t],
             pc[t] \in Notifying => pc'[t] \in Notifying
      PROVE  NoLostWakeup'
  <2> SUFFICES ASSUME NEW w \in Attached', value' # last_seen'[w]
               PROVE  Announcing' # {}
    BY Zenon DEF NoLostWakeup
  <2>1. w \in Attached /\ value # last_seen[w]
    BY <1>2, Zenon DEF Attached, OnlyMoves
  <2>2. PICK u \in Threads : pc[u] \in Notifying
    BY <2>1, Zenon DEF NoLostWakeup, Announcing
  <2>3. pc'[u] \in Notifying
    BY <1>2, <2>2, Zenon DEF OnlyMoves
  <2> QED BY <2>3, Zenon DEF Announcing
<1>3. \A w \in Threads : Listed(w) => pc[w] = "blocked"
  BY Zenon DEF Handlers, HandlersBlocked
<1>4. ASSUME NEW t \in Threads, Local(t)
      PROVE  NoLostWakeup'
  <2>1. CASE value' # value
    <3>1. pc'[t] = "notify"
      BY <1>4, <2>1, LocalEffect, Zenon
    <3> QED BY <3>1, Zenon DEF NoLostWakeup, Announcing
  <2>2. CASE /\ value' = value
             /\ pc[t] \in Notifying => pc'[t] \in Notifying
    <3>1. /\ OnlyMoves(t) /\ UNCHANGED observers
          /\ pc[t] \in Outside /\ pc'[t] \in Outside
      BY <1>4, LocalEffect, Zenon
    <3>2. pc[t] # "blocked" /\ pc'[t] # "wait_push"
      BY <3>1, Zenon DEF Outside, HoldsLock
    <3> QED BY <1>2, <1>3, <2>2, <3>1, <3>2, Zenon
  <2>3. CASE SkipsLock(spin_state) /\ value' = value
    <3>1. /\ OnlyMoves(t) /\ UNCHANGED observers
          /\ pc'[t] \in Outside
      BY <1>4, LocalEffect, Zenon
    <3>2. pc'[t] # "wait_push"
      BY <3>1, Zenon DEF Outside, HoldsLock
    <3>3. Attached' = {}
      BY <1>1, <2>3, <3>1, <3>2 DEF Attached, OnlyMoves
    <3> QED BY <3>3, Zenon DEF NoLostWakeup
  <2>4. pc[t] \in Notifying => pc'[t] \in Notifying \/ SkipsLock(spin_state)
    BY <1>4, LocalEffect, Zenon
  <2> QED BY <2>1, <2>2, <2>3, <2>4, Zenon
<1>5. ASSUME NEW t \in Threads, Acquire(t)
      PROVE  NoLostWakeup'
  <2>1. /\ OnlyMoves(t) /\ UNCHANGED <<value, observers, last_seen>>
        /\ pc'[t] # "wait_push"
        /\ pc[t] \in Notifying => pc'[t] \in Notifying
    BY <1>5, AcquireEffect, Zenon
  <2> QED BY <1>2, <2>1, Zenon
<1>6. ASSUME NEW t \in Threads, Release(t)
      PROVE  NoLostWakeup'
  <2>1. /\ OnlyMoves(t) /\ UNCHANGED <<value, observers, last_seen>>
        /\ pc'[t] # "wait_push" /\ pc[t] \notin Notifying
    BY <1>6, ReleaseEffect, Zenon
  <2> QED BY <1>2, <2>1, Zenon
<1>7. ASSUME NEW t \in Threads, WaitRecheck(t)
      PROVE  NoLostWakeup'
  <2>1. /\ OnlyMoves(t) /\ UNCHANGED <<value, observers, last_seen>>
        /\ pc'[t] = "wait_push" => value = last_seen[t]
        /\ pc[t] \notin Notifying
    BY <1>7, RecheckEffect, Zenon
  <2> QED BY <1>2, <2>1, Zenon
\* The waiter that pushes its handler was attaching already.
<1>8. ASSUME NEW t \in Threads, WaitPush(t)
      PROVE  NoLostWakeup'
  <2>1. /\ pc[t] = "wait_push" /\ OnlyMoves(t)
        /\ UNCHANGED <<value, last_seen>>
        /\ pc'[t] = "blocked"
    BY <1>8, PushEffect, Zenon
  <2>2. observers' = Append(observers, t) /\ observers \in Seq(Threads)
    BY <1>8, PushEffect, Zenon DEF TypeOK
  <2>3. ASSUME NEW i \in 1..Len(observers')
        PROVE  observers'[i] = t \/ Listed(observers'[i])
    BY <2>2
  <2>4. Attached' \subseteq Attached
    <3> SUFFICES ASSUME NEW w \in Attached' PROVE w \in Attached
      BY Zenon
    <3>1. CASE pc'[w] = "wait_push"
      <4>1. pc[w] = "wait_push"
        BY <2>1, <3>1, Zenon DEF OnlyMoves, Attached
      <4> QED BY <4>1, Zenon DEF Attached
    <3>2. CASE w = t \/ Listed(w)
      BY <2>1, <3>2, Zenon DEF Attached
    <3> QED BY <2>3, <3>1, <3>2, Zenon DEF Attached
  <2>5. Announcing \subseteq Announcing'
    BY <2>1, Zenon DEF Announcing, OnlyMoves
  <2> QED BY <2>1, <2>4, <2>5, Zenon DEF NoLostWakeup
\* Whoever takes the handlers leaves nobody attached: the lock excludes the
\* waiters that are about to push.
<1>9. ASSUME NEW t \in Threads, Take(t)
      PROVE  NoLostWakeup'
  <2>1. /\ pc[t] \in HoldsLock /\ pc'[t] = "invoke" /\ OnlyMoves(t)
        /\ observers' = <<>>
    BY <1>9, TakeEffect, Zenon DEF HoldsLock
  <2>2. \A w \in Threads : pc'[w] # "wait_push"
    BY <2>1, Zenon DEF SpinLockExclusive, HoldsLock, OnlyMoves
  <2>3. 1..Len(observers') = {}
    BY <2>1
  <2>4. Attached' = {}
    BY <2>2, <2>3, Zenon DEF Attached
  <2> QED BY <2>4, Zenon DEF NoLostWakeup
<1>10. ASSUME NEW t \in Threads, Invoke(t)
       PROVE  NoLostWakeup'
  <2>1. CASE local_observers[t] = <<>>
    <3>1. /\ pc[t] = "invoke" /\ pc'[t] = "returned" /\ OnlyMoves(t)
          /\ UNCHANGED <<value, observers, last_seen>>
      BY <1>10, <2>1, InvokeEffect, Zenon
    <3> QED BY <1>2, <3>1, Zenon
  <2>2. CASE local_observers[t] # <<>>
    <3> DEFINE w == Head(local_observers[t])
    <3>1. /\ w \in Threads /\ OnlyMoves(w)
          /\ pc'[w] \in {"returned", "modify", "test"}
          /\ UNCHANGED <<value, observers, last_seen>>
      BY <1>10, <2>2, InvokeEffect, Zenon
    <3>2. pc[w] = "blocked"
      <4>1. local_observers[t] \in Seq(Threads)
        BY Zenon DEF TypeOK
      <4>2. w = local_observers[t][1] /\ 1 \in 1..Len(local_observers[t])
        BY <2>2, <4>1
      <4> QED BY <4>2, Zenon DEF Handlers, HandlersBlocked
    <3> QED BY <1>2, <3>1, <3>2, Zenon
  <2> QED BY <2>1, <2>2, Zenon
<1>11. CASE UNCHANGED vars
  <2>1. /\ pc' = pc /\ value' = value /\ last_seen' = last_seen
        /\ observers' = observers
    BY <1>11, Zenon DEF vars
  <2>2. Attached' = Attached /\ Announcing' = Announcing
    BY <2>1, Zenon DEF Attached, Announcing
  <2> QED BY <2>1, <2>2, Zenon DEF NoLostWakeup
<1> QED
  BY <1>4, <1>5, <1>6, <1>7, <1>8, <1>9, <1>10, <1>11, StepKinds, Zenon

\* A waiter stays in the lists, with the value it has seen, until its handler
\* is invoked.
LEMMA ListedStep ==
  ASSUME TypeOK, LocalsDefined, Handlers, WaitersListed, [Next]_vars
  PROVE  WaitersListed'
<1> DEFINE Listed(w) == \E i \in 1..Len(observers) : observers[i] = w
<1> USE DEF WaitersListed
\* A step that leaves the lists alone and lets nobody block.
<1>1. ASSUME NEW t \in Threads, OnlyMoves(t), UNCHANGED <<observers, local_observers>>,
             pc'[t] # "blocked", pc'[t] = "wait_push" => last_seen'[t] \in Values
      PROVE  WaitersListed'
  BY <1>1 DEF OnlyMoves, HasTaken
<1>2. ASSUME NEW t \in Threads, Local(t) \/ Acquire(t) \/ Release(t)
      PROVE  WaitersListed'
  <2>1. /\ OnlyMoves(t) /\ UNCHANGED <<observers, local_observers>>
        /\ pc'[t] \notin {"blocked", "wait_push"}
    BY <1>2, LocalEffect, AcquireEffect, ReleaseEffect, Zenon DEF Outside, HoldsLock
  <2> QED BY <1>1, <2>1, Zenon
<1>3. ASSUME NEW t \in Threads, WaitRecheck(t)
      PROVE  WaitersListed'
  <2>1. /\ OnlyMoves(t) /\ UNCHANGED <<observers, local_observers>>
        /\ pc'[t] # "blocked" /\ (pc'[t] = "wait_push" => last_seen'[t] \in Values)
    BY <1>3, RecheckEffect, Zenon DEF TypeOK
  <2> QED BY <1>1, <2>1, Zenon
<1>4. ASSUME NEW t \in Threads, WaitPush(t)
      PROVE  WaitersListed'
  <2>1. /\ pc[t] = "wait_push" /\ OnlyMoves(t)
        /\ UNCHANGED <<local_observers, last_seen>>
        /\ observers' = Append(observers, t) /\ observers \in Seq(Threads)
    BY <1>4, PushEffect, Zenon DEF TypeOK
  <2>2. /\ \E i \in 1..Len(observers') : observers'[i] = t
        /\ \A w : Listed(w) => \E i \in 1..Len(observers') : observers'[i] = w
    BY <2>1
  <2> QED BY <2>1, <2>2 DEF OnlyMoves, HasTaken
<1>5. ASSUME NEW t \in Threads, Take(t)
      PROVE  WaitersListed'
  <2>1. /\ pc[t] \notin {"blocked", "invoke"} /\ pc'[t] = "invoke" /\ OnlyMoves(t)
        /\ UNCHANGED last_seen
        /\ local_observers' = [local_observers EXCEPT ![t] = observers]
    BY <1>5, TakeEffect, Zenon
  <2>2. local_observers[t] = <<>>
    BY <2>1, Zenon DEF Handlers, HandlersHeld
  <2>3. ASSUME NEW u \in Threads, NEW w, HasTaken(u, w)
        PROVE  HasTaken(u, w)'
    <3>1. u # t
      BY <2>2, <2>3 DEF HasTaken
    <3> QED BY <2>1, <2>3, <3>1, Zenon DEF HasTaken, TypeOK
  <2>4. \A w : Listed(w) => HasTaken(t, w)'
    BY <2>1, Zenon DEF HasTaken, TypeOK
  <2> QED BY <2>1, <2>3, <2>4, Zenon DEF OnlyMoves
<1>6. ASSUME NEW t \in Threads, Invoke(t)
      PROVE  WaitersListed'
  <2>1. CASE local_observers[t] = <<>>
    <3>1. /\ pc'[t] = "returned" /\ OnlyMoves(t)
          /\ UNCHANGED <<observers, local_observers>>
      BY <1>6, <2>1, InvokeEffect, Zenon
    <3> QED BY <1>1, <3>1, Zenon
  <2>2. CASE local_observers[t] # <<>>
    <3> DEFINE list == local_observers[t]
               w == Head(list)
    <3>1. /\ list \in Seq(Threads) /\ list # <<>>
          /\ w \in Threads /\ OnlyMoves(w)
          /\ pc'[w] \in {"returned", "modify", "test"}
          /\ UNCHANGED <<observers, last_seen>>
          /\ local_observers' = [local_observers EXCEPT ![t] = Tail(list)]
      BY <1>6, <2>2, InvokeEffect, Zenon DEF TypeOK
    <3>2. \A i \in 1..Len(list) :
            list[i] = w \/ (i - 1 \in 1..Len(Tail(list)) /\ Tail(list)[i - 1] = list[i])
      <4>1. /\ w = list[1] /\ Len(list) \in Nat
            /\ Len(Tail(list)) = Len(list) - 1
            /\ \A i \in 1..Len(Tail(list)) : Tail(list)[i] = list[i + 1]
        BY <3>1
      <4> HIDE DEF list, w
      <4> QED BY <4>1
    <3>3. ASSUME NEW u \in Threads, NEW x, x # w, HasTaken(u, x)
          PROVE  HasTaken(u, x)'
      <4>1. CASE u = t
        <5>1. \E j \in 1..Len(Tail(list)) : Tail(list)[j] = x
          BY <3>2, <3>3, <4>1 DEF HasTaken
        <5>2. local_observers'[t] = Tail(list)
          BY <3>1, Zenon DEF TypeOK
        <5> QED BY <4>1, <5>1, <5>2, Zenon DEF HasTaken
      <4>2. CASE u # t
        BY <3>1, <3>3, <4>2, Zenon DEF HasTaken, TypeOK
      <4> QED BY <4>1, <4>2, Zenon
    <3> QED BY <3>1, <3>3, Zenon DEF OnlyMoves
  <2> QED BY <2>1, <2>2, Zenon
<1>7. CASE UNCHANGED vars
  BY <1>7 DEF vars, HasTaken
<1> QED BY <1>2, <1>3, <1>4, <1>5, <1>6, <1>7, StepKinds, Zenon

\* What a step leaves in got and arg.
LEMMA ResultEffect ==
  ASSUME TypeOK, LocalsDefined, NEW t \in Threads, Local(t) \/ WaitRecheck(t)
  PROVE  /\ got' = got \/ (/\ \A u \in Threads \ {t} : got'[u] = got[u]
                           /\ got'[t] \notin StatusCodes)
         /\ \A u \in Threads \ {t} : arg'[u] = arg[u]
         /\ pc'[t] = "notify" => pc[t] # "notify" /\ arg'[t] = value'
         /\ pc[t] = "notify" => UNCHANGED <<value, arg>>
         /\ pc'[t] = "notify_lock" => pc[t] = "notify"
<1> USE WatchConstants DEF TypeOK
<1>1. ASSUME NEW f \in Transforms, ReadModifyWrite(t, f)
      PROVE  /\ got' = got /\ pc[t] = "idle" /\ pc'[t] \in {"notify", "returned"}
             /\ arg' = [arg EXCEPT ![t] = value']
  BY <1>1, Zenon DEF ReadModifyWrite, NotifyIf, Goto
<1>2. ASSUME NEW f \in PartialTransforms,
             NEW c \in {"modify_if", "await_modify", "await_true"},
             NEW l \in {"modify", "test"}, StartLoop(t, c, f, l)
      PROVE  UNCHANGED <<got, arg>> /\ pc[t] = "idle" /\ pc'[t] \in {"modify", "test"}
  BY <1>2, Zenon DEF StartLoop, Goto
<1>3. ASSUME NEW v \in Values, await_not_equal(t, v)
      PROVE  UNCHANGED <<got, arg>> /\ pc[t] = "idle" /\ pc'[t] = "wait_load"
  BY <1>3, Zenon DEF await_not_equal, Goto
<1>4. ASSUME NEW code \in CloseCodes, close(t, code)
      PROVE  /\ got' = got /\ arg' = [arg EXCEPT ![t] = code]
             /\ pc[t] = "idle" /\ pc'[t] = "close_lock"
  BY <1>4, Zenon DEF close, Goto
<1>5. ASSUME Return(t)
      PROVE  /\ got' = [got EXCEPT ![t] = None] /\ arg' = [arg EXCEPT ![t] = None]
             /\ pc[t] = "returned" /\ pc'[t] = "idle"
  BY <1>5, Zenon DEF Return, Goto
<1>6. ASSUME ModifyIteration(t)
      PROVE  /\ got' = got /\ pc[t] = "modify"
             /\ \/ /\ pc'[t] \in {"notify", "returned"}
                   /\ arg' = [arg EXCEPT ![t] = value']
                \/ pc'[t] = "modify" /\ arg' = arg
  <2>1. CASE value = old_value[t]
    BY <1>6, <2>1 DEF ModifyIteration, NotifyIf, Goto
  <2>2. CASE value # old_value[t]
    BY <1>6, <2>2, Zenon DEF ModifyIteration
  <2> QED BY <2>1, <2>2, Zenon
<1>7. ASSUME ModifyNone(t)
      PROVE  /\ UNCHANGED <<got, arg>>
             /\ pc[t] = "modify" /\ pc'[t] \in {"returned", "wait_load"}
  BY <1>7 DEF ModifyNone, Goto
<1>8. ASSUME AwaitTrueTest(t)
      PROVE  /\ got' \in {got, [got EXCEPT ![t] = old_value[t]]} /\ arg' = arg
             /\ old_value[t] \in Values
             /\ pc[t] = "test" /\ pc'[t] \in {"returned", "wait_load"}
  BY <1>8 DEF AwaitTrueTest, Goto, LocalsDefined
<1>9. ASSUME WaitLoad(t)
      PROVE  /\ got' \in {got, [got EXCEPT ![t] = value]} /\ arg' = arg
             /\ pc[t] = "wait_load"
             /\ pc'[t] \in {"returned", "modify", "test", "wait_lock"}
  BY <1>9 DEF WaitLoad, Resume, Resumed, Goto
<1>10. ASSUME NotifyLoad(t)
       PROVE  /\ UNCHANGED <<value, got, arg>>
              /\ pc[t] = "notify" /\ pc'[t] \in {"returned", "notify_lock"}
  BY <1>10, Zenon DEF NotifyLoad, Goto, shared
<1>11. ASSUME WaitRecheck(t)
       PROVE  /\ got' = got /\ arg' \in {arg, [arg EXCEPT ![t] = value]}
              /\ pc[t] = "wait_recheck" /\ pc'[t] \in {"wait_push", "wait_unlock"}
  BY <1>11 DEF WaitRecheck, Goto
<1>12. CASE \E f \in Transforms : ReadModifyWrite(t, f)
  BY <1>1, <1>12
<1>13. CASE \E f \in PartialTransforms :
              modify_if(t, f) \/ await_modify(t, f) \/ await_true(t, f)
  BY <1>2, <1>13, Zenon DEF modify_if, await_modify, await_true
<1>14. CASE \E v \in Values : await_not_equal(t, v)
  BY <1>3, <1>14, Zenon
<1>15. CASE \E code \in CloseCodes : close(t, code)
  BY <1>4, <1>15
<1>16. CASE Return(t)
  BY <1>5, <1>16
<1>17. CASE ModifyIteration(t)
  BY <1>6, <1>17
<1>18. CASE ModifyNone(t)
  BY <1>7, <1>18, Zenon
<1>19. CASE AwaitTrueTest(t)
  BY <1>8, <1>19, SMTT(30)
<1>20. CASE WaitLoad(t)
  BY <1>9, <1>20
<1>21. CASE NotifyLoad(t)
  BY <1>10, <1>21, Zenon
<1>22. CASE WaitRecheck(t)
  BY <1>11, <1>22
<1> HIDE DEF TypeOK
<1> QED
  BY <1>12, <1>13, <1>14, <1>15, <1>16, <1>17, <1>18, <1>19, <1>20, <1>21, <1>22, Zenon
  DEF Local, Start

\* A watch once closed keeps its final status, and nobody is told another.
LEMMA FinalStep ==
  ASSUME TypeOK, LocalsDefined, OneFinalStatus, [Next]_vars
  PROVE  OneFinalStatus'
\* The other bits of the word do not matter.
<1>1. ASSUME NEW s, NEW r, "kOpen" \in s <=> "kOpen" \in r,
             "kClosedAtEnd" \in s <=> "kClosedAtEnd" \in r,
             "kClosedBeforeEnd" \in s <=> "kClosedBeforeEnd" \in r
      PROVE  FinalStatus(s) = FinalStatus(r)
  BY <1>1, Zenon DEF FinalStatus
<1>2. ASSUME NEW r, IsFinalStatus(r),
             spin_state' \in {spin_state, spin_state \cup {"kLocked"},
                              spin_state \ {"kLocked"},
                              (spin_state \cup {"kWaiting"}) \ {"kLocked"},
                              (spin_state \ {"kWaiting"}) \ {"kLocked"}}
      PROVE  IsFinalStatus(r)'
  BY <1>1, <1>2, Zenon DEF IsFinalStatus
<1>3. ASSUME NEW t \in Threads, Local(t) \/ WaitRecheck(t)
      PROVE  OneFinalStatus'
  <2>1. /\ UNCHANGED spin_state /\ OnlyMoves(t)
        /\ pc'[t] \notin {"invoke", "wait_closed"}
    BY <1>3, LocalEffect, RecheckEffect, Zenon DEF Outside, HoldsLock
  <2>2. /\ got' = got \/ (/\ \A u \in Threads \ {t} : got'[u] = got[u]
                          /\ got'[t] \notin StatusCodes)
        /\ \A u \in Threads \ {t} : arg'[u] = arg[u]
    BY <1>3, ResultEffect, Zenon
  <2> QED BY <2>1, <2>2 DEF OneFinalStatus, IsFinalStatus, OnlyMoves
<1>4. ASSUME NEW t \in Threads, Acquire(t)
      PROVE  OneFinalStatus'
  <2>1. /\ UNCHANGED <<got, arg>> /\ spin_state' = spin_state \cup {"kLocked"}
        /\ pc'[t] = "wait_closed" => "kOpen" \notin spin_state
        /\ pc'[t] # "invoke" /\ OnlyMoves(t)
    BY <1>4, Zenon DEF Acquire, WaitLock, NotifyLock, CloseLock, LockObservers, Goto,
                OnlyMoves, TypeOK
  <2> QED BY <1>2, <2>1, Zenon DEF OneFinalStatus, OnlyMoves
<1>5. ASSUME NEW t \in Threads, Release(t)
      PROVE  OneFinalStatus'
  <2>1. /\ spin_state' = spin_state \ {"kLocked"} /\ OnlyMoves(t)
        /\ pc'[t] \notin {"invoke", "wait_closed"}
    BY <1>5, ReleaseEffect, Zenon
  <2>2. PICK r : /\ got' \in {got, [got EXCEPT ![t] = r]}
                 /\ r \in Values \/ IsFinalStatus(r)
    <3>1. CASE WaitClosed(t)
      <4>1. IsFinalStatus(FinalStatus(spin_state))
        BY <3>1, Zenon DEF WaitClosed, OneFinalStatus, IsFinalStatus
      <4> QED BY <3>1, <4>1 DEF WaitClosed, Resume
    <3>2. CASE WaitUnlock(t)
      BY <3>2 DEF WaitUnlock, Resume, LocalsDefined
    <3> QED BY <1>5, <3>1, <3>2, Zenon DEF Release
  <2>3. UNCHANGED arg
    BY <1>5, ZenonT(30) DEF Release, WaitClosed, WaitUnlock
  <2>4. \A u \in Threads : got'[u] \in StatusCodes => IsFinalStatus(got'[u])
    BY <2>2, WatchConstants DEF TypeOK, OneFinalStatus
  <2> QED BY <1>2, <2>1, <2>3, <2>4, Zenon DEF OneFinalStatus, OnlyMoves
<1>6. ASSUME NEW t \in Threads, WaitPush(t)
      PROVE  OneFinalStatus'
  <2>1. /\ spin_state' = (spin_state \cup {"kWaiting"}) \ {"kLocked"}
        /\ pc'[t] = "blocked" /\ OnlyMoves(t)
    BY <1>6, PushEffect, Zenon
  <2>2. UNCHANGED <<got, arg>>
    BY <1>6, Zenon DEF WaitPush
  <2> QED BY <1>2, <2>1, <2>2, Zenon DEF OneFinalStatus, OnlyMoves
<1>7. ASSUME NEW t \in Threads, NotifyTake(t)
      PROVE  OneFinalStatus'
  <2>1. /\ spin_state' = (spin_state \ {"kWaiting"}) \ {"kLocked"}
        /\ UNCHANGED <<got, arg>> /\ pc[t] = "notify_take"
    BY <1>7, Zenon DEF NotifyTake, TakeObservers, UnlockObservers
  <2>2. pc'[t] = "invoke" /\ OnlyMoves(t)
    BY <1>7, TakeEffect, Zenon DEF Take
  <2>3. arg[t] \notin StatusCodes
    BY <2>1, WatchConstants, Zenon DEF LocalsDefined
  <2> QED BY <1>2, <2>1, <2>2, <2>3, Zenon DEF OneFinalStatus, OnlyMoves
<1>8. ASSUME NEW t \in Threads, CloseTake(t)
      PROVE  OneFinalStatus'
  <2>1. /\ spin_state' = ((spin_state \ {"kOpen", "kWaiting"})
                            \cup CloseBit(spin_state, arg[t])) \ {"kLocked"}
        /\ arg' = [arg EXCEPT ![t] = FinalStatus(spin_state')]
        /\ UNCHANGED got
    BY <1>8, Zenon DEF CloseTake, TakeObservers, UnlockObservers
  <2>2. pc'[t] = "invoke" /\ OnlyMoves(t)
    BY <1>8, TakeEffect, Zenon DEF Take
  <2>3. "kOpen" \notin spin_state'
    BY <2>1, Zenon DEF CloseBit
  <2>4. ASSUME NEW r, IsFinalStatus(r)
        PROVE  IsFinalStatus(r)'
    <3>1. CloseBit(spin_state, arg[t]) = {}
      BY <2>4, Zenon DEF IsFinalStatus, CloseBit
    <3>2. FinalStatus(spin_state') = FinalStatus(spin_state)
      BY <2>1, <3>1, Zenon DEF FinalStatus
    <3> QED BY <2>3, <2>4, <3>2, Zenon DEF IsFinalStatus
  <2>5. IsFinalStatus(arg[t])'
    BY <2>1, <2>3, Zenon DEF IsFinalStatus, TypeOK
  <2>6. \A u \in Threads \ {t} : arg'[u] = arg[u]
    BY <2>1, Zenon DEF TypeOK
  <2> QED BY <2>1, <2>2, <2>3, <2>4, <2>5, <2>6, Zenon DEF OneFinalStatus, OnlyMoves
<1>9. ASSUME NEW t \in Threads, Invoke(t)
      PROVE  OneFinalStatus'
  <2>1. /\ UNCHANGED <<spin_state, arg>> /\ pc[t] = "invoke"
    BY <1>9, Zenon DEF Invoke, shared
  <2>2. PICK w \in Threads : /\ got' \in {got, [got EXCEPT ![w] = arg[t]]}
                             /\ OnlyMoves(w)
                             /\ pc'[w] \notin {"invoke", "wait_closed"}
    <3>1. CASE local_observers[t] = <<>>
      BY <1>9, <3>1, InvokeEffect, Zenon DEF Invoke, MoreHandlers
    <3>2. CASE local_observers[t] # <<>>
      BY <1>9, <3>2, InvokeEffect, Zenon DEF Invoke, MoreHandlers, Resume
    <3> QED BY <3>1, <3>2, Zenon
  <2>3. \A u \in Threads : got'[u] \in StatusCodes => IsFinalStatus(got'[u])
    BY <2>1, <2>2, Zenon DEF TypeOK, OneFinalStatus
  <2> QED BY <1>2, <2>1, <2>2, <2>3, Zenon DEF OneFinalStatus, OnlyMoves
<1>10. CASE UNCHANGED vars
  BY <1>10, Zenon DEF vars, OneFinalStatus, IsFinalStatus
<1> QED
  BY <1>3, <1>4, <1>5, <1>6, <1>7, <1>8, <1>9, <1>10, StepKinds, Zenon DEF Take

\* The invariant holds when the watch is constructed: nobody is in a call.
LEMMA InitInv == Init => WatchInv
<1> SUFFICES ASSUME Init PROVE WatchInv
  BY Zenon
<1>1. TypeOK
  BY WatchConstants DEF Init, TypeOK, Bits, Labels, Calls
<1>2. LocalsDefined
  BY Zenon DEF Init, LocalsDefined
<1>3. HandlersBlocked /\ HandlersDistinct /\ HandlersHeld
  BY DEF Init, HandlersBlocked, HandlersDistinct, HandlersHeld
<1>4. SpinLockExclusive /\ FlagsExact
  BY Zenon DEF Init, SpinLockExclusive, FlagsExact, HoldsLock
<1>5. NoLostWakeup
  BY DEF Init, NoLostWakeup, Attached
<1>6. WaitersListed /\ OneFinalStatus
  BY WatchConstants, Zenon DEF Init, WaitersListed, OneFinalStatus
<1> QED BY <1>1, <1>2, <1>3, <1>4, <1>5, <1>6, Zenon DEF WatchInv

\* The inductive invariant of the watch.
THEOREM Invariance == Spec => []WatchInv
<1>1. WatchInv /\ [Next]_vars => WatchInv'
  <2> SUFFICES ASSUME WatchInv, [Next]_vars PROVE WatchInv'
    BY Zenon
  <2> USE DEF WatchInv, Handlers
  <2>1. TypeOK'
    BY TypeStep, Zenon
  <2>2. LocalsDefined'
    BY LocalsStep, Zenon
  <2>3. Handlers'
    BY HandlersStep, Zenon
  <2>4. SpinLockExclusive' /\ FlagsExact'
    BY LockStep, Zenon
  <2>5. NoLostWakeup'
    BY WakeStep, Zenon
  <2>6. WaitersListed'
    BY ListedStep, Zenon
  <2>7. OneFinalStatus'
    BY FinalStep, Zenon
  <2> QED BY <2>1, <2>2, <2>3, <2>4, <2>5, <2>6, <2>7, Zenon
<1> QED BY <1>1, InitInv, PTL DEF Spec

\* Type correctness of the watch.
THEOREM TypeCorrect == Spec => []TypeOK
<1>1. WatchInv => TypeOK
  BY Zenon DEF WatchInv
<1> QED BY <1>1, Invariance, PTL

\* The spin lock of the watch excludes: at most one thread is between
\* lock_observers and unlock_observers, for any number of threads.
THEOREM SpinLockSafe == Spec => []SpinLockExclusive
<1>1. WatchInv => SpinLockExclusive
  BY Zenon DEF WatchInv
<1> QED BY <1>1, Invariance, PTL

\* What the shortcut of notify relies on: a free spin lock without kWaiting
\* means that nobody is attached.
THEOREM FlagsSafe == Spec => []ObserversFlagged
<1>1. WatchInv => ObserversFlagged
  BY Zenon DEF WatchInv, FlagsExact, ObserversFlagged
<1> QED BY <1>1, Invariance, PTL

\* No lost wakeup: while a waiter is attached to a watch whose value has
\* moved on, a thread is on its way to wake it.
THEOREM WakeupSafe == Spec => []NoLostWakeup
<1>1. WatchInv => NoLostWakeup
  BY Zenon DEF WatchInv
<1> QED BY <1>1, Invariance, PTL

-----------------------------------------------------------------------------
(* The refinement of WatchSpec, without its fairness: which part of the    *)
(* abstract watch a step leaves alone, and which it changes.               *)

\* A waiter whose handler t has taken is woken with what t says, and nobody
\* else is woken.
OutcomesTold ==
  /\ \A w, t \in Threads : HasTaken(t, w) => OutcomeBar[w] = arg[t]
  /\ \A w \in Threads : (\A t \in Threads : ~HasTaken(t, w)) => OutcomeBar[w] = None

LEMMA OutcomeIs == HandlersDistinct => OutcomesTold
<1> SUFFICES ASSUME HandlersDistinct PROVE OutcomesTold
  BY Zenon
<1>1. ASSUME NEW w \in Threads, NEW t \in Threads, HasTaken(t, w)
      PROVE  OutcomeBar[w] = arg[t]
  <2>1. \A u \in Threads : HasTaken(u, w) => u = t
    BY <1>1, Zenon DEF HasTaken, HandlersDistinct
  <2>2. IsTaken(w) /\ Taker(w) = t
    BY <1>1, <2>1, Zenon DEF IsTaken, Taker
  <2> QED BY <2>2, Zenon DEF OutcomeBar
<1>2. \A w \in Threads : (\A t \in Threads : ~HasTaken(t, w)) => OutcomeBar[w] = None
  BY Zenon DEF OutcomeBar, IsTaken
<1> QED BY <1>1, <1>2, Zenon DEF OutcomesTold

\* The same of the next state.
LEMMA OutcomeNext == HandlersDistinct' => OutcomesTold'
BY OutcomeIs, PTL

\* Outcomes stay while the taken lists and what their takers say do.
LEMMA OutcomeKept ==
  ASSUME HandlersDistinct, HandlersDistinct',
         \A t, w \in Threads : HasTaken(t, w)' <=> HasTaken(t, w),
         \A t, w \in Threads : HasTaken(t, w) => arg'[t] = arg[t]
  PROVE  OutcomeBar' = OutcomeBar
<1>1. \A w \in Threads : OutcomeBar'[w] = OutcomeBar[w]
  BY OutcomeIs, OutcomeNext DEF OutcomesTold
<1> QED BY <1>1, Zenon DEF OutcomeBar

\* Registrations stay while the same threads are attached.
LEMMA WaitingKept ==
  ASSUME Attached' = Attached,
         \A w \in Attached : last_seen'[w] = last_seen[w]
  PROVE  WaitingBar' = WaitingBar
BY Zenon DEF WaitingBar

\* Notices stay while the same threads have something to announce.
LEMMA NoticeKept ==
  ASSUME Announcing' = Announcing,
         \A t \in Announcing : arg'[t] = arg[t]
  PROVE  NoticeBar' = NoticeBar
BY Zenon DEF NoticeBar

\* The lists and the word of the watch.
LEMMA FinalKept ==
  ASSUME "kOpen" \in spin_state' <=> "kOpen" \in spin_state,
         "kClosedAtEnd" \in spin_state' <=> "kClosedAtEnd" \in spin_state,
         "kClosedBeforeEnd" \in spin_state' <=> "kClosedBeforeEnd" \in spin_state
  PROVE  FinalBar' = FinalBar
BY Zenon DEF FinalBar, FinalStatus

\* The abstract watches.
BarWatch == Abstract!WatchOf(Values, StatusCodes)
BarOK == WatchBar \in BarWatch

LEMMA BarTyped == WatchInv => BarOK
<1> SUFFICES ASSUME WatchInv PROVE BarOK
  BY Zenon
<1>1. FinalBar \in StatusCodes \cup {None}
  BY Zenon DEF FinalBar, FinalStatus, StatusCodes
<1>2. WaitingBar \in [Threads -> Values \cup {None}]
  BY Zenon DEF WaitingBar, WatchInv, TypeOK
<1>3. NoticeBar \in [Threads -> Values \cup {None}]
  BY Zenon DEF NoticeBar, Announcing, WatchInv, LocalsDefined
<1>4. \A w \in Threads : IsTaken(w) => Taker(w) \in Threads
  BY Zenon DEF IsTaken, Taker
<1>5. OutcomeBar \in [Threads -> Values \cup StatusCodes \cup {None}]
  BY <1>4, Zenon DEF OutcomeBar, WatchInv, TypeOK
<1> QED BY <1>1, <1>2, <1>3, <1>5, Zenon
    DEF BarOK, BarWatch, Abstract!WatchOf, WatchBar, WatchInv, TypeOK

LEMMA BarTypedNext == WatchInv' => BarOK'
BY BarTyped, PTL

\* The fields of the abstract watch, in this state and in the next.
LEMMA BarFields ==
  /\ WatchBar.value = value /\ WatchBar.final = FinalBar
  /\ WatchBar.waiting = WaitingBar /\ WatchBar.notice = NoticeBar
  /\ WatchBar.outcome = OutcomeBar
  /\ WatchBar'.value = value' /\ WatchBar'.final = FinalBar'
  /\ WatchBar'.waiting = WaitingBar' /\ WatchBar'.notice = NoticeBar'
  /\ WatchBar'.outcome = OutcomeBar'
BY Zenon DEF WatchBar

\* The next abstract watch is n when its fields are those of n.
LEMMA NextBar ==
  ASSUME WatchInv', NEW n \in BarWatch,
         n.value = value', n.final = FinalBar', n.waiting = WaitingBar',
         n.notice = NoticeBar', n.outcome = OutcomeBar'
  PROVE  WatchBar' = n
<1>1. \A a, b \in BarWatch :
        /\ a.value = b.value /\ a.final = b.final /\ a.waiting = b.waiting
        /\ a.notice = b.notice /\ a.outcome = b.outcome
        => a = b
  BY DEF BarWatch, Abstract!WatchOf
<1>2. WatchBar' \in BarWatch
  BY BarTypedNext, Zenon DEF BarOK
<1> QED BY <1>1, <1>2, BarFields, Zenon

\* A step of the watch is a step of the abstract one, or leaves it alone.
AbstractStep == Abstract!Next \/ UNCHANGED WatchBar

\* The steps of the abstract watch, field by field.
LEMMA ChangeStep ==
  ASSUME WatchInv, WatchInv', NEW t \in Threads, NoticeBar[t] = None,
         NoticeBar' = [NoticeBar EXCEPT ![t] = value'],
         FinalBar' = FinalBar, WaitingBar' = WaitingBar, OutcomeBar' = OutcomeBar
  PROVE  AbstractStep
<1> DEFINE n == [WatchBar EXCEPT !.value = value', !.notice[t] = value']
<1>1. WatchBar \in BarWatch /\ value' \in Values
  BY BarTyped, Zenon DEF BarOK, WatchInv, TypeOK
<1>2. /\ n \in BarWatch
      /\ n.value = value' /\ n.notice = [WatchBar.notice EXCEPT ![t] = value']
      /\ n.final = WatchBar.final /\ n.waiting = WatchBar.waiting
      /\ n.outcome = WatchBar.outcome
  BY <1>1, Zenon DEF BarWatch, Abstract!WatchOf
<1> HIDE DEF n
<1>3. WatchBar' = n
  BY <1>2, BarFields, NextBar, Zenon
<1>4. Abstract!Change(t, value')
  BY <1>3, BarFields, Zenon DEF Abstract!Change, n
<1> QED BY <1>1, <1>4, Zenon DEF AbstractStep, Abstract!Next

LEMMA NotifyStep ==
  ASSUME WatchInv, WatchInv', NEW t \in Threads, NoticeBar[t] # None,
         value' = value, FinalBar' = FinalBar,
         WaitingBar' = [u \in Threads |-> None],
         NoticeBar' = [NoticeBar EXCEPT ![t] = None],
         OutcomeBar' = [u \in Threads |-> IF WaitingBar[u] # None
                                            THEN NoticeBar[t] ELSE OutcomeBar[u]]
  PROVE  AbstractStep
<1> DEFINE n == Abstract!Notified(WatchBar, t)
<1>1. WatchBar \in BarWatch
  BY BarTyped, Zenon DEF BarOK
<1>2. /\ n \in BarWatch
      /\ n.value = WatchBar.value /\ n.final = WatchBar.final
      /\ n.waiting = [u \in Threads |-> None]
      /\ n.notice = [WatchBar.notice EXCEPT ![t] = None]
      /\ n.outcome = [u \in Threads |-> IF WatchBar.waiting[u] # None
                        THEN WatchBar.notice[t] ELSE WatchBar.outcome[u]]
  BY <1>1, Zenon DEF BarWatch, Abstract!WatchOf, Abstract!Notified, Abstract!WokenAll
<1> HIDE DEF n
<1>3. WatchBar' = n
  BY <1>2, BarFields, NextBar, ZenonT(30)
<1>4. Abstract!Notify(t)
  BY <1>3, BarFields, Zenon DEF Abstract!Notify, n
<1> QED BY <1>4, Zenon DEF AbstractStep, Abstract!Next

LEMMA RegisterStep ==
  ASSUME WatchInv, WatchInv', NEW t \in Threads,
         FinalBar = None, WaitingBar[t] = None, OutcomeBar[t] = None,
         value' = value, FinalBar' = FinalBar, NoticeBar' = NoticeBar,
         WaitingBar' = [WaitingBar EXCEPT ![t] = value], OutcomeBar' = OutcomeBar
  PROVE  AbstractStep
<1> DEFINE n == Abstract!Registered(WatchBar, t)
<1>1. WatchBar \in BarWatch
  BY BarTyped, Zenon DEF BarOK
<1>2. /\ n \in BarWatch
      /\ n.value = WatchBar.value /\ n.final = WatchBar.final
      /\ n.waiting = [WatchBar.waiting EXCEPT ![t] = WatchBar.value]
      /\ n.notice = WatchBar.notice /\ n.outcome = WatchBar.outcome
  BY <1>1, Zenon DEF BarWatch, Abstract!WatchOf, Abstract!Registered
<1> HIDE DEF n
<1>3. WatchBar' = n
  BY <1>2, BarFields, NextBar, Zenon
<1>4. Abstract!Register(t)
  BY <1>3, BarFields, Zenon DEF Abstract!Register, n
<1> QED BY <1>4, Zenon DEF AbstractStep, Abstract!Next

LEMMA CloseStep ==
  ASSUME WatchInv, WatchInv', FinalBar = None, FinalBar' \in StatusCodes,
         value' = value, NoticeBar' = NoticeBar,
         WaitingBar' = [u \in Threads |-> None],
         OutcomeBar' = [u \in Threads |-> IF WaitingBar[u] # None
                                            THEN FinalBar' ELSE OutcomeBar[u]]
  PROVE  AbstractStep
<1> DEFINE n == Abstract!Closed(WatchBar, FinalBar')
<1>1. WatchBar \in BarWatch /\ WatchBar.final = None
  BY BarTyped, BarFields, Zenon DEF BarOK
<1>2. /\ n \in BarWatch
      /\ n.value = WatchBar.value /\ n.final = FinalBar'
      /\ n.waiting = [u \in Threads |-> None]
      /\ n.notice = WatchBar.notice
      /\ n.outcome = [u \in Threads |-> IF WatchBar.waiting[u] # None
                        THEN FinalBar' ELSE WatchBar.outcome[u]]
  BY <1>1, Zenon DEF BarWatch, Abstract!WatchOf, Abstract!Closed, Abstract!WokenAll
<1> HIDE DEF n
<1>3. WatchBar' = n
  BY <1>2, BarFields, NextBar, Zenon
<1>4. Abstract!Close(FinalBar')
  BY <1>1, <1>3, Zenon DEF Abstract!Close, n
<1> QED BY <1>4, Zenon DEF AbstractStep, Abstract!Next, StatusCodes

LEMMA HandleStep ==
  ASSUME WatchInv, WatchInv', NEW w \in Threads, OutcomeBar[w] # None,
         value' = value, FinalBar' = FinalBar, NoticeBar' = NoticeBar,
         WaitingBar' = WaitingBar, OutcomeBar' = [OutcomeBar EXCEPT ![w] = None]
  PROVE  AbstractStep
<1> DEFINE n == Abstract!Handled(WatchBar, w)
<1>1. WatchBar \in BarWatch
  BY BarTyped, Zenon DEF BarOK
<1>2. /\ n \in BarWatch
      /\ n.value = WatchBar.value /\ n.final = WatchBar.final
      /\ n.waiting = WatchBar.waiting /\ n.notice = WatchBar.notice
      /\ n.outcome = [WatchBar.outcome EXCEPT ![w] = None]
  BY <1>1, Zenon DEF BarWatch, Abstract!WatchOf, Abstract!Handled
<1> HIDE DEF n
<1>3. WatchBar' = n
  BY <1>2, BarFields, NextBar, ZenonT(30)
<1>4. Abstract!Handle(w)
  BY <1>3, BarFields, Zenon DEF Abstract!Handle, n
<1> QED BY <1>4, Zenon DEF AbstractStep, Abstract!Next

\* Nobody is attached to a watch whose word lets notify skip the spin lock.
LEMMA SkipMeansNobody ==
  ASSUME WatchInv, SkipsLock(spin_state)
  PROVE  Attached = {}
<1>1. observers = <<>>
  BY Zenon DEF SkipsLock, WatchInv, FlagsExact
<1>2. \A w \in Threads : pc[w] # "wait_push"
  BY Zenon DEF SkipsLock, WatchInv, SpinLockExclusive, HoldsLock
<1>3. 1..Len(observers) = {}
  BY <1>1
<1> QED BY <1>2, <1>3, Zenon DEF Attached

\* Nobody is attached after the handlers have been taken.
LEMMA TakeLeavesNobody ==
  ASSUME WatchInv, NEW t \in Threads, Take(t)
  PROVE  Attached' = {}
<1>1. /\ pc[t] \in HoldsLock /\ pc'[t] = "invoke" /\ OnlyMoves(t) /\ observers' = <<>>
  BY TakeEffect, Zenon DEF HoldsLock, WatchInv
<1>2. \A w \in Threads : pc'[w] # "wait_push"
  BY <1>1, Zenon DEF WatchInv, SpinLockExclusive, HoldsLock, OnlyMoves
<1>3. 1..Len(observers') = {}
  BY <1>1
<1> QED BY <1>2, <1>3, Zenon DEF Attached

\* A step of a thread that neither waits nor invokes keeps who is attached and
\* who has been woken.
LEMMA ListsKept ==
  ASSUME WatchInv, WatchInv', NEW t \in Threads, OnlyMoves(t),
         UNCHANGED <<observers, local_observers>>,
         \A u \in Threads \ {t} : arg'[u] = arg[u],
         pc[t] \notin {"blocked", "invoke", "wait_push"}, pc'[t] # "wait_push"
  PROVE  WaitingBar' = WaitingBar /\ OutcomeBar' = OutcomeBar
<1>1. \A i \in 1..Len(observers) : observers[i] # t
  BY Zenon DEF WatchInv, HandlersBlocked
<1>2. Attached' = Attached /\ \A w \in Attached : last_seen'[w] = last_seen[w]
  BY <1>1, Zenon DEF Attached, OnlyMoves
<1>3. local_observers[t] = <<>>
  BY Zenon DEF WatchInv, HandlersHeld
<1>4. \A u, w \in Threads : HasTaken(u, w)' <=> HasTaken(u, w)
  BY Zenon DEF HasTaken
<1>5. \A u, w \in Threads : HasTaken(u, w) => arg'[u] = arg[u]
  <2>1. \A w \in Threads : ~HasTaken(t, w)
    BY <1>3 DEF HasTaken
  <2> QED BY <2>1, Zenon
<1> QED BY <1>2, <1>4, <1>5, WaitingKept, OutcomeKept, Zenon DEF WatchInv

\* Steps outside the spin lock: a change, a notification that finds nobody
\* attached, or nothing.
LEMMA LocalRefines ==
  ASSUME WatchInv, WatchInv', NEW t \in Threads, Local(t)
  PROVE  AbstractStep
<1>1. /\ pc[t] \in Outside /\ pc'[t] \in Outside /\ OnlyMoves(t)
      /\ UNCHANGED <<spin_state, observers, local_observers>>
      /\ value' = value \/ pc'[t] = "notify"
      /\ pc[t] = "notify" => pc'[t] = "notify_lock" \/ SkipsLock(spin_state)
  BY LocalEffect, Zenon DEF WatchInv
<1>2. /\ \A u \in Threads \ {t} : arg'[u] = arg[u]
      /\ pc'[t] = "notify" => pc[t] # "notify" /\ arg'[t] = value'
      /\ pc[t] = "notify" => UNCHANGED <<value, arg>>
      /\ pc'[t] = "notify_lock" => pc[t] = "notify"
      /\ pc[t] \notin {"notify_lock", "notify_take"} /\ pc'[t] # "notify_take"
  BY LocalEffect, ResultEffect, <1>1, Zenon DEF WatchInv, Outside, HoldsLock
<1>3. WaitingBar' = WaitingBar /\ OutcomeBar' = OutcomeBar
  BY <1>1, <1>2, ListsKept, Zenon DEF Outside, HoldsLock
<1>4. FinalBar' = FinalBar
  BY <1>1, FinalKept, Zenon
<1>5. CASE pc'[t] = "notify"
  <2>1. NoticeBar' = [NoticeBar EXCEPT ![t] = value'] /\ NoticeBar[t] = None
    BY <1>1, <1>2, <1>5, Zenon DEF NoticeBar, Announcing, OnlyMoves
  <2> QED BY <1>3, <1>4, <2>1, ChangeStep, Zenon
<1>6. CASE pc'[t] # "notify" /\ (pc[t] = "notify" => pc'[t] = "notify_lock")
  <2>1. Announcing' = Announcing /\ \A u \in Announcing : arg'[u] = arg[u]
    BY <1>1, <1>2, <1>6, Zenon DEF Announcing, OnlyMoves
  <2>2. NoticeBar' = NoticeBar
    BY <2>1, NoticeKept, Zenon
  <2> QED BY <1>1, <1>3, <1>4, <1>6, <2>2, Zenon DEF AbstractStep, WatchBar
<1>7. CASE pc[t] = "notify" /\ pc'[t] # "notify_lock"
  <2>1. Attached = {}
    BY <1>1, <1>7, SkipMeansNobody, Zenon
  <2>2. WaitingBar = [w \in Threads |-> None]
    BY <2>1, Zenon DEF WaitingBar
  <2>3. NoticeBar' = [NoticeBar EXCEPT ![t] = None] /\ NoticeBar[t] = arg[t]
    BY <1>1, <1>2, <1>7, Zenon DEF NoticeBar, Announcing, OnlyMoves
  <2>4. arg[t] # None
    BY <1>7, WatchConstants, Zenon DEF WatchInv, LocalsDefined
  <2>5. OutcomeBar = [u \in Threads |->
                        IF WaitingBar[u] # None THEN NoticeBar[t] ELSE OutcomeBar[u]]
    BY <2>2, Zenon DEF OutcomeBar
  <2> QED BY <1>2, <1>3, <1>4, <1>7, <2>2, <2>3, <2>4, <2>5, NotifyStep, Zenon
<1> QED BY <1>5, <1>6, <1>7, Zenon

\* Taking the spin lock, and leaving async_wait with it, change nothing that
\* the users of the watch see.
LEMMA LockRefines ==
  ASSUME WatchInv, WatchInv', NEW t \in Threads, Acquire(t) \/ Release(t)
  PROVE  AbstractStep
<1>1. /\ OnlyMoves(t) /\ UNCHANGED <<value, observers, local_observers>>
      /\ pc[t] \notin {"blocked", "invoke", "wait_push"} /\ pc'[t] # "wait_push"
      /\ spin_state' \in {spin_state \cup {"kLocked"}, spin_state \ {"kLocked"}}
      /\ t \in Announcing' <=> t \in Announcing
  BY AcquireEffect, ReleaseEffect, Zenon DEF WatchInv, Announcing
<1>2. arg' = arg
  BY Zenon DEF Acquire, Release, WaitLock, NotifyLock, CloseLock, WaitClosed, WaitUnlock
<1>3. WaitingBar' = WaitingBar /\ OutcomeBar' = OutcomeBar
  BY <1>1, <1>2, ListsKept, Zenon
<1>4. FinalBar' = FinalBar
  BY <1>1, FinalKept, Zenon
<1>5. Announcing' = Announcing
  BY <1>1, Zenon DEF Announcing, OnlyMoves
<1>6. NoticeBar' = NoticeBar
  BY <1>2, <1>5, NoticeKept, Zenon
<1> QED BY <1>1, <1>3, <1>4, <1>6, Zenon DEF AbstractStep, WatchBar

\* The second look of async_wait registers the waiter, unless the value has
\* changed.
LEMMA RecheckRefines ==
  ASSUME WatchInv, WatchInv', NEW t \in Threads, WaitRecheck(t)
  PROVE  AbstractStep
<1>1. /\ pc[t] = "wait_recheck" /\ pc'[t] \in {"wait_push", "wait_unlock"}
      /\ pc'[t] = "wait_push" => value = last_seen[t]
      /\ OnlyMoves(t)
      /\ UNCHANGED <<value, spin_state, observers, local_observers, last_seen>>
      /\ \A u \in Threads \ {t} : arg'[u] = arg[u]
  BY RecheckEffect, ResultEffect, Zenon DEF WatchInv
<1>2. FinalBar' = FinalBar
  BY <1>1, FinalKept, Zenon
<1>3. Announcing' = Announcing /\ t \notin Announcing
  BY <1>1, Zenon DEF Announcing, OnlyMoves
<1>4. NoticeBar' = NoticeBar
  BY <1>1, <1>3, NoticeKept, Zenon DEF Announcing
<1>5. CASE pc'[t] = "wait_unlock"
  <2>1. WaitingBar' = WaitingBar /\ OutcomeBar' = OutcomeBar
    BY <1>1, <1>5, ListsKept
  <2> QED BY <1>1, <1>2, <1>4, <2>1, ZenonT(30) DEF AbstractStep, WatchBar
<1>6. CASE pc'[t] = "wait_push"
  <2>1. FinalBar = None
    BY <1>1, Zenon DEF FinalBar, WatchInv, FlagsExact
  <2>2. /\ \A i \in 1..Len(observers) : observers[i] # t
        /\ \A u \in Threads : ~HasTaken(u, t)
    BY <1>1, Zenon DEF WatchInv, HandlersBlocked, HasTaken
  <2>3. t \notin Attached /\ Attached' = Attached \cup {t}
    BY <1>1, <1>6, <2>2, Zenon DEF Attached, OnlyMoves
  <2>4. WaitingBar[t] = None /\ WaitingBar' = [WaitingBar EXCEPT ![t] = value]
    BY <1>1, <1>6, <2>3, Zenon DEF WaitingBar
  <2>5. OutcomeBar[t] = None
    BY <2>2, OutcomeIs, Zenon DEF OutcomesTold, WatchInv
  <2>6. local_observers[t] = <<>>
    BY <1>1, Zenon DEF WatchInv, HandlersHeld
  <2>7. /\ \A u, w \in Threads : HasTaken(u, w)' <=> HasTaken(u, w)
        /\ \A w \in Threads : ~HasTaken(t, w)
    BY <1>1, <2>6 DEF HasTaken
  <2>8. OutcomeBar' = OutcomeBar
    BY <1>1, <2>7, OutcomeKept, Zenon DEF WatchInv
  <2> QED BY <1>1, <1>2, <1>4, <2>1, <2>4, <2>5, <2>8, RegisterStep, Zenon
<1> QED BY <1>1, <1>5, <1>6, Zenon

\* A waiter that pushes its handler has been registered since its second look.
LEMMA PushRefines ==
  ASSUME WatchInv, WatchInv', NEW t \in Threads, WaitPush(t)
  PROVE  AbstractStep
<1>1. /\ pc[t] = "wait_push" /\ pc'[t] = "blocked"
      /\ observers' = Append(observers, t)
      /\ spin_state' = (spin_state \cup {"kWaiting"}) \ {"kLocked"}
      /\ OnlyMoves(t) /\ UNCHANGED <<value, local_observers, last_seen>>
  BY PushEffect, Zenon DEF WatchInv
<1>2. arg' = arg
  BY Zenon DEF WaitPush
<1>3. FinalBar' = FinalBar
  BY <1>1, FinalKept, Zenon
<1>4. Announcing' = Announcing
  BY <1>1, Zenon DEF Announcing, OnlyMoves
<1>5. NoticeBar' = NoticeBar
  BY <1>2, <1>4, NoticeKept, Zenon
<1>6. /\ Len(observers') = Len(observers) + 1 /\ Len(observers) \in Nat
      /\ \A i \in 1..Len(observers) : observers'[i] = observers[i]
      /\ observers'[Len(observers) + 1] = t
  <2>1. observers \in Seq(Threads)
    BY Zenon DEF WatchInv, TypeOK
  <2> QED BY <1>1, <2>1
<1>7. \A w \in Threads : (\E i \in 1..Len(observers') : observers'[i] = w)
                           <=> w = t \/ \E i \in 1..Len(observers) : observers[i] = w
  <2>1. \A i \in 1..Len(observers') : i \in 1..Len(observers) \/ i = Len(observers) + 1
    BY <1>6
  <2>2. \A i \in 1..Len(observers) : i \in 1..Len(observers')
    BY <1>6
  <2>3. Len(observers) + 1 \in 1..Len(observers')
    BY <1>6
  <2> QED BY <1>6, <2>1, <2>2, <2>3, Zenon
<1>8. Attached' = Attached
  BY <1>1, <1>7 DEF Attached, OnlyMoves
<1>9. WaitingBar' = WaitingBar
  BY <1>1, <1>8, WaitingKept, Zenon
<1>10. OutcomeBar' = OutcomeBar
  <2>1. \A u, w \in Threads : HasTaken(u, w)' <=> HasTaken(u, w)
    BY <1>1, Zenon DEF HasTaken
  <2> QED BY <1>2, <2>1, OutcomeKept, Zenon DEF WatchInv
<1> QED BY <1>1, <1>3, <1>5, <1>9, <1>10, Zenon DEF AbstractStep, WatchBar

\* notify and close wake those who are attached, with what they say.
LEMMA TakeWakes ==
  ASSUME WatchInv, WatchInv', NEW t \in Threads, Take(t)
  PROVE  /\ WaitingBar' = [u \in Threads |-> None]
         /\ OutcomeBar' = [u \in Threads |-> IF WaitingBar[u] # None
                                               THEN arg'[t] ELSE OutcomeBar[u]]
<1>1. /\ pc[t] \in {"notify_take", "close_take"} /\ observers' = <<>>
      /\ local_observers' = [local_observers EXCEPT ![t] = observers]
  BY TakeEffect, Zenon DEF WatchInv
<1>2. \A u \in Threads \ {t} : arg'[u] = arg[u]
  BY Zenon DEF Take, NotifyTake, CloseTake, WatchInv, TypeOK
<1>3. WaitingBar' = [u \in Threads |-> None]
  BY TakeLeavesNobody, Zenon DEF WaitingBar
<1>4. \A w \in Threads : pc[w] # "wait_push"
  BY <1>1, ZenonT(30) DEF WatchInv, SpinLockExclusive, HoldsLock
<1>5. \A w \in Threads : WaitingBar[w] # None <=>
                           \E i \in 1..Len(observers) : observers[i] = w
  BY <1>4, WatchConstants DEF WaitingBar, Attached, WatchInv, WaitersListed, HandlersBlocked
<1>6. local_observers[t] = <<>>
  BY <1>1, Zenon DEF WatchInv, HandlersHeld
<1>7. \A u, w \in Threads :
        HasTaken(u, w)' <=> IF u = t THEN WaitingBar[w] # None ELSE HasTaken(u, w)
  <2>1. \A u \in Threads : local_observers'[u] =
                             IF u = t THEN observers ELSE local_observers[u]
    BY <1>1, Zenon DEF WatchInv, TypeOK
  <2> QED BY <1>5, <2>1 DEF HasTaken
<1>8. \A w \in Threads : ~HasTaken(t, w)
  BY <1>6 DEF HasTaken
<1>9. ASSUME NEW w \in Threads
      PROVE  OutcomeBar'[w] = IF WaitingBar[w] # None THEN arg'[t] ELSE OutcomeBar[w]
  <2>1. CASE WaitingBar[w] # None
    BY <1>7, <2>1, OutcomeNext, Zenon DEF OutcomesTold, WatchInv
  <2>2. CASE WaitingBar[w] = None
    <3>1. \A u \in Threads : HasTaken(u, w)' <=> HasTaken(u, w)
      BY <1>7, <1>8, <2>2, Zenon
    <3>2. CASE \E u \in Threads : HasTaken(u, w)
      <4>1. PICK u \in Threads : HasTaken(u, w)
        BY <3>2, Zenon
      <4>2. OutcomeBar[w] = arg[u] /\ OutcomeBar'[w] = arg'[u]
        BY <3>1, <4>1, OutcomeIs, OutcomeNext, ZenonT(30) DEF OutcomesTold, WatchInv
      <4> QED BY <1>2, <1>8, <2>2, <4>1, <4>2, Zenon
    <3>3. CASE ~\E u \in Threads : HasTaken(u, w)
      BY <2>2, <3>1, <3>3, OutcomeIs, OutcomeNext DEF OutcomesTold, WatchInv
    <3> QED BY <3>2, <3>3, Zenon
  <2> QED BY <2>1, <2>2, Zenon
<1> QED BY <1>3, <1>9, Zenon DEF OutcomeBar

\* A notifier that takes the handlers announces its change.
LEMMA NotifyRefines ==
  ASSUME WatchInv, WatchInv', NEW t \in Threads, NotifyTake(t)
  PROVE  AbstractStep
<1>1. Take(t)
  BY Zenon DEF Take
<1>2. /\ pc[t] = "notify_take" /\ pc'[t] = "invoke" /\ OnlyMoves(t)
      /\ spin_state' = (spin_state \ {"kWaiting"}) \ {"kLocked"}
      /\ UNCHANGED <<value, arg>>
  BY <1>1, TakeEffect, Zenon DEF NotifyTake, TakeObservers, UnlockObservers, WatchInv
<1>3. FinalBar' = FinalBar
  BY <1>2, FinalKept, Zenon
<1>4. NoticeBar' = [NoticeBar EXCEPT ![t] = None] /\ NoticeBar[t] = arg[t]
  BY <1>2, Zenon DEF NoticeBar, Announcing, OnlyMoves
<1>5. arg[t] # None
  BY <1>2, WatchConstants, Zenon DEF WatchInv, LocalsDefined
<1>6. /\ WaitingBar' = [u \in Threads |-> None]
      /\ OutcomeBar' = [u \in Threads |-> IF WaitingBar[u] # None
                                            THEN NoticeBar[t] ELSE OutcomeBar[u]]
  BY <1>1, <1>2, <1>4, TakeWakes, Zenon
<1> QED BY <1>2, <1>3, <1>4, <1>5, <1>6, NotifyStep, Zenon

\* The first close closes the watch; a later one finds nobody to wake.
LEMMA CloseRefines ==
  ASSUME WatchInv, WatchInv', NEW t \in Threads, CloseTake(t)
  PROVE  AbstractStep
<1>1. Take(t)
  BY Zenon DEF Take
<1>2. /\ pc[t] = "close_take" /\ pc'[t] = "invoke" /\ OnlyMoves(t)
      /\ spin_state' = ((spin_state \ {"kOpen", "kWaiting"})
                          \cup CloseBit(spin_state, arg[t])) \ {"kLocked"}
      /\ arg' = [arg EXCEPT ![t] = FinalStatus(spin_state')]
      /\ UNCHANGED value
  BY <1>1, TakeEffect, Zenon DEF CloseTake, TakeObservers, UnlockObservers, WatchInv
<1>3. Announcing' = Announcing /\ t \notin Announcing
  BY <1>2, ZenonT(30) DEF Announcing, OnlyMoves
<1>4. NoticeBar' = NoticeBar
  BY <1>2, <1>3, NoticeKept DEF Announcing, WatchInv, TypeOK
<1>5. "kOpen" \notin spin_state'
  BY <1>2, ZenonT(30) DEF CloseBit
<1>6. FinalBar' = FinalStatus(spin_state') /\ arg'[t] = FinalStatus(spin_state')
  BY <1>2, <1>5 DEF FinalBar, WatchInv, TypeOK
<1>7. CASE "kOpen" \in spin_state
  <2>1. FinalBar = None /\ FinalBar' \in StatusCodes
    BY <1>6, <1>7, Zenon DEF FinalBar, FinalStatus, StatusCodes
  <2> QED BY <1>1, <1>2, <1>4, <1>6, <2>1, TakeWakes, CloseStep, Zenon
<1>8. CASE "kOpen" \notin spin_state
  <2>1. FinalBar' = FinalBar
    BY <1>2, <1>8, FinalKept, ZenonT(30) DEF CloseBit
  <2>2. 1..Len(observers) = {}
    BY <1>8 DEF WatchInv, FlagsExact
  <2>3. \A w \in Threads : pc[w] # "wait_push"
    BY <1>2, Zenon DEF WatchInv, SpinLockExclusive, HoldsLock
  <2>4. WaitingBar = [u \in Threads |-> None]
    BY <2>2, <2>3, Zenon DEF WaitingBar, Attached
  <2>5. WaitingBar' = WaitingBar /\ OutcomeBar' = OutcomeBar
    BY <1>1, <2>4, TakeWakes, Zenon DEF OutcomeBar
  <2> QED BY <1>2, <1>4, <2>1, <2>5, Zenon DEF AbstractStep, WatchBar
<1> QED BY <1>7, <1>8, Zenon

\* Invoking a handler ends the wait it stands for; the end of the list changes
\* nothing.
LEMMA InvokeRefines ==
  ASSUME WatchInv, WatchInv', NEW t \in Threads, Invoke(t)
  PROVE  AbstractStep
<1>1. pc[t] = "invoke" /\ UNCHANGED <<value, spin_state, observers, last_seen, arg>>
  BY Zenon DEF Invoke, shared
<1>2. FinalBar' = FinalBar
  BY <1>1, FinalKept, Zenon
<1>3. ASSUME NEW w \in Threads, OnlyMoves(w), pc[w] \in {"invoke", "blocked"},
             \A i \in 1..Len(observers) : observers[i] # w,
             pc'[w] \in {"returned", "modify", "test"}
      PROVE  WaitingBar' = WaitingBar /\ NoticeBar' = NoticeBar
  <2>1. Attached' = Attached
    BY <1>1, <1>3, Zenon DEF Attached, OnlyMoves
  <2>2. Announcing' = Announcing
    BY <1>3, Zenon DEF Announcing, OnlyMoves
  <2> QED BY <1>1, <2>1, <2>2, WaitingKept, NoticeKept, Zenon
<1>4. CASE local_observers[t] = <<>>
  <2>1. pc'[t] = "returned" /\ OnlyMoves(t) /\ UNCHANGED local_observers
    BY <1>4, InvokeEffect, Zenon DEF WatchInv
  <2>2. \A i \in 1..Len(observers) : observers[i] # t
    BY <1>1, Zenon DEF WatchInv, HandlersBlocked
  <2>3. \A u, w \in Threads : HasTaken(u, w)' <=> HasTaken(u, w)
    BY <2>1, Zenon DEF HasTaken
  <2>4. OutcomeBar' = OutcomeBar
    BY <1>1, <2>3, OutcomeKept, Zenon DEF WatchInv
  <2> QED BY <1>1, <1>2, <1>3, <2>1, <2>2, <2>4, Zenon DEF AbstractStep, WatchBar
<1>5. CASE local_observers[t] # <<>>
  <2> DEFINE w == Head(local_observers[t])
  <2>1. /\ w \in Threads /\ OnlyMoves(w)
        /\ pc'[w] \in {"returned", "modify", "test"}
        /\ local_observers' = [local_observers EXCEPT ![t] = Tail(local_observers[t])]
    BY <1>5, InvokeEffect, Zenon DEF WatchInv
  <2>2. /\ local_observers[t] \in Seq(Threads) /\ Len(local_observers[t]) \in Nat
        /\ 1 \in 1..Len(local_observers[t]) /\ local_observers[t][1] = w
        /\ Len(local_observers'[t]) = Len(local_observers[t]) - 1
        /\ \A i \in 1..Len(local_observers'[t]) :
             local_observers'[t][i] = local_observers[t][i + 1]
        /\ \A u \in Threads \ {t} : local_observers'[u] = local_observers[u]
    <3>1. local_observers[t] \in Seq(Threads) /\ local_observers \in [Threads -> Seq(Threads)]
      BY Zenon DEF WatchInv, TypeOK
    <3>2. local_observers'[t] = Tail(local_observers[t])
          /\ \A u \in Threads \ {t} : local_observers'[u] = local_observers[u]
      BY <2>1, <3>1, ZenonT(30)
    <3> QED BY <1>5, <3>1, <3>2
  <2> HIDE DEF w
  <2>3. HasTaken(t, w) /\ pc[w] = "blocked" /\ \A i \in 1..Len(observers) : observers[i] # w
    BY <2>2 DEF HasTaken, WatchInv, HandlersBlocked, HandlersDistinct
  <2>4. \A u, x \in Threads : HasTaken(u, x)' <=> HasTaken(u, x) /\ x # w
    <3>1. ASSUME NEW u \in Threads \ {t}, NEW x \in Threads
          PROVE  HasTaken(u, x)' <=> HasTaken(u, x) /\ x # w
      BY <2>2, SMTT(30) DEF HasTaken, WatchInv, HandlersDistinct
    <3>2. ASSUME NEW x \in Threads
          PROVE  HasTaken(t, x)' <=> HasTaken(t, x) /\ x # w
      <4>1. \A i \in 1..Len(local_observers'[t]) :
              i + 1 \in 1..Len(local_observers[t]) /\ i + 1 # 1
        BY <2>2
      <4>2. \A i \in 1..Len(local_observers[t]) :
              i = 1 \/ (i - 1 \in 1..Len(local_observers'[t]) /\ (i - 1) + 1 = i)
        BY <2>2, SMTT(30)
      <4>3. HasTaken(t, x)' => HasTaken(t, x) /\ x # w
        BY <2>2, <4>1 DEF HasTaken, WatchInv, HandlersDistinct
      <4>4. ASSUME HasTaken(t, x), x # w
            PROVE  HasTaken(t, x)'
        <5>1. PICK i \in 1..Len(local_observers[t]) : local_observers[t][i] = x
          BY <4>4, Zenon DEF HasTaken
        <5>2. /\ i - 1 \in 1..Len(local_observers'[t]) /\ (i - 1) + 1 = i
              /\ local_observers'[t][i - 1] = local_observers[t][(i - 1) + 1]
          BY <2>2, <4>2, <4>4, <5>1, Zenon
        <5> QED BY <5>1, <5>2, Zenon DEF HasTaken
      <4> QED BY <4>3, <4>4, Zenon
    <3> QED BY <3>1, <3>2, ZenonT(30)
  <2>5. ASSUME NEW x \in Threads
        PROVE  OutcomeBar'[x] = IF x = w THEN None ELSE OutcomeBar[x]
    <3>1. CASE x = w
      BY <2>4, <3>1, OutcomeNext, ZenonT(30) DEF OutcomesTold, WatchInv
    <3>2. CASE x # w
      BY <1>1, <2>4, <3>2, OutcomeIs, OutcomeNext DEF OutcomesTold, WatchInv
    <3> QED BY <3>1, <3>2, Zenon
  <2>6. OutcomeBar' = [OutcomeBar EXCEPT ![w] = None]
    BY <2>1, <2>5, Zenon DEF OutcomeBar
  <2>7. OutcomeBar[w] = arg[t] /\ arg[t] # None
    BY <1>1, <2>1, <2>3, OutcomeIs, Zenon DEF OutcomesTold, WatchInv, LocalsDefined
  <2>8. WaitingBar' = WaitingBar /\ NoticeBar' = NoticeBar
    BY <1>3, <2>1, <2>3, Zenon
  <2> QED BY <1>1, <1>2, <2>1, <2>6, <2>7, <2>8, HandleStep, Zenon
<1> QED BY <1>4, <1>5, Zenon

\* The watch with its spin lock implements the abstract watch, whose change,
\* registration, announcement, close and call of a handler are single steps,
\* for any set of threads and of values.
THEOREM WatchImplements == Spec => ImplementsWatchSafety
<1>1. Init => Abstract!Init
  <2> SUFFICES ASSUME Init PROVE WatchBar = Abstract!NewWatch(InitValue)
    BY Zenon DEF Abstract!Init
  <2>1. FinalBar = None /\ WaitingBar = [t \in Threads |-> None]
    BY Zenon DEF Init, FinalBar, WaitingBar, Attached
  <2>2. NoticeBar = [t \in Threads |-> None]
    BY Zenon DEF Init, NoticeBar, Announcing
  <2>3. \A w \in Threads : ~IsTaken(w)
    BY DEF Init, IsTaken, HasTaken
  <2>4. OutcomeBar = [t \in Threads |-> None]
    BY <2>3, Zenon DEF OutcomeBar
  <2> QED BY <2>1, <2>2, <2>4, Zenon DEF Init, WatchBar, Abstract!NewWatch
<1>2. WatchInv /\ WatchInv' /\ [Next]_vars => [Abstract!Next]_WatchBar
  <2> SUFFICES ASSUME WatchInv, WatchInv', [Next]_vars PROVE AbstractStep
    BY ZenonT(30) DEF AbstractStep
  <2>1. CASE UNCHANGED vars
    BY <2>1 DEF vars, AbstractStep, WatchBar, FinalBar, WaitingBar, Attached,
                NoticeBar, Announcing, OutcomeBar, IsTaken, Taker, HasTaken
  <2> QED BY <2>1, StepKinds, LocalRefines, LockRefines, RecheckRefines, PushRefines,
             NotifyRefines, CloseRefines, InvokeRefines, Zenon DEF Take
<1> QED BY <1>1, <1>2, Invariance, PTL DEF Spec, ImplementsWatchSafety, Abstract!Safety

-----------------------------------------------------------------------------
(* What the waiters are told.                                              *)

INSTANCE FiniteSetTheorems

\* The places at which a handler of w is.
InObservers(w) == {i \in 1..Len(observers) : observers[i] = w}
InTaken(w) ==
  {p \in UNION {{t} \X (1..Len(local_observers[t])) : t \in Threads} :
     local_observers[p[1]][p[2]] = w}

\* A place in a list that was taken is a thread and an index.
LEMMA TakenPlace ==
  ASSUME NEW w, NEW p \in InTaken(w)
  PROVE  /\ p = <<p[1], p[2]>> /\ p[1] \in Threads
         /\ p[2] \in 1..Len(local_observers[p[1]])
         /\ local_observers[p[1]][p[2]] = w
BY DEF InTaken

\* The cardinalities that are needed.
LEMMA Sizes == Cardinality({}) = 0 /\ \A x : Cardinality({x}) = 1
BY FS_EmptySet, FS_Singleton, Zenon

\* A waiter is told once: its handler is in one place, in observers or in a
\* list that notify or close has taken, and all that fail are told the status
\* the watch was closed with.
THEOREM WaitersTold == Spec => []WaitersToldOnce
<1>1. WatchInv => WaitersToldOnce
  <2> SUFFICES ASSUME WatchInv PROVE WaitersToldOnce
    BY Zenon
  <2> SUFFICES ASSUME NEW w \in Threads
               PROVE  Occurrences(w) = IF pc[w] = "blocked" THEN 1 ELSE 0
    BY Zenon DEF WaitersToldOnce, OneHandlerPerWaiter, WatchInv
  <2>1. Occurrences(w) = Cardinality(InObservers(w)) + Cardinality(InTaken(w))
    BY Zenon DEF Occurrences, InObservers, InTaken
  <2>2. CASE pc[w] # "blocked"
    <3>1. InObservers(w) = {}
      BY <2>2 DEF InObservers, WatchInv, HandlersBlocked
    <3>2. InTaken(w) = {}
      BY <2>2, TakenPlace, SMTT(30) DEF WatchInv, HandlersBlocked
    <3> QED BY <2>1, <2>2, <3>1, <3>2, Sizes, SMTT(30)
  <2>3. CASE pc[w] = "blocked"
    <3>1. CASE \E i \in 1..Len(observers) : observers[i] = w
      <4>0. PICK i \in 1..Len(observers) : observers[i] = w
        BY <3>1, Zenon
      <4>1. InObservers(w) = {i}
        BY <4>0, ZenonT(30) DEF InObservers, WatchInv, HandlersDistinct
      <4>2. InTaken(w) = {}
        BY <3>1, TakenPlace DEF WatchInv, HandlersDistinct
      <4>3. Cardinality(InObservers(w)) = 1 /\ Cardinality(InTaken(w)) = 0
        BY <4>1, <4>2, Sizes, ZenonT(30)
      <4> QED BY <2>1, <2>3, <4>3
    <3>2. CASE \E t \in Threads : HasTaken(t, w)
      <4>0. PICK t \in Threads : HasTaken(t, w)
        BY <3>2, Zenon
      <4>1. PICK i \in 1..Len(local_observers[t]) : local_observers[t][i] = w
        BY <4>0, Zenon DEF HasTaken
      <4>2. InObservers(w) = {}
        BY <4>1, ZenonT(30) DEF InObservers, WatchInv, HandlersDistinct
      <4>3. <<t, i>> \in InTaken(w)
        BY <4>1, SMTT(30) DEF InTaken
      <4>4. \A p \in InTaken(w) : p[1] = t /\ p[2] = i
        BY <4>1, TakenPlace, SMTT(30) DEF WatchInv, HandlersDistinct
      <4>5. InTaken(w) = {<<t, i>>}
        BY <4>3, <4>4, TakenPlace, Zenon
      <4>6. Cardinality(InObservers(w)) = 0 /\ Cardinality(InTaken(w)) = 1
        BY <4>2, <4>5, Sizes, Zenon
      <4> QED BY <2>1, <2>3, <4>6
    <3> QED BY <2>3, <3>1, <3>2, ZenonT(30) DEF WatchInv, WaitersListed
  <2> QED BY <2>2, <2>3, Zenon
<1> QED BY <1>1, Invariance, PTL
=============================================================================
