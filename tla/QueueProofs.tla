---------------------------- MODULE QueueProofs ----------------------------
(***************************************************************************)
(* Theorems about Queue, for any finite set of threads, any batches and    *)
(* any number of items.                                                    *)
(***************************************************************************)
EXTENDS Queue

CountWatch == WatchOf(Nat, {kClosed})

\* The sums over the calls range over natural numbers.
LEMMA SumsType ==
  ASSUME TypeOK
  PROVE  /\ UnstoredOf \in [Threads -> Nat] /\ InFlightOf \in [Threads -> Nat]
         /\ Unstored \in Nat /\ InFlight \in Nat
<1>1. UnstoredOf \in [Threads -> Nat] /\ InFlightOf \in [Threads -> Nat]
  BY QueueConstants DEF TypeOK, UnstoredOf, InFlightOf, Unraised, Reserved
<1> QED BY <1>1, TotalType, QueueConstants, Zenon DEF Unstored, InFlight

\* A step of t moves the sums by what it does to the call of t.
LEMMA SumsStep ==
  ASSUME TypeOK, TypeOK', NEW t \in Threads,
         \A u \in Threads \ {t} : pc'[u] = pc[u] /\ call'[u] = call[u]
  PROVE  /\ Unstored' = Unstored - UnstoredOf[t] + UnstoredOf'[t]
         /\ InFlight' = InFlight - InFlightOf[t] + InFlightOf'[t]
<1>1. /\ UnstoredOf \in [Threads -> Nat] /\ UnstoredOf' \in [Threads -> Nat]
      /\ InFlightOf \in [Threads -> Nat] /\ InFlightOf' \in [Threads -> Nat]
  <2>1. UnstoredOf \in [Threads -> Nat] /\ InFlightOf \in [Threads -> Nat]
    BY SumsType, Zenon
  <2>2. UnstoredOf' \in [Threads -> Nat] /\ InFlightOf' \in [Threads -> Nat]
    BY QueueConstants DEF TypeOK, UnstoredOf, InFlightOf, Unraised, Reserved
  <2> QED BY <2>1, <2>2, Zenon
<1>2. /\ \A u \in Threads \ {t} : UnstoredOf'[u] = UnstoredOf[u]
      /\ \A u \in Threads \ {t} : InFlightOf'[u] = InFlightOf[u]
  BY Zenon DEF UnstoredOf, InFlightOf, Unraised, Reserved
<1>3. Unstored' = Unstored - UnstoredOf[t] + UnstoredOf'[t]
  BY <1>1, <1>2, TotalStep, QueueConstants DEF Unstored
<1>4. InFlight' = InFlight - InFlightOf[t] + InFlightOf'[t]
  BY <1>1, <1>2, TotalStep, QueueConstants DEF InFlight
<1> QED BY <1>3, <1>4, Zenon

\* Whoever has reserved an item finds one: the items reserved are in the deque.
LEMMA ReservedIsThere ==
  ASSUME TypeOK, CountExact
  PROVE  NeverPanics
<1> SUFFICES ASSUME NEW t \in Threads, pc[t] = "pop" PROVE pending_items > 0
  BY Zenon DEF NeverPanics
<1>1. InFlightOf \in [Threads -> Nat] /\ InFlight \in Nat
  BY SumsType, Zenon
<1>2. InFlightOf[t] = 1
  BY DEF InFlightOf, Unraised, Reserved
<1>3. InFlightOf[t] <= InFlight
  BY <1>1, TotalBound, QueueConstants, Zenon DEF InFlight
<1>4. pending_count.value \in Nat /\ pending_items \in Int
  BY DEF TypeOK, WatchOf
<1> QED BY <1>1, <1>2, <1>3, <1>4 DEF CountExact

\* A step of t that leaves the deque and the count alone, and moves t between
\* places where it has nothing in flight.
LEMMA QuietStep ==
  ASSUME QueueInv, TypeOK', NEW t \in Threads,
         \A u \in Threads \ {t} : pc'[u] = pc[u] /\ call'[u] = call[u],
         UnstoredOf'[t] = UnstoredOf[t], InFlightOf'[t] = InFlightOf[t],
         UNCHANGED deque, pending_count'.value = pending_count.value,
         pc'[t] \in {"emplace", "raise"} => call'[t].op = "push",
         pc'[t] \notin {"emplace", "raise", "notify"} => call'[t].op # "push"
  PROVE  QueueInv'
<1>1. Unstored' = Unstored /\ InFlight' = InFlight
  <2>1. /\ UnstoredOf[t] \in Nat /\ InFlightOf[t] \in Nat
        /\ Unstored \in Nat /\ InFlight \in Nat
    BY SumsType, Zenon DEF QueueInv
  <2> QED BY <2>1, SumsStep DEF QueueInv
<1>2. CallsInPlace'
  BY Zenon DEF QueueInv, CallsInPlace
<1>3. PushesFit' /\ CountExact'
  BY <1>1, Zenon DEF QueueInv, PushesFit, CountExact, deque
<1>4. NeverPanics'
  BY <1>3, ReservedIsThere, PTL
<1> QED BY <1>2, <1>3, <1>4, Zenon DEF QueueInv
\* The places where a call has nothing in flight.
Quiet == {"idle", "load", "modify", "test", "await", "attach", "blocked"}

\* t stays among those places, whatever it learns, and is no producer.
LEMMA QuietMove ==
  ASSUME QueueInv, NEW t \in Threads, NEW l \in Quiet, NEW c,
         c \in [op : Operations \ {"push"}, batch : 0..MaxBatch, old_value : Nat],
         pc[t] \in Quiet,
         pc' = [pc EXCEPT ![t] = l], call' = [call EXCEPT ![t] = c],
         UNCHANGED deque,
         pending_count' \in CountWatch, pending_count'.value = pending_count.value
  PROVE  QueueInv'
<1>1. TypeOK'
  BY Zenon DEF QueueInv, TypeOK, deque, CountWatch, Quiet, Labels, Operations
<1>2. /\ pc'[t] = l /\ call'[t] = c
      /\ \A u \in Threads \ {t} : pc'[u] = pc[u] /\ call'[u] = call[u]
  BY Zenon DEF QueueInv, TypeOK
<1>3. UnstoredOf'[t] = UnstoredOf[t] /\ InFlightOf'[t] = InFlightOf[t]
  BY <1>2, Zenon DEF UnstoredOf, InFlightOf, Unraised, Reserved, Quiet
<1>4. /\ pc'[t] \in {"emplace", "raise"} => call'[t].op = "push"
      /\ pc'[t] \notin {"emplace", "raise", "notify"} => call'[t].op # "push"
  BY <1>2, Zenon DEF Quiet
<1> QED BY <1>1, <1>2, <1>3, <1>4, QuietStep, Zenon

\* What a call becomes when it returns or learns a count, which is not a push.
LEMMA CallTypes ==
  ASSUME QueueInv, NEW t \in Threads, call[t].op # "push"
  PROVE  /\ NoCall \in [op : Operations \ {"push"}, batch : 0..MaxBatch, old_value : Nat]
         /\ call[t] \in [op : Operations \ {"push"}, batch : 0..MaxBatch, old_value : Nat]
         /\ \A n \in Nat : [call[t] EXCEPT !.old_value = n]
              \in [op : Operations \ {"push"}, batch : 0..MaxBatch, old_value : Nat]
         /\ call = [call EXCEPT ![t] = call[t]]
BY QueueConstants DEF QueueInv, TypeOK, NoCall, CallOf, Operations

\* t looks at a count it has been given, or gives up.
LEMMA ResumeStep ==
  ASSUME QueueInv, NEW t \in Threads, pc[t] \in Quiet, call[t].op # "push",
         NEW r \in Nat \cup {kClosed}, Resume(t, r),
         UNCHANGED deque,
         pending_count' \in CountWatch, pending_count'.value = pending_count.value
  PROVE  QueueInv'
<1>1. CASE r = kClosed
  BY <1>1, CallTypes, QuietMove, Zenon DEF Resume, Return, Quiet
<1>2. CASE r # kClosed
  <2>1. r \in Nat
    BY <1>2, Zenon
  <2> DEFINE l == IF call[t].op = "await_empty" THEN "test" ELSE "modify"
             c == [call[t] EXCEPT !.old_value = r]
  <2>2. /\ pc' = [pc EXCEPT ![t] = l]
        /\ call' = [call EXCEPT ![t] = c]
        /\ l \in Quiet
    BY <1>2, Zenon DEF Resume, Examine, Learn, Quiet
  <2>3. c \in [op : Operations \ {"push"}, batch : 0..MaxBatch, old_value : Nat]
    BY <2>1, CallTypes, Zenon
  <2> HIDE DEF l, c
  <2> QED BY <2>2, <2>3, QuietMove, Zenon
<1> QED BY <1>1, <1>2, Zenon
-----------------------------------------------------------------------------
(* The steps of Next, one lemma each for those that move something.        *)

\* push: what is begun fits.
LEMMA PushStep ==
  ASSUME QueueInv, NEW t \in Threads, NEW n \in 0..MaxBatch, push(t, n)
  PROVE  QueueInv'
<1>1. /\ pc[t] = "idle" /\ pushed + Unstored + n <= MaxItems
      /\ pc' = [pc EXCEPT ![t] = "emplace"]
      /\ call' = [call EXCEPT ![t] = CallOf("push", n, 0)]
      /\ UNCHANGED <<pending_count, pending_items, pushed>>
  BY Zenon DEF push, Begin, deque
<1>2. TypeOK'
  BY <1>1, Zenon DEF QueueInv, TypeOK, Labels, CallOf, Operations
<1>3. /\ pc'[t] = "emplace" /\ call'[t] = CallOf("push", n, 0)
      /\ \A u \in Threads \ {t} : pc'[u] = pc[u] /\ call'[u] = call[u]
  BY <1>1, Zenon DEF QueueInv, TypeOK
<1>4. /\ UnstoredOf[t] = 0 /\ UnstoredOf'[t] = n
      /\ InFlightOf[t] = 0 /\ InFlightOf'[t] = 0
  BY <1>1, <1>3 DEF UnstoredOf, InFlightOf, Unraised, Reserved, CallOf
<1>5. Unstored \in Nat /\ InFlight \in Nat
  BY SumsType, Zenon DEF QueueInv
<1>6. Unstored' = Unstored + n /\ InFlight' = InFlight
  BY <1>2, <1>3, <1>4, <1>5, SumsStep DEF QueueInv
<1>7. CallsInPlace'
  BY <1>3 DEF QueueInv, CallsInPlace, CallOf
<1>8. PushesFit' /\ CountExact'
  BY <1>1, <1>5, <1>6 DEF QueueInv, TypeOK, PushesFit, CountExact
<1>9. NeverPanics'
  BY <1>2, <1>8, ReservedIsThere, PTL
<1> QED BY <1>2, <1>7, <1>8, <1>9, Zenon DEF QueueInv

\* Emplace: the items of t are in the deque and not counted yet.
LEMMA EmplaceStep ==
  ASSUME QueueInv, NEW t \in Threads, Emplace(t)
  PROVE  QueueInv'
<1> DEFINE n == call[t].batch
<1>1. /\ pc[t] = "emplace" /\ pc' = [pc EXCEPT ![t] = "raise"]
      /\ pending_items' = pending_items + n /\ pushed' = pushed + n
      /\ UNCHANGED <<pending_count, call>>
  BY Zenon DEF Emplace, Goto
<1>2. /\ n \in Nat /\ pending_items \in Nat /\ pushed \in Nat
      /\ pending_count.value \in Nat /\ MaxItems \in Nat
  BY QueueConstants DEF QueueInv, TypeOK, WatchOf
<1>3. /\ UnstoredOf \in [Threads -> Nat]
      /\ Unstored \in Nat /\ InFlight \in Nat
  BY SumsType, Zenon DEF QueueInv
<1>4. pc'[t] = "raise" /\ \A u \in Threads \ {t} : pc'[u] = pc[u] /\ call'[u] = call[u]
  BY <1>1, Zenon DEF QueueInv, TypeOK
<1>5. /\ UnstoredOf[t] = n /\ UnstoredOf'[t] = 0
      /\ InFlightOf[t] = 0 /\ InFlightOf'[t] = n
  BY <1>1, <1>2, <1>4 DEF UnstoredOf, InFlightOf, Unraised, Reserved
<1>6. n <= Unstored
  BY <1>3, <1>5, TotalBound, QueueConstants, Zenon DEF Unstored
<1>7. TypeOK'
  <2>1. pushed' \in 0..MaxItems /\ pending_items' \in 0..MaxItems
    BY <1>1, <1>2, <1>3, <1>6 DEF QueueInv, PushesFit
  <2> QED BY <1>1, <2>1, Zenon DEF QueueInv, TypeOK, Labels
<1>8. Unstored' = Unstored - n /\ InFlight' = InFlight + n
  BY <1>2, <1>3, <1>4, <1>5, <1>7, SumsStep DEF QueueInv
<1>9. CallsInPlace'
  BY <1>1, <1>4, Zenon DEF QueueInv, CallsInPlace
<1>10. PushesFit' /\ CountExact'
  BY <1>1, <1>2, <1>3, <1>6, <1>8 DEF QueueInv, PushesFit, CountExact
<1>11. NeverPanics'
  BY <1>7, <1>10, ReservedIsThere, PTL
<1> QED BY <1>7, <1>9, <1>10, <1>11, Zenon DEF QueueInv

\* Raise: the items of t are counted.
LEMMA RaiseStep ==
  ASSUME QueueInv, NEW t \in Threads, Raise(t)
  PROVE  QueueInv'
<1> DEFINE n == call[t].batch
<1>1. /\ pc[t] = "raise"
      /\ pending_count' = Changed(pending_count, t, pending_count.value + n)
      /\ UNCHANGED <<pending_items, pushed>>
  BY Zenon DEF Raise, deque
<1>2. /\ n \in Nat /\ pending_items \in Nat /\ pushed \in Nat
      /\ pending_count.value \in Nat /\ MaxItems \in Nat
      /\ pending_count \in CountWatch
  BY QueueConstants DEF QueueInv, TypeOK, WatchOf, CountWatch
<1>3. pending_count' \in CountWatch /\ pending_count'.value = pending_count.value + n
  BY <1>1, <1>2, ChangedWatch DEF CountWatch
<1>4. /\ pc' = [pc EXCEPT ![t] = IF n > 0 THEN "notify" ELSE "idle"]
      /\ call' = [call EXCEPT ![t] = IF n > 0 THEN call[t] ELSE NoCall]
  BY Zenon DEF Raise, Goto, Return, QueueInv, TypeOK
<1>5. TypeOK'
  BY <1>1, <1>3, <1>4, QueueConstants
  DEF QueueInv, TypeOK, CountWatch, Labels, NoCall, CallOf, Operations
<1>6. /\ pc'[t] = IF n > 0 THEN "notify" ELSE "idle"
      /\ call'[t] = IF n > 0 THEN call[t] ELSE NoCall
      /\ \A u \in Threads \ {t} : pc'[u] = pc[u] /\ call'[u] = call[u]
  BY <1>4, Zenon DEF QueueInv, TypeOK
<1>7. call[t].op = "push"
  BY <1>1 DEF QueueInv, CallsInPlace
<1>8. /\ UnstoredOf[t] = 0 /\ UnstoredOf'[t] = 0
      /\ InFlightOf[t] = n /\ InFlightOf'[t] = 0
  BY <1>1, <1>2, <1>6, <1>7
  DEF UnstoredOf, InFlightOf, Unraised, Reserved
<1>9. Unstored \in Nat /\ InFlight \in Nat
  BY SumsType, Zenon DEF QueueInv
<1>10. Unstored' = Unstored /\ InFlight' = InFlight - n
  BY <1>2, <1>5, <1>6, <1>8, <1>9, SumsStep DEF QueueInv
<1>11. CallsInPlace'
  BY <1>6, <1>7 DEF QueueInv, CallsInPlace, NoCall, CallOf
<1>12. PushesFit' /\ CountExact'
  BY <1>1, <1>2, <1>3, <1>9, <1>10 DEF QueueInv, PushesFit, CountExact
<1>13. NeverPanics'
  BY <1>5, <1>12, ReservedIsThere, PTL
<1> QED BY <1>5, <1>11, <1>12, <1>13, Zenon DEF QueueInv
\* Acquire: the item that t has taken from the count is reserved for it.
LEMMA AcquireStep ==
  ASSUME QueueInv, NEW t \in Threads, Acquire(t)
  PROVE  QueueInv'
<1> DEFINE n == call[t].old_value
<1>1. /\ pc[t] = "modify" /\ DecrementIfPositive(n) # None
      /\ UNCHANGED <<pending_items, pushed>>
  BY Zenon DEF Acquire, deque
<1>2. /\ n \in Nat /\ pending_items \in Nat /\ pushed \in Nat
      /\ pending_count.value \in Nat /\ MaxItems \in Nat
      /\ pending_count \in CountWatch
  BY QueueConstants DEF QueueInv, TypeOK, WatchOf, CountWatch
<1>3. n > 0 /\ DecrementIfPositive(n) = n - 1
  BY <1>1, <1>2, Zenon DEF DecrementIfPositive
<1>4. call[t].op # "push"
  BY <1>1, Zenon DEF QueueInv, CallsInPlace
<1>5. CASE CountIs(n)
  <2>1. /\ pending_count.value = n
        /\ pending_count' = Changed(pending_count, t, n - 1)
        /\ pc' = [pc EXCEPT ![t] = "notify"] /\ call' = call
    BY <1>3, <1>5, Zenon DEF Acquire, CountIs, Goto
  <2>2. pending_count' \in CountWatch /\ pending_count'.value = n - 1
    <3>1. n - 1 \in Nat
      BY <1>2, <1>3
    <3> QED BY <1>2, <2>1, <3>1, ChangedWatch DEF CountWatch
  <2>3. TypeOK'
    BY <1>1, <2>1, <2>2, Zenon DEF QueueInv, TypeOK, CountWatch, Labels
  <2>4. pc'[t] = "notify" /\ \A u \in Threads \ {t} : pc'[u] = pc[u] /\ call'[u] = call[u]
    BY <2>1, Zenon DEF QueueInv, TypeOK
  <2>5. /\ UnstoredOf[t] = 0 /\ UnstoredOf'[t] = 0
        /\ InFlightOf[t] = 0 /\ InFlightOf'[t] = 1
    BY <1>1, <1>4, <2>1, <2>4 DEF UnstoredOf, InFlightOf, Unraised, Reserved
  <2>6. Unstored \in Nat /\ InFlight \in Nat
    BY SumsType, Zenon DEF QueueInv
  <2>7. Unstored' = Unstored /\ InFlight' = InFlight + 1
    BY <2>3, <2>4, <2>5, <2>6, SumsStep DEF QueueInv
  <2>8. CallsInPlace'
    BY <2>1, <2>4, Zenon DEF QueueInv, CallsInPlace
  <2>9. PushesFit' /\ CountExact'
    BY <1>1, <1>2, <2>1, <2>2, <2>6, <2>7, SMTT(30) DEF QueueInv, PushesFit, CountExact
  <2>10. NeverPanics'
    BY <2>3, <2>9, ReservedIsThere, PTL
  <2> QED BY <2>3, <2>8, <2>9, <2>10, Zenon DEF QueueInv
<1>6. CASE ~CountIs(n)
  <2> DEFINE v == pending_count.value
             l == IF call[t].op = "await_empty" THEN "test" ELSE "modify"
             c == [call[t] EXCEPT !.old_value = v]
  <2>1. /\ pc' = [pc EXCEPT ![t] = l] /\ call' = [call EXCEPT ![t] = c]
        /\ pending_count' = pending_count /\ l \in Quiet
    BY <1>6, Zenon DEF Acquire, Examine, Learn, Quiet
  <2>2. c \in [op : Operations \ {"push"}, batch : 0..MaxBatch, old_value : Nat]
    BY <1>2, <1>4, CallTypes, Zenon
  <2>3. pc[t] \in Quiet /\ UNCHANGED deque
    BY <1>1, Zenon DEF Quiet, deque
  <2> HIDE DEF l, c
  <2> QED BY <1>2, <2>1, <2>2, <2>3, QuietMove, ZenonT(30)
<1> QED BY <1>5, <1>6, Zenon

\* Notify: a producer is done, a consumer goes on with its item reserved.
LEMMA NotifyStep ==
  ASSUME QueueInv, NEW t \in Threads, Notify(t)
  PROVE  QueueInv'
<1>1. /\ pc[t] = "notify" /\ pending_count' = Notified(pending_count, t)
      /\ UNCHANGED deque
  BY Zenon DEF Notify, Announced
<1>2. pending_count' \in CountWatch /\ pending_count'.value = pending_count.value
  BY <1>1, NotifiedWatch DEF QueueInv, TypeOK, CountWatch
<1>3. /\ pc' = [pc EXCEPT ![t] = IF call[t].op = "push" THEN "idle" ELSE "pop"]
      /\ call' = [call EXCEPT ![t] = IF call[t].op = "push" THEN NoCall ELSE call[t]]
  BY Zenon DEF Notify, Goto, Return, QueueInv, TypeOK
<1>4. TypeOK'
  BY <1>1, <1>2, <1>3, QueueConstants
  DEF QueueInv, TypeOK, CountWatch, Labels, NoCall, CallOf, Operations, deque
<1>5. /\ pc'[t] = IF call[t].op = "push" THEN "idle" ELSE "pop"
      /\ call'[t] = IF call[t].op = "push" THEN NoCall ELSE call[t]
      /\ \A u \in Threads \ {t} : pc'[u] = pc[u] /\ call'[u] = call[u]
  BY <1>3, Zenon DEF QueueInv, TypeOK
<1>6. UnstoredOf'[t] = UnstoredOf[t] /\ InFlightOf'[t] = InFlightOf[t]
  BY <1>1, <1>5, Zenon DEF UnstoredOf, InFlightOf, Unraised, Reserved
<1>7. /\ pc'[t] \in {"emplace", "raise"} => call'[t].op = "push"
      /\ pc'[t] \notin {"emplace", "raise", "notify"} => call'[t].op # "push"
  BY <1>5 DEF NoCall, CallOf
<1> QED BY <1>1, <1>2, <1>4, <1>5, <1>6, <1>7, QuietStep, Zenon

\* Pop: t takes the item that was reserved for it.
LEMMA PopStep ==
  ASSUME QueueInv, NEW t \in Threads, Pop(t)
  PROVE  QueueInv'
<1> DEFINE drains == call[t].op = "drain"
<1>1. /\ pc[t] = "pop" /\ pending_items > 0
      /\ pending_items' = pending_items - 1
      /\ UNCHANGED <<pending_count, pushed>>
  BY Zenon DEF Pop
<1>2. /\ pc' = [pc EXCEPT ![t] = IF drains THEN "load" ELSE "idle"]
      /\ call' = [call EXCEPT ![t] = IF drains THEN [call[t] EXCEPT !.old_value = 0]
                                     ELSE NoCall]
  BY Zenon DEF Pop, Learn, Return
<1>3. call[t].op # "push"
  BY <1>1, Zenon DEF QueueInv, CallsInPlace
<1>4. /\ pending_items \in Nat /\ pushed \in Nat
      /\ pending_count.value \in Nat /\ MaxItems \in Nat
  BY QueueConstants DEF QueueInv, TypeOK, WatchOf
<1>5. TypeOK'
  <2>1. pending_items' \in 0..MaxItems
    BY <1>1, <1>4 DEF QueueInv, TypeOK
  <2> QED
    BY <1>1, <1>2, <2>1, QueueConstants
    DEF QueueInv, TypeOK, Labels, NoCall, CallOf, Operations
<1>6. /\ pc'[t] = IF drains THEN "load" ELSE "idle"
      /\ call'[t] = IF drains THEN [call[t] EXCEPT !.old_value = 0] ELSE NoCall
      /\ \A u \in Threads \ {t} : pc'[u] = pc[u] /\ call'[u] = call[u]
  BY <1>2, Zenon DEF QueueInv, TypeOK
<1>7. /\ UnstoredOf[t] = 0 /\ UnstoredOf'[t] = 0
      /\ InFlightOf[t] = 1 /\ InFlightOf'[t] = 0
  BY <1>1, <1>6 DEF UnstoredOf, InFlightOf, Unraised, Reserved
<1>8. Unstored \in Nat /\ InFlight \in Nat
  BY SumsType, Zenon DEF QueueInv
<1>9. Unstored' = Unstored /\ InFlight' = InFlight - 1
  BY <1>5, <1>6, <1>7, <1>8, SumsStep DEF QueueInv
<1>10. CallsInPlace'
  <2>1. pc'[t] \in {"load", "idle"} /\ call'[t].op # "push"
    BY <1>3, <1>6 DEF QueueInv, TypeOK, NoCall, CallOf
  <2> QED BY <1>6, <2>1, Zenon DEF QueueInv, CallsInPlace
<1>11. PushesFit' /\ CountExact'
  BY <1>1, <1>4, <1>8, <1>9 DEF QueueInv, PushesFit, CountExact
<1>12. NeverPanics'
  BY <1>5, <1>11, ReservedIsThere, PTL
<1> QED BY <1>5, <1>10, <1>11, <1>12, Zenon DEF QueueInv
\* QueueInv is inductive.
LEMMA QueueStep ==
  ASSUME QueueInv, [Next]_vars
  PROVE  QueueInv'
<1>w. pending_count \in CountWatch /\ pending_count.value \in Nat
  BY Zenon DEF QueueInv, TypeOK, CountWatch, WatchOf
<1>1. ASSUME NEW t \in Threads,
             await_next(t) \/ try_pop_next(t) \/ drain(t) \/ await_empty(t)
      PROVE  QueueInv'
  <2>1. PICK op \in Operations \ {"push"} :
          /\ pc' = [pc EXCEPT ![t] = "load"]
          /\ call' = [call EXCEPT ![t] = CallOf(op, 0, 0)]
    BY <1>1, Zenon DEF await_next, try_pop_next, drain, await_empty, Begin, Operations
  <2>2. pc[t] = "idle" /\ UNCHANGED pending_count /\ UNCHANGED deque
    BY <1>1, Zenon DEF await_next, try_pop_next, drain, await_empty, Begin
  <2>3. CallOf(op, 0, 0) \in [op : Operations \ {"push"}, batch : 0..MaxBatch, old_value : Nat]
    BY QueueConstants DEF CallOf
  <2> QED BY <2>1, <2>2, <2>3, <1>w, QuietMove, Zenon DEF Quiet
<1>2. ASSUME NEW t \in Threads, close(t)
      PROVE  QueueInv'
  <2>1. pc[t] = "idle" /\ pc' = pc /\ call' = call /\ UNCHANGED deque
    BY <1>2, Zenon DEF close
  <2>2. pending_count' \in CountWatch /\ pending_count'.value = pending_count.value
    BY <1>2, ClosedWatch DEF close, QueueInv, TypeOK, CountWatch
  <2>3. call[t].op # "push" /\ pc = [pc EXCEPT ![t] = "idle"]
    BY <2>1, Zenon DEF QueueInv, CallsInPlace, TypeOK
  <2> QED BY <2>1, <2>2, <2>3, CallTypes, QuietMove, Zenon DEF Quiet
<1>3. ASSUME NEW t \in Threads, LoadCount(t)
      PROVE  QueueInv'
  <2>1. /\ pc[t] = "load" /\ Examine(t, pending_count.value)
        /\ UNCHANGED pending_count /\ UNCHANGED deque
    BY <1>3, Zenon DEF LoadCount
  <2>2. call[t].op # "push" /\ pc[t] \in Quiet
    BY <2>1, Zenon DEF QueueInv, CallsInPlace, Quiet
  <2> DEFINE l == IF call[t].op = "await_empty" THEN "test" ELSE "modify"
             c == [call[t] EXCEPT !.old_value = pending_count.value]
  <2>3. /\ pc' = [pc EXCEPT ![t] = l] /\ call' = [call EXCEPT ![t] = c]
        /\ l \in Quiet
    BY <2>1, Zenon DEF Examine, Learn, Quiet
  <2>4. c \in [op : Operations \ {"push"}, batch : 0..MaxBatch, old_value : Nat]
    BY <1>w, <2>2, CallTypes, ZenonT(30)
  <2> HIDE DEF l, c
  <2> QED BY <1>w, <2>1, <2>2, <2>3, <2>4, QuietMove, Zenon
<1>4. ASSUME NEW t \in Threads, AcquireNone(t) \/ EmptyTest(t)
      PROVE  QueueInv'
  <2>1. pc[t] \in {"modify", "test"} /\ UNCHANGED pending_count /\ UNCHANGED deque
    BY <1>4, Zenon DEF AcquireNone, EmptyTest
  <2>2. call[t].op # "push" /\ pc[t] \in Quiet
    BY <2>1, Zenon DEF QueueInv, CallsInPlace, Quiet
  <2>3. PICK l \in {"idle", "await"} :
          /\ pc' = [pc EXCEPT ![t] = l]
          /\ call' = [call EXCEPT ![t] = IF l = "idle" THEN NoCall ELSE call[t]]
    BY <1>4, <2>2, CallTypes, Zenon DEF AcquireNone, EmptyTest, Goto, Return
  <2> QED BY <1>w, <2>1, <2>2, <2>3, CallTypes, QuietMove, ZenonT(30) DEF Quiet
<1>5. ASSUME NEW t \in Threads, Await(t) \/ Attach(t)
      PROVE  QueueInv'
  <2>1. pc[t] \in {"await", "attach"} /\ UNCHANGED deque
    BY <1>5, Zenon DEF Await, Attach
  <2>2. call[t].op # "push" /\ pc[t] \in Quiet
    BY <2>1, Zenon DEF QueueInv, CallsInPlace, Quiet
  <2>3. ASSUME NEW r \in Nat \cup {kClosed}, Resume(t, r), UNCHANGED pending_count
        PROVE  QueueInv'
    BY <1>w, <2>1, <2>2, <2>3, ResumeStep, Zenon
  <2>4. ASSUME NEW l \in {"attach", "blocked"}, Goto(t, l),
               pending_count' \in {pending_count, Registered(pending_count, t)}
        PROVE  QueueInv'
    <3>1. pending_count' \in CountWatch /\ pending_count'.value = pending_count.value
      BY <1>w, <2>4, RegisteredWatch DEF CountWatch
    <3>2. pc' = [pc EXCEPT ![t] = l] /\ call' = [call EXCEPT ![t] = call[t]]
      BY <2>2, <2>4, CallTypes, Zenon DEF Goto
    <3> QED BY <2>1, <2>2, <3>1, <3>2, CallTypes, QuietMove, ZenonT(30) DEF Quiet
  <2>5. FirstLook(pending_count, call[t].old_value) \in Nat \cup {None}
    BY <1>w, Zenon DEF FirstLook
  <2>6. SecondLook(pending_count, call[t].old_value) \in Nat \cup {kClosed, None}
    BY <1>w, Zenon DEF SecondLook, CountWatch, WatchOf
  <2>7. CASE Await(t)
    BY <2>3, <2>4, <2>5, <2>7, Zenon DEF Await
  <2>8. CASE Attach(t)
    BY <2>3, <2>4, <2>6, <2>8, Zenon DEF Attach
  <2> QED BY <1>5, <2>7, <2>8, Zenon
<1>6. ASSUME NEW t \in Threads, WakeUp(t)
      PROVE  QueueInv'
  <2>1. /\ pc[t] = "blocked" /\ Resume(t, pending_count.outcome[t])
        /\ pending_count.outcome[t] # None
        /\ pending_count' = Handled(pending_count, t) /\ UNCHANGED deque
    BY <1>6, Zenon DEF WakeUp
  <2>2. call[t].op # "push" /\ pc[t] \in Quiet
    BY <2>1, Zenon DEF QueueInv, CallsInPlace, Quiet
  <2>3. pending_count.outcome[t] \in Nat \cup {kClosed}
    BY <1>w, <2>1, Zenon DEF CountWatch, WatchOf
  <2>4. pending_count' \in CountWatch /\ pending_count'.value = pending_count.value
    BY <1>w, <2>1, HandledWatch DEF CountWatch
  <2> QED BY <2>1, <2>2, <2>3, <2>4, ResumeStep, Zenon
<1>7. CASE UNCHANGED vars
  BY <1>7, Zenon
  DEF vars, QueueInv, TypeOK, CallsInPlace, PushesFit, Unstored, UnstoredOf,
      CountExact, InFlight, InFlightOf, Unraised, Reserved, NeverPanics
<1> QED
  BY <1>1, <1>2, <1>3, <1>4, <1>5, <1>6, <1>7, PushStep, EmplaceStep, RaiseStep,
     AcquireStep, NotifyStep, PopStep, Zenon
  DEF Next, Start, Continue

\* Queue: the count and the deque agree up to the calls in flight, and
\* pop_next_or_panic never panics, for any number of producers and consumers.
THEOREM QueueInvariant == Spec => []QueueInv
<1>1. Init => QueueInv
  <2> SUFFICES ASSUME Init PROVE QueueInv
    BY Zenon
  <2>1. /\ pending_count = NewWatch(0) /\ pending_items = 0 /\ pushed = 0
        /\ pc = [t \in Threads |-> "idle"] /\ call = [t \in Threads |-> NoCall]
    BY Zenon DEF Init
  <2>2. pending_count \in CountWatch /\ pending_count.value = 0
    BY <2>1, NewWatchType, Zenon DEF CountWatch
  <2>3. TypeOK
    BY <2>1, <2>2, QueueConstants
    DEF TypeOK, CountWatch, Labels, NoCall, CallOf, Operations
  <2>4. CallsInPlace
    BY <2>1, Zenon DEF CallsInPlace, NoCall, CallOf
  <2>5. \A t \in Threads : UnstoredOf[t] = 0 /\ InFlightOf[t] = 0
    BY <2>1 DEF UnstoredOf, InFlightOf, Unraised, Reserved
  <2>6. Unstored = 0 /\ InFlight = 0
    BY <2>3, <2>5, SumsType, TotalZero, Zenon DEF Unstored, InFlight
  <2>7. PushesFit /\ CountExact
    BY <2>1, <2>2, <2>6, QueueConstants DEF PushesFit, CountExact
  <2> QED BY <2>3, <2>4, <2>7, ReservedIsThere, Zenon DEF QueueInv
<1>2. QueueInv /\ [Next]_vars => QueueInv'
  BY QueueStep, Zenon
<1> QED BY <1>1, <1>2, PTL DEF Spec
=============================================================================
