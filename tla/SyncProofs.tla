----------------------------- MODULE SyncProofs -----------------------------
(* Theorems about the small synchronization objects: Mutex, for any set of *)
(* threads and any number of tickets; Latch, for any set of threads; and   *)
(* Pins, for any finite number of pins.                                    *)
EXTENDS Mutex, Latch, Pins, WatchFacts

Watch == WatchOf(Nat, {})

\* The watch operators stay within a watch of naturals that is never closed.
LEMMA WatchType ==
  ASSUME NEW w \in Watch, NEW t \in Threads, NEW v \in Nat, v # w.value,
         None \notin Nat
  PROVE  /\ Changed(w, t, v) \in Watch
         /\ Changed(w, t, v).value = v
         /\ Changed(w, t, v).outcome = w.outcome
         /\ Changed(w, t, v).notice[t] = v
         /\ \A u \in Threads \ {t} : Changed(w, t, v).notice[u] = w.notice[u]
BY Zenon DEF Watch, WatchOf, Changed

\* A notification clears the notice and wakes with what it said.
LEMMA NotifiedType ==
  ASSUME NEW w \in Watch, NEW t \in Threads, w.notice[t] # None
  PROVE  /\ Notified(w, t) \in Watch
         /\ Notified(w, t).value = w.value
         /\ Notified(w, t).notice[t] = None
         /\ \A u \in Threads \ {t} : Notified(w, t).notice[u] = w.notice[u]
         /\ \A u \in Threads : Notified(w, t).outcome[u]
                                 \in {w.outcome[u], w.notice[t]}
BY Zenon DEF Watch, WatchOf, Notified, WokenAll

\* Registering a handler tells nobody anything.
LEMMA RegisteredType ==
  ASSUME NEW w \in Watch, NEW t \in Threads
  PROVE  /\ Registered(w, t) \in Watch
         /\ Registered(w, t).value = w.value
         /\ Registered(w, t).notice = w.notice
         /\ Registered(w, t).outcome = w.outcome
BY Zenon DEF Watch, WatchOf, Registered

\* A handler that has been called is forgotten.
LEMMA HandledType ==
  ASSUME NEW w \in Watch, NEW t \in Threads
  PROVE  /\ Handled(w, t) \in Watch
         /\ Handled(w, t).value = w.value
         /\ Handled(w, t).notice = w.notice
         /\ \A u \in Threads : Handled(w, t).outcome[u] \in {w.outcome[u], None}
BY Zenon DEF Watch, WatchOf, Handled

\* acquire learns which ticket is being served, from the value itself or from
\* a wakeup.
LEMMA LearnStep ==
  ASSUME MutexInv, NEW t \in Threads, NEW v \in Nat,
         pc[t] \in {"load", "loop", "attach", "wait"},
         v <= current_ticket.value, Learn(t, v),
         UNCHANGED <<next_ticket, my_ticket>>,
         current_ticket' \in Watch,
         current_ticket'.value = current_ticket.value,
         current_ticket'.notice = current_ticket.notice,
         \A u \in Threads : current_ticket'.outcome[u]
                              \in {current_ticket.outcome[u], None}
  PROVE  MutexInv'
<1> USE DEF MutexInv
<1>1. /\ pc' = [pc EXCEPT ![t] = "loop"]
      /\ latest_ticket' = [latest_ticket EXCEPT ![t] = v]
  BY Zenon DEF Learn, Goto
<1>2. TypeOK'
  BY <1>1, Zenon DEF TypeOK, Labels, Watch
<1>3. TicketsInHand'
  BY <1>1 DEF TicketsInHand, Queueing, TypeOK
<1>4. TicketsLearned'
  BY <1>1, Zenon DEF TicketsLearned, TypeOK
<1> QED BY <1>2, <1>3, <1>4, Zenon

\* The invariant is inductive: every step of lock and release keeps it.
LEMMA MutexStep ==
  ASSUME MutexInv, [Next]_vars
  PROVE  MutexInv'
<1> USE MutexConstants
<1>w. current_ticket \in Watch
  BY Zenon DEF MutexInv, TypeOK, Watch
<1>v. current_ticket.value \in Nat
  BY <1>w, Zenon DEF Watch, WatchOf
<1>1. ASSUME NEW t \in Threads, DrawTicket(t)
      PROVE  MutexInv'
  <2>1. /\ pc[t] = "idle" /\ pc' = [pc EXCEPT ![t] = "load"]
        /\ my_ticket' = [my_ticket EXCEPT ![t] = next_ticket]
        /\ next_ticket' = next_ticket + 1
        /\ UNCHANGED <<current_ticket, latest_ticket>>
    BY <1>1, Zenon DEF DrawTicket, Goto
  <2>2. TypeOK'
    BY <2>1 DEF MutexInv, TypeOK, Labels
  <2>3. TicketsInHand'
    BY <2>1, <1>v DEF MutexInv, TicketsInHand, Queueing, TypeOK
  <2>4. TicketsLearned'
    BY <2>1, Zenon DEF MutexInv, TicketsLearned, TypeOK
  <2> QED BY <2>2, <2>3, <2>4, Zenon DEF MutexInv
<1>2. ASSUME NEW t \in Threads, LoadTicket(t)
      PROVE  MutexInv'
  BY <1>2, <1>w, <1>v, LearnStep DEF LoadTicket
<1>3. ASSUME NEW t \in Threads, AwaitTicket(t)
      PROVE  MutexInv'
  <2> DEFINE seen == FirstLook(current_ticket, latest_ticket[t])
  <2>1. seen # None => seen = current_ticket.value
    BY Zenon DEF FirstLook
  <2>2. CASE seen # None
    BY <1>3, <1>w, <1>v, <2>1, <2>2, LearnStep DEF AwaitTicket
  <2>3. CASE seen = None
    <3>1. /\ pc[t] = "loop" /\ pc' = [pc EXCEPT ![t] = "attach"]
          /\ UNCHANGED <<next_ticket, current_ticket, my_ticket, latest_ticket>>
      BY <1>3, <2>3, Zenon DEF AwaitTicket, Goto
    <3> QED
      BY <3>1 DEF MutexInv, TypeOK, Labels, TicketsInHand, TicketsLearned, Queueing
  <2> QED BY <2>2, <2>3, Zenon
<1>4. ASSUME NEW t \in Threads, AttachTicket(t)
      PROVE  MutexInv'
  <2> DEFINE seen == SecondLook(current_ticket, latest_ticket[t])
  <2>1. seen # None => seen = current_ticket.value
    BY <1>w, Zenon DEF SecondLook, Watch, WatchOf
  <2>2. CASE seen # None
    BY <1>4, <1>w, <1>v, <2>1, <2>2, LearnStep DEF AttachTicket
  <2>3. CASE seen = None
    <3>1. /\ pc[t] = "attach" /\ pc' = [pc EXCEPT ![t] = "wait"]
          /\ current_ticket' = Registered(current_ticket, t)
          /\ UNCHANGED <<next_ticket, my_ticket, latest_ticket>>
      BY <1>4, <2>3, Zenon DEF AttachTicket, Goto
    <3>2. /\ current_ticket' \in Watch
          /\ current_ticket'.value = current_ticket.value
          /\ current_ticket'.notice = current_ticket.notice
          /\ current_ticket'.outcome = current_ticket.outcome
      BY <3>1, <1>w, RegisteredType, Zenon
    <3>3. TypeOK'
      BY <3>1, <3>2, Zenon DEF MutexInv, TypeOK, Labels, Watch
    <3> QED
      BY <3>1, <3>2, <3>3
      DEF MutexInv, TypeOK, TicketsInHand, TicketsLearned, Queueing
  <2> QED BY <2>2, <2>3, Zenon
<1>5. ASSUME NEW t \in Threads, WakeUp(t)
      PROVE  MutexInv'
  <2>1. /\ current_ticket' = Handled(current_ticket, t)
        /\ current_ticket.outcome[t] # None
        /\ Learn(t, current_ticket.outcome[t])
        /\ pc[t] = "wait"
        /\ UNCHANGED <<next_ticket, my_ticket>>
    BY <1>5, Zenon DEF WakeUp
  <2>2. /\ current_ticket.outcome[t] \in Nat
        /\ current_ticket.outcome[t] <= current_ticket.value
    BY <2>1, <1>w, Zenon DEF MutexInv, TicketsLearned, Watch, WatchOf
  <2> QED BY <2>1, <2>2, <1>w, HandledType, LearnStep, Zenon
<1>6. ASSUME NEW t \in Threads, Enter(t)
      PROVE  MutexInv'
  <2>1. /\ pc[t] = "loop" /\ pc' = [pc EXCEPT ![t] = "held"]
        /\ ~(latest_ticket[t] < my_ticket[t])
        /\ UNCHANGED <<next_ticket, current_ticket, my_ticket, latest_ticket>>
    BY <1>6, Zenon DEF Enter, Goto, MustWait
  <2>2. my_ticket[t] = current_ticket.value
    BY <2>1, <1>v DEF MutexInv, TypeOK, TicketsInHand, TicketsLearned, Queueing
  <2> QED
    BY <2>1, <2>2
    DEF MutexInv, TypeOK, Labels, TicketsInHand, TicketsLearned, Queueing
<1>7. ASSUME NEW t \in Threads, Release(t)
      PROVE  MutexInv'
  <2>1. /\ pc[t] = "held" /\ pc' = [pc EXCEPT ![t] = "notify"]
        /\ current_ticket' = Changed(current_ticket, t, current_ticket.value + 1)
        /\ UNCHANGED <<next_ticket, my_ticket, latest_ticket>>
    BY <1>7, Zenon DEF Release, Goto, NextServed
  <2>2. /\ current_ticket' \in Watch
        /\ current_ticket'.value = current_ticket.value + 1
        /\ current_ticket'.outcome = current_ticket.outcome
        /\ current_ticket'.notice[t] = current_ticket.value + 1
        /\ \A u \in Threads \ {t} : current_ticket'.notice[u]
                                      = current_ticket.notice[u]
    BY <2>1, <1>w, <1>v, WatchType
  <2>3. TypeOK'
    BY <2>1, <2>2, Zenon DEF MutexInv, TypeOK, Labels, Watch
  <2>4. my_ticket[t] = current_ticket.value
    BY <2>1, Zenon DEF MutexInv, TicketsLearned
  <2>5. TicketsInHand'
    BY <2>1, <2>2, <2>4, <1>v DEF MutexInv, TypeOK, TicketsInHand, Queueing
  <2>6. TicketsLearned'
    <3> SUFFICES ASSUME NEW u \in Threads PROVE TicketsLearned!(u)'
      BY Zenon DEF TicketsLearned
    <3>1. CASE u = t
      BY <2>1, <2>2, <3>1, <1>v, <1>w, SMTT(30)
      DEF MutexInv, TypeOK, TicketsLearned, Watch, WatchOf
    <3>2. CASE u # t
      <4>1. pc'[u] = pc[u] /\ pc[u] # "held"
        BY <2>1, <2>4, <3>2
        DEF MutexInv, TypeOK, TicketsLearned, TicketsInHand, Queueing
      <4> QED
        BY <2>1, <2>2, <3>2, <4>1, <1>v, <1>w, SMTT(30)
        DEF MutexInv, TypeOK, TicketsLearned, Watch, WatchOf
    <3> QED BY <3>1, <3>2, Zenon
  <2> QED BY <2>3, <2>5, <2>6, Zenon DEF MutexInv
<1>8. ASSUME NEW t \in Threads, Announce(t)
      PROVE  MutexInv'
  <2>1. /\ pc[t] = "notify" /\ pc' = [pc EXCEPT ![t] = "released"]
        /\ current_ticket' = Notified(current_ticket, t)
        /\ UNCHANGED <<next_ticket, my_ticket, latest_ticket>>
    BY <1>8, Zenon DEF Announce, Announced, Goto
  <2>2. current_ticket.notice[t] # None
        /\ current_ticket.notice[t] <= current_ticket.value
    BY <2>1, Zenon DEF MutexInv, TicketsLearned
  <2>3. /\ current_ticket' \in Watch
        /\ current_ticket'.value = current_ticket.value
        /\ current_ticket'.notice[t] = None
        /\ \A u \in Threads \ {t} : current_ticket'.notice[u]
                                      = current_ticket.notice[u]
        /\ \A u \in Threads :
             current_ticket'.outcome[u]
               \in {current_ticket.outcome[u], current_ticket.notice[t]}
    BY <2>1, <2>2, <1>w, NotifiedType, Zenon
  <2>4. TypeOK'
    BY <2>1, <2>3, Zenon DEF MutexInv, TypeOK, Labels, Watch
  <2>5. TicketsInHand'
    BY <2>1, <2>3 DEF MutexInv, TypeOK, TicketsInHand, Queueing
  <2>6. TicketsLearned'
    BY <2>1, <2>2, <2>3, Zenon DEF MutexInv, TypeOK, TicketsLearned
  <2> QED BY <2>4, <2>5, <2>6, Zenon DEF MutexInv
<1>9. ASSUME NEW t \in Threads, Destroy(t)
      PROVE  MutexInv'
  BY <1>9
  DEF Destroy, Goto, MutexInv, TypeOK, Labels, TicketsInHand, TicketsLearned,
      Queueing
<1>10. CASE UNCHANGED vars
  BY <1>10, ZenonT(30)
  DEF vars, MutexInv, TypeOK, TicketsInHand, TicketsLearned, Queueing
<1> QED
  BY <1>1, <1>2, <1>3, <1>4, <1>5, <1>6, <1>7, <1>8, <1>9, <1>10, Zenon
  DEF Next, Continue

\* The inductive invariant of the ticket lock.
THEOREM MutexInvariant == Spec => []MutexInv
<1>1. Init => MutexInv
  BY MutexConstants
  DEF Init, MutexInv, TypeOK, Labels, NewWatch, WatchOf, TicketsInHand,
      TicketsLearned, Queueing
<1>2. MutexInv /\ [Next]_vars => MutexInv'
  BY MutexStep, Zenon
<1> QED BY <1>1, <1>2, PTL DEF Spec

\* Mutual exclusion: two lock holders would both have the ticket being
\* served, and tickets are handed out once.
THEOREM MutexSafe == Spec => []MutualExclusion
<1>1. MutexInv => MutualExclusion
  BY DEF MutexInv, TicketsInHand, TicketsLearned, MutualExclusion, Queueing
<1> QED BY <1>1, MutexInvariant, PTL

\* The BATT_CHECK_EQ at the end of acquire never fails: a thread is never
\* told a ticket beyond its own.
THEOREM TicketCheckSafe == Spec => []TicketCheck
<1>1. MutexInv => TicketCheck
  <2> SUFFICES ASSUME MutexInv, NEW t \in Threads, pc[t] = "loop", ~MustWait(t)
               PROVE  latest_ticket[t] = my_ticket[t]
    BY Zenon DEF TicketCheck
  <2>1. /\ current_ticket.value \in Nat
        /\ latest_ticket[t] <= current_ticket.value
        /\ current_ticket.value <= my_ticket[t]
    BY Zenon DEF MutexInv, TypeOK, WatchOf, TicketsInHand, TicketsLearned, Queueing
  <2> QED BY <2>1 DEF MutexInv, TypeOK, MustWait
<1> QED BY <1>1, MutexInvariant, PTL

-----------------------------------------------------------------------------
(* The refinement of FifoLock, without its fairness.                       *)

\* Append and Tail, as functions.
LEMMA AppendIs ==
  ASSUME NEW S, NEW q \in Seq(S), NEW x \in S
  PROVE  Append(q, x)
           = [i \in 1..(Len(q) + 1) |-> IF i = Len(q) + 1 THEN x ELSE q[i]]
<1> DEFINE a == Append(q, x)
<1>1. a \in Seq(S) /\ Len(a) = Len(q) + 1
  OBVIOUS
<1>2. \A i \in 1..(Len(q) + 1) : a[i] = IF i = Len(q) + 1 THEN x ELSE q[i]
  OBVIOUS
<1> HIDE DEF a
<1>3. a = [i \in 1..Len(a) |-> a[i]]
  BY <1>1
<1>4. a = [i \in 1..(Len(q) + 1) |-> a[i]]
  BY <1>1, <1>3, Zenon
<1> QED BY <1>2, <1>4, Zenon DEF a

LEMMA TailIs ==
  ASSUME NEW S, NEW q \in Seq(S), Len(q) # 0
  PROVE  Tail(q) = [i \in 1..(Len(q) - 1) |-> q[i + 1]]
<1> DEFINE a == Tail(q)
<1>1. q # <<>>
  OBVIOUS
<1>2. a \in Seq(S) /\ Len(a) = Len(q) - 1
  BY <1>1
<1>3. \A i \in 1..(Len(q) - 1) : a[i] = q[i + 1]
  BY <1>1
<1> HIDE DEF a
<1>4. a = [i \in 1..Len(a) |-> a[i]]
  BY <1>2
<1>5. a = [i \in 1..(Len(q) - 1) |-> a[i]]
  BY <1>2, <1>4, Zenon
<1> QED BY <1>3, <1>5, Zenon DEF a

\* Who holds a ticket changes only with the threads that hold it.
LEMMA HolderKept ==
  ASSUME NEW n,
         \A u \in Threads : (Queueing(u) /\ my_ticket[u] = n)'
                               <=> (Queueing(u) /\ my_ticket[u] = n)
  PROVE  HolderOf(n)' = HolderOf(n)
<1>1. OwnersOf(n)' = OwnersOf(n)
  BY Zenon DEF OwnersOf
<1> QED BY <1>1, Zenon DEF HolderOf

\* The queue is a sequence, as long as tickets are in hand.
LEMMA QueueIs ==
  ASSUME MutexInv
  PROVE  /\ current_ticket.value \in Nat /\ next_ticket \in Nat
         /\ current_ticket.value <= next_ticket
         /\ TicketQueue \in Seq(Threads \cup {None})
         /\ Len(TicketQueue) = next_ticket - current_ticket.value
<1>1. /\ current_ticket.value \in Nat /\ next_ticket \in Nat
      /\ current_ticket.value <= next_ticket
  BY Zenon DEF MutexInv, TypeOK, WatchOf, TicketsInHand
<1>2. next_ticket - current_ticket.value \in Nat
  BY <1>1
<1>3. \A n : HolderOf(n) \in Threads \cup {None}
  BY Zenon DEF HolderOf, OneOf, OwnersOf
<1> QED BY <1>1, <1>2, <1>3 DEF TicketQueue

\* A step that draws and serves no ticket leaves the queue as it is.
LEMMA QueueKept ==
  ASSUME UNCHANGED next_ticket, current_ticket'.value = current_ticket.value,
         \A n : HolderOf(n)' = HolderOf(n)
  PROVE  TicketQueue' = TicketQueue
BY Zenon DEF TicketQueue

\* Drawing a ticket appends the thread to the queue.
LEMMA DrawEnqueues ==
  ASSUME MutexInv, NEW t \in Threads, DrawTicket(t)
  PROVE  Fifo!Enqueue(t)
<1>1. /\ pc[t] = "idle" /\ pc' = [pc EXCEPT ![t] = "load"]
      /\ my_ticket' = [my_ticket EXCEPT ![t] = next_ticket]
      /\ next_ticket' = next_ticket + 1
      /\ UNCHANGED <<current_ticket, latest_ticket>>
      /\ pc \in [Threads -> Labels] /\ my_ticket \in [Threads -> Nat]
  BY Zenon DEF DrawTicket, Goto, MutexInv, TypeOK
<1>2. PICK low, len : low = current_ticket.value /\ len = next_ticket - low
  BY Zenon
<1>3. /\ low \in Nat /\ len \in Nat /\ next_ticket = low + len
      /\ TicketQueue \in Seq(Threads \cup {None}) /\ Len(TicketQueue) = len
  BY <1>2, QueueIs
<1>4. ASSUME NEW i \in 1..len
      PROVE  TicketQueue[i] # t /\ HolderOf(low + i - 1)' = TicketQueue[i]
  <2>1. low + i - 1 \in low..(next_ticket - 1) /\ low + i - 1 # next_ticket
    BY <1>3
  <2>2. TicketQueue[i] = HolderOf(low + i - 1)
    BY <1>2, <1>3, Zenon DEF TicketQueue
  <2>3. OwnersOf(low + i - 1) # {} /\ t \notin OwnersOf(low + i - 1)
    BY <1>1, <1>2, <2>1, Zenon DEF MutexInv, TicketsInHand, OwnersOf, Queueing
  <2>4. HolderOf(low + i - 1) # t
    BY <2>3, Zenon DEF HolderOf, OneOf
  <2>5. \A u \in Threads : (Queueing(u) /\ my_ticket[u] = low + i - 1)'
                              <=> (Queueing(u) /\ my_ticket[u] = low + i - 1)
    BY <1>1, <2>1, Zenon DEF Queueing
  <2> QED BY <2>2, <2>4, <2>5, HolderKept, Zenon
<1>5. HolderOf(low + len)' = t
  <2>1. \A u \in Threads : Queueing(u) => my_ticket[u] # low + len
    BY <1>3 DEF MutexInv, TypeOK, TicketsInHand
  <2>2. OwnersOf(low + len)' = {t}
    BY <1>1, <1>3, <2>1, Zenon DEF OwnersOf, Queueing
  <2> QED BY <2>2, Zenon DEF HolderOf, OneOf
<1>6. TicketQueue' = [i \in 1..(len + 1) |-> HolderOf(low + i - 1)']
  BY <1>1, <1>2, <1>3, SMTT(30) DEF TicketQueue
<1>7. TicketQueue' = Append(TicketQueue, t)
  <2>1. low + (len + 1) - 1 = low + len
    BY <1>3
  <2>2. HolderOf(low + (len + 1) - 1)' = t
    BY <1>5, <2>1, Zenon
  <2>3. \A i \in 1..(len + 1) :
          HolderOf(low + i - 1)' = IF i = len + 1 THEN t ELSE TicketQueue[i]
    BY <1>3, <1>4, <2>2
  <2>4. Append(TicketQueue, t)
          = [i \in 1..(len + 1) |-> IF i = len + 1 THEN t ELSE TicketQueue[i]]
    BY <1>3, AppendIs
  <2> QED BY <1>6, <2>3, <2>4, Zenon
<1>8. Held' = Held
  BY <1>1, Zenon DEF Held
<1> QED BY <1>3, <1>4, <1>7, <1>8, Zenon DEF Fifo!Enqueue

\* Releasing the lock takes its holder, the first of the queue, off it.
LEMMA ReleaseServes ==
  ASSUME MutexInv, NEW t \in Threads, Release(t)
  PROVE  Fifo!Release
<1>1. /\ pc[t] = "held" /\ pc' = [pc EXCEPT ![t] = "notify"]
      /\ UNCHANGED <<next_ticket, my_ticket>>
      /\ current_ticket' = Changed(current_ticket, t, current_ticket.value + 1)
      /\ current_ticket \in Watch
      /\ pc \in [Threads -> Labels] /\ my_ticket \in [Threads -> Nat]
  BY Zenon DEF Release, Goto, NextServed, MutexInv, TypeOK, Watch
<1>2. PICK low, len : low = current_ticket.value /\ len = next_ticket - low
  BY Zenon
<1>3. /\ low \in Nat /\ len \in Nat /\ next_ticket = low + len
      /\ TicketQueue \in Seq(Threads \cup {None}) /\ Len(TicketQueue) = len
  BY <1>2, QueueIs
<1>4. my_ticket[t] = low /\ len # 0
  BY <1>1, <1>2, <1>3 DEF MutexInv, TypeOK, TicketsInHand, TicketsLearned, Queueing
<1>5. current_ticket'.value = low + 1
  BY <1>1, <1>2, <1>3, Zenon DEF Changed, Watch, WatchOf
<1>6. Held /\ ~Held'
  <2>1. \A u \in Threads : pc[u] = "held" => u = t
    BY <1>1 DEF MutexInv, TicketsInHand, TicketsLearned, Queueing
  <2> QED BY <1>1, <2>1, Zenon DEF Held
<1>7. ASSUME NEW i \in 1..(len - 1)
      PROVE  HolderOf(low + 1 + i - 1)' = TicketQueue[i + 1]
  <2>1. i + 1 \in 1..len /\ low + 1 + i - 1 = low + (i + 1) - 1
        /\ low + (i + 1) - 1 # low
    BY <1>3
  <2>2. TicketQueue[i + 1] = HolderOf(low + (i + 1) - 1)
    BY <1>2, <2>1, Zenon DEF TicketQueue
  <2>3. \A u \in Threads : (Queueing(u) /\ my_ticket[u] = low + (i + 1) - 1)'
                              <=> (Queueing(u) /\ my_ticket[u] = low + (i + 1) - 1)
    BY <1>1, <1>4, <2>1, Zenon DEF Queueing
  <2> QED BY <2>1, <2>2, <2>3, HolderKept, Zenon
<1>8. TicketQueue' = [i \in 1..(len - 1) |-> HolderOf(low + 1 + i - 1)']
  <2>1. (next_ticket - current_ticket.value)' = len - 1
    BY <1>1, <1>3, <1>5
  <2> QED BY <1>5, <2>1, Zenon DEF TicketQueue
<1>9. Tail(TicketQueue) = [i \in 1..(len - 1) |-> TicketQueue[i + 1]]
  BY <1>3, <1>4, TailIs, Zenon
<1>10. TicketQueue' = Tail(TicketQueue)
  BY <1>7, <1>8, <1>9, Zenon
<1> QED BY <1>6, <1>10 DEF Fifo!Release

\* The loop of acquire is left only by the first of the queue, while nobody
\* holds the lock.
LEMMA EnterGrants ==
  ASSUME MutexInv, NEW t \in Threads, Enter(t)
  PROVE  Fifo!Grant
<1>1. /\ pc[t] = "loop" /\ pc' = [pc EXCEPT ![t] = "held"]
      /\ ~(latest_ticket[t] < my_ticket[t])
      /\ UNCHANGED <<next_ticket, current_ticket, my_ticket, latest_ticket>>
      /\ pc \in [Threads -> Labels]
  BY Zenon DEF Enter, Goto, MustWait, MutexInv, TypeOK
<1>2. /\ current_ticket.value \in Nat /\ next_ticket \in Nat
      /\ TicketQueue \in Seq(Threads \cup {None})
      /\ Len(TicketQueue) = next_ticket - current_ticket.value
  BY QueueIs, Zenon
<1>3. my_ticket[t] = current_ticket.value /\ my_ticket[t] < next_ticket
  BY <1>1, <1>2 DEF MutexInv, TypeOK, TicketsInHand, TicketsLearned, Queueing
<1>4. TicketQueue # << >>
  BY <1>2, <1>3
<1>5. ~Held
  BY <1>1, <1>3 DEF MutexInv, TicketsInHand, TicketsLearned, Held, Queueing
<1>6. Held'
  BY <1>1, Zenon DEF Held
<1>7. \A n : HolderOf(n)' = HolderOf(n)
  <2> SUFFICES ASSUME NEW n PROVE HolderOf(n)' = HolderOf(n)
    BY Zenon
  <2>1. \A u \in Threads : (Queueing(u) /\ my_ticket[u] = n)'
                              <=> (Queueing(u) /\ my_ticket[u] = n)
    BY <1>1, Zenon DEF Queueing
  <2> QED BY <2>1, HolderKept, Zenon
<1>8. TicketQueue' = TicketQueue
  BY <1>1, <1>7, QueueKept, Zenon
<1> QED BY <1>4, <1>5, <1>6, <1>8, Zenon DEF Fifo!Grant

\* All other steps of acquire, release and ~Lock leave the abstract lock alone.
LEMMA OthersStutter ==
  ASSUME MutexInv, NEW t \in Threads,
         \/ LoadTicket(t) \/ AwaitTicket(t) \/ AttachTicket(t) \/ WakeUp(t)
         \/ Announce(t) \/ Destroy(t)
  PROVE  UNCHANGED Fifo!vars
<1>1. current_ticket \in Watch
  BY Zenon DEF MutexInv, TypeOK, Watch
<1>2. /\ UNCHANGED <<next_ticket, my_ticket>>
      /\ \E l \in Labels \ {"held"} : /\ pc' = [pc EXCEPT ![t] = l]
                                      /\ Queueing(t)' <=> Queueing(t)
      /\ pc[t] # "held"
  BY Zenon DEF LoadTicket, AwaitTicket, AttachTicket, WakeUp, Announce, Destroy, Learn,
         Goto, Queueing, Labels, MutexInv, TypeOK
<1>3. current_ticket'.value = current_ticket.value
  <2>1. CASE Announce(t)
    <3>1. current_ticket.notice[t] # None
      BY <2>1, Zenon DEF Announce, MutexInv, TicketsLearned
    <3> QED BY <1>1, <2>1, <3>1, NotifiedType, Zenon DEF Announce, Announced
  <2>2. CASE ~Announce(t)
    BY <1>1, <2>2, RegisteredType, HandledType
    DEF LoadTicket, AwaitTicket, AttachTicket, WakeUp, Destroy
  <2> QED BY <2>1, <2>2, Zenon
<1>4. \A u \in Threads : (Queueing(u)' <=> Queueing(u)) /\ (pc'[u] = "held" <=> pc[u] = "held")
  BY <1>2, Zenon DEF Queueing, MutexInv, TypeOK
<1>5. \A n : HolderOf(n)' = HolderOf(n)
  <2> SUFFICES ASSUME NEW n PROVE HolderOf(n)' = HolderOf(n)
    BY Zenon
  <2>1. \A u \in Threads : (Queueing(u) /\ my_ticket[u] = n)'
                              <=> (Queueing(u) /\ my_ticket[u] = n)
    BY <1>2, <1>4, Zenon
  <2> QED BY <2>1, HolderKept, Zenon
<1>6. TicketQueue' = TicketQueue
  BY <1>2, <1>3, <1>5, QueueKept, Zenon
<1>7. Held' = Held
  BY <1>4, Zenon DEF Held
<1> QED BY <1>6, <1>7, Zenon DEF Fifo!vars

\* batt::Mutex implements a first-come, first-served lock: the tickets in hand
\* are its queue, in order, and acquire returns to the first of them only.
THEOREM MutexRefines == Spec => GrantsInOrder
<1>1. Init => Fifo!Init
  <2> SUFFICES ASSUME Init PROVE TicketQueue = << >> /\ Held = FALSE
    BY Zenon DEF Fifo!Init
  <2>1. next_ticket - current_ticket.value = 0
    BY DEF Init, NewWatch
  <2> QED BY <2>1 DEF Init, TicketQueue, Held
<1>2. MutexInv /\ [Next]_vars => [Fifo!Next]_(Fifo!vars)
  <2> SUFFICES ASSUME MutexInv, [Next]_vars PROVE [Fifo!Next]_(Fifo!vars)
    BY Zenon
  <2>1. CASE UNCHANGED vars
    <3>1. \A n : HolderOf(n)' = HolderOf(n)
      BY <2>1, HolderKept, Zenon DEF vars, Queueing
    <3> QED BY <2>1, <3>1, QueueKept, Zenon DEF vars, Held, Fifo!vars
  <2>2. CASE Next
    BY <2>2, DrawEnqueues, ReleaseServes, EnterGrants, OthersStutter, Zenon
    DEF Next, Continue, Fifo!Next
  <2> QED BY <2>1, <2>2, Zenon
<1> QED BY <1>1, <1>2, MutexInvariant, PTL DEF Spec, GrantsInOrder, Fifo!Safety

-----------------------------------------------------------------------------
(* batt::Latch.                                                            *)

LatchWatch == WatchOf(LatchStates, {"closed"})
LatchCallType ==
  [pc : {"idle", "claimed", "emplace", "publish", "ready", "look", "attach",
         "blocked", "take", "done"},
   op : {"none", "set", "await", "async_get", "poll", "invalidate"},
   seen : LatchStates, result : Seq(LatchResults)]

\* t is the only thread whose call moves.
LatchMoves(t) ==
  /\ \A u \in Threads \ {t} : latchCall'[u] = latchCall[u]
  /\ latchCall' \in [Threads -> LatchCallType]

\* The forms in which a call goes on.
LEMMA LatchGoes ==
  ASSUME LatchType, NEW t \in Threads,
         NEW l \in {"emplace", "publish", "ready", "attach", "blocked", "take"},
         LatchGoto(t, l)
  PROVE  /\ LatchMoves(t)
         /\ latchCall'[t].pc = l /\ latchCall'[t].op = latchCall[t].op
         /\ latchCall'[t].result = latchCall[t].result
BY Zenon DEF LatchMoves, LatchType, LatchCallType, LatchGoto

LEMMA LatchReturns ==
  ASSUME LatchType, NEW t \in Threads, NEW r \in Seq(LatchResults), LatchReturn(t, r)
  PROVE  /\ LatchMoves(t)
         /\ latchCall'[t].pc = "done" /\ latchCall'[t].op = latchCall[t].op
         /\ latchCall'[t].result = r
BY ZenonT(30) DEF LatchMoves, LatchType, LatchCallType, LatchReturn

LEMMA LatchBegins ==
  ASSUME LatchType, NEW t \in Threads,
         NEW op \in {"set", "await", "async_get", "poll", "invalidate"},
         NEW l \in {"claimed", "look", "take", "done"}, NEW x \in LatchStates,
         NEW r \in Seq(LatchResults),
         latchCall' = [latchCall EXCEPT ![t] = LatchCallAt(l, op, x, r)]
  PROVE  /\ LatchMoves(t)
         /\ latchCall'[t].pc = l /\ latchCall'[t].op = op
         /\ latchCall'[t].result = r
BY Zenon DEF LatchMoves, LatchType, LatchCallType, LatchCallAt

LEMMA LatchLoops ==
  ASSUME LatchType, NEW t \in Threads, NEW x \in LatchStates,
         latchCall' = [latchCall EXCEPT ![t].pc = "look", ![t].seen = x]
  PROVE  /\ LatchMoves(t)
         /\ latchCall'[t].pc = "look" /\ latchCall'[t].op = latchCall[t].op
         /\ latchCall'[t].result = latchCall[t].result
BY ZenonT(30) DEF LatchMoves, LatchType, LatchCallType

\* None is neither a state of the latch nor its final status.
LatchNone == None \notin LatchStates \cup {"closed"}

\* What a step of a reader t may end with.
LatchAnswered(t) ==
  latchCall'[t].pc = "done" =>
    /\ latchCall'[t].op \in {"await", "async_get"} =>
         \/ latchValue # <<>> /\ latchCall'[t].result = latchValue
         \/ LatchInvalidated' /\ latchCall'[t].result = <<"closed">>
    /\ latchCall'[t].op = "poll" =>
         \/ latchValue # <<>> /\ latchCall'[t].result = latchValue
         \/ latchCall'[t].result = <<"unavailable">>

\* A step of a reader, or of invalidate: the state and the value stay.
LEMMA LatchReaderKeeps ==
  ASSUME LatchInv, NEW t \in Threads, LatchMoves(t), UNCHANGED latchValue,
         latchState' \in LatchWatch, latchState'.value = latchState.value,
         latchState'.notice = latchState.notice,
         LatchInvalidated => LatchInvalidated',
         LatchNone, \A u \in Threads :
           \/ latchState'.outcome[u] \in {latchState.outcome[u], None}
           \/ latchState'.outcome[u] = "closed" /\ LatchInvalidated',
         latchCall[t].op # "set", latchCall'[t].op # "set",
         latchCall'[t].pc \in {"look", "attach", "blocked", "take", "done"},
         latchCall'[t].pc \in {"look", "attach", "blocked"} =>
           latchCall'[t].op \in {"await", "async_get"},
         latchCall'[t].pc = "take" =>
           /\ latchCall'[t].op \in {"await", "async_get", "poll"}
           /\ latchState.value = kReady,
         LatchAnswered(t)
  PROVE  LatchInv'
<1>1. LatchType'
  BY Zenon DEF LatchInv, LatchType, LatchMoves, LatchWatch, LatchCallType
<1>2. LatchCalls'
  BY DEF LatchInv, LatchCalls, LatchAt, LatchMoves
<1>3. \A u \in Threads : LatchWon(u)' <=> LatchWon(u)
  BY Zenon DEF LatchWon, LatchMoves
<1>4. LatchSetOnce'
  BY <1>3, Zenon DEF LatchInv, LatchSetOnce, LatchMoves
<1>5. LatchHeard'
  BY Zenon DEF LatchInv, LatchHeard, LatchAt, LatchMoves, LatchNone, LatchStates, kReady, kInitial, kSetting
<1>6. ASSUME NEW u \in Threads
      PROVE  /\ latchCall'[u].op \in {"await", "async_get"} /\ LatchAt(u, "done")' =>
                  \/ \E s \in Threads : LatchWon(s)' /\ latchCall'[u].result = <<s>>
                  \/ LatchInvalidated' /\ latchCall'[u].result = <<"closed">>
             /\ latchCall'[u].op = "poll" /\ LatchAt(u, "done")' =>
                  \/ \E s \in Threads : LatchWon(s)' /\ latchCall'[u].result = <<s>>
                  \/ latchCall'[u].result = <<"unavailable">>
  <2>1. CASE u = t
    <3>1. latchValue # <<>> => \E s \in Threads : LatchWon(s)' /\ latchValue = <<s>>
      BY <1>3, Zenon DEF LatchInv, LatchSetOnce
    <3> QED BY <2>1, <3>1, Zenon DEF LatchAnswered, LatchAt
  <2>2. CASE u # t
    <3>1. latchCall'[u] = latchCall[u] /\ (LatchAt(u, "done")' <=> LatchAt(u, "done"))
      BY <2>2, Zenon DEF LatchMoves, LatchAt
    <3> QED BY <1>3, <3>1 DEF LatchInv, LatchAgrees
  <2> QED BY <2>1, <2>2, Zenon
<1>7. LatchAgrees'
  BY <1>4, <1>6, Zenon DEF LatchAgrees, LatchSetOnce
<1> QED BY <1>1, <1>2, <1>4, <1>5, <1>7, Zenon DEF LatchInv

\* A waiter is called with r, a state that the latch had, or with the close.
LEMMA LatchHandleKeeps ==
  ASSUME LatchInv, LatchNone, NEW t \in Threads,
         latchCall[t].pc \in {"look", "attach", "blocked"},
         NEW r \in LatchStates \cup {"closed"}, LatchHandle(t, r),
         r = kReady => latchState.value = kReady,
         r = "closed" => LatchInvalidated, UNCHANGED latchValue,
         latchState' \in LatchWatch, latchState'.value = latchState.value,
         latchState'.notice = latchState.notice, latchState'.final = latchState.final,
         \A u \in Threads : latchState'.outcome[u] \in {latchState.outcome[u], None}
  PROVE  LatchInv'
<1>1. LatchType /\ latchCall[t].op \in {"await", "async_get"}
  BY Zenon DEF LatchInv, LatchCalls
<1>2. LatchInvalidated <=> LatchInvalidated'
  BY Zenon DEF LatchInvalidated
<1>3. CASE r = "closed"
  <2>1. LatchReturn(t, <<"closed">>) /\ <<"closed">> \in Seq(LatchResults)
    BY <1>3 DEF LatchHandle, LatchResults
  <2>2. /\ LatchMoves(t)
        /\ latchCall'[t].pc = "done" /\ latchCall'[t].op = latchCall[t].op
        /\ latchCall'[t].result = <<"closed">>
    BY <1>1, <2>1, LatchReturns, Zenon
  <2>3. LatchAnswered(t)
    BY <1>1, <1>2, <1>3, <2>2, Zenon DEF LatchAnswered
  <2> QED BY <1>1, <1>2, <2>2, <2>3, LatchReaderKeeps, Zenon
<1>4. CASE r = kReady
  <2>1. LatchGoto(t, "take")
    BY <1>4, Zenon DEF LatchHandle, kReady
  <2>2. /\ LatchMoves(t)
        /\ latchCall'[t].pc = "take" /\ latchCall'[t].op = latchCall[t].op
    BY <1>1, <2>1, LatchGoes, Zenon
  <2>3. LatchAnswered(t)
    BY <2>2, Zenon DEF LatchAnswered
  <2> QED BY <1>1, <1>2, <1>4, <2>2, <2>3, LatchReaderKeeps, Zenon
<1>5. CASE r \notin {"closed", kReady}
  <2>1. /\ r \in LatchStates
        /\ latchCall' = [latchCall EXCEPT ![t].pc = "look", ![t].seen = r]
    BY <1>5, Zenon DEF LatchHandle
  <2>2. /\ LatchMoves(t)
        /\ latchCall'[t].pc = "look" /\ latchCall'[t].op = latchCall[t].op
    BY <1>1, <2>1, LatchLoops, Zenon
  <2>3. LatchAnswered(t)
    BY <2>2, Zenon DEF LatchAnswered
  <2> QED BY <1>1, <1>2, <2>2, <2>3, LatchReaderKeeps, Zenon
<1> QED BY <1>3, <1>4, <1>5, Zenon

\* The step with which a read begins.
LEMMA LatchReadKeeps ==
  ASSUME LatchInv, LatchNone, NEW t \in Threads,
         LatchAwait(t) \/ LatchAsyncGet(t) \/ LatchPoll(t)
  PROVE  LatchInv'
<1>1. /\ LatchType /\ latchCall[t].op = "none" /\ UNCHANGED <<latchState, latchValue>>
      /\ latchState \in LatchWatch /\ latchState.value \in LatchStates
  BY Zenon DEF LatchInv, LatchCalls, LatchAwait, LatchAsyncGet, LatchPoll, LatchType, LatchWatch, WatchOf
<1>2. LatchInvalidated <=> LatchInvalidated'
  BY <1>1, Zenon DEF LatchInvalidated
<1>3. /\ kInitial \in LatchStates /\ kReady \in LatchStates
      /\ <<>> \in Seq(LatchResults) /\ <<"unavailable">> \in Seq(LatchResults)
  BY DEF LatchStates, LatchResults
<1>4. ASSUME NEW op \in {"await", "async_get", "poll"}, NEW l \in {"look", "take"},
             NEW x \in LatchStates, LatchBegin(t, op, l, x),
             l = "look" => op # "poll", l = "take" => latchState.value = kReady
      PROVE  LatchInv'
  <2>1. /\ LatchMoves(t) /\ latchCall'[t].pc = l /\ latchCall'[t].op = op
    BY <1>1, <1>3, <1>4, LatchBegins, ZenonT(30) DEF LatchBegin
  <2>2. LatchAnswered(t)
    BY <2>1, Zenon DEF LatchAnswered
  <2> QED BY <1>1, <1>2, <1>4, <2>1, <2>2, LatchReaderKeeps, ZenonT(30)
<1>5. CASE LatchAwait(t)
  BY <1>1, <1>4, <1>5, Zenon DEF LatchAwait
<1>6. CASE LatchAsyncGet(t)
  BY <1>3, <1>4, <1>6, Zenon DEF LatchAsyncGet
<1>7. CASE LatchPoll(t) /\ latchState.value = kReady
  BY <1>3, <1>4, <1>7, Zenon DEF LatchPoll
<1>8. CASE LatchPoll(t) /\ latchState.value # kReady
  <2>1. latchCall' = [latchCall EXCEPT ![t] =
                        LatchCallAt("done", "poll", kInitial, <<"unavailable">>)]
    BY <1>8, Zenon DEF LatchPoll
  <2>2. /\ LatchMoves(t) /\ latchCall'[t].pc = "done" /\ latchCall'[t].op = "poll"
        /\ latchCall'[t].result = <<"unavailable">>
    <3>1. ASSUME NEW r \in Seq(LatchResults),
                 latchCall' = [latchCall EXCEPT ![t] = LatchCallAt("done", "poll", kInitial, r)]
          PROVE  /\ LatchMoves(t) /\ latchCall'[t].pc = "done" /\ latchCall'[t].op = "poll"
                 /\ latchCall'[t].result = r
      <4>1. LatchType /\ kInitial \in LatchStates
        BY <1>1, <1>3, Zenon
      <4> QED BY <3>1, <4>1, LatchBegins, ZenonT(30)
    <3> QED BY <1>3, <2>1, <3>1, Zenon
  <2>3. LatchAnswered(t)
    BY <2>2, Zenon DEF LatchAnswered
  <2> QED BY <1>1, <1>2, <2>2, <2>3, LatchReaderKeeps, Zenon
<1> QED BY <1>5, <1>6, <1>7, <1>8, Zenon

\* The steps of a wait.
LEMMA LatchWaitKeeps ==
  ASSUME LatchInv, LatchNone, NEW t \in Threads,
         LatchLook(t) \/ LatchAttach(t) \/ LatchWakeUp(t)
  PROVE  LatchInv'
<1>1. /\ LatchType /\ latchCall[t].op \in {"await", "async_get"}
      /\ latchCall[t].pc \in {"look", "attach", "blocked"}
      /\ UNCHANGED latchValue
      /\ latchState \in LatchWatch /\ latchState.value \in LatchStates
      /\ latchState.final \in {"closed", None}
      /\ latchState.outcome[t] \in LatchStates \cup {"closed", None}
  BY Zenon DEF LatchInv, LatchCalls, LatchLook, LatchAttach, LatchWakeUp, LatchAt, LatchType, LatchWatch, WatchOf
<1>2. ASSUME NEW l \in {"attach", "blocked"}, LatchGoto(t, l),
             latchState' \in LatchWatch, latchState'.value = latchState.value,
             latchState'.notice = latchState.notice,
             latchState'.final = latchState.final,
             latchState'.outcome = latchState.outcome
      PROVE  LatchInv'
  <2>1. /\ LatchMoves(t) /\ latchCall'[t].pc = l /\ latchCall'[t].op = latchCall[t].op
    BY <1>1, <1>2, LatchGoes, Zenon
  <2>2. LatchAnswered(t) /\ (LatchInvalidated <=> LatchInvalidated')
    BY <1>2, <2>1, Zenon DEF LatchAnswered, LatchInvalidated
  <2> QED BY <1>1, <1>2, <2>1, <2>2, LatchReaderKeeps, Zenon
<1>3. CASE LatchLook(t) /\ FirstLook(latchState, latchCall[t].seen) = None
  BY <1>1, <1>2, <1>3, Zenon DEF LatchLook
<1>4. CASE LatchLook(t) /\ FirstLook(latchState, latchCall[t].seen) # None
  <2>1. LatchHandle(t, latchState.value) /\ UNCHANGED latchState
    BY <1>4, Zenon DEF LatchLook, FirstLook
  <2>2. latchState.value # "closed"
    BY <1>1, Zenon DEF LatchStates, kInitial, kSetting, kReady
  <2> QED BY <1>1, <2>1, <2>2, LatchHandleKeeps, Zenon
<1>5. CASE LatchAttach(t) /\ SecondLook(latchState, latchCall[t].seen) = None
  <2>1. latchState' = Registered(latchState, t) /\ LatchGoto(t, "blocked")
    BY <1>5, Zenon DEF LatchAttach
  <2>2. /\ latchState' \in LatchWatch /\ latchState'.value = latchState.value
        /\ latchState'.notice = latchState.notice
        /\ latchState'.final = latchState.final
        /\ latchState'.outcome = latchState.outcome
    BY <1>1, <2>1, RegisteredWatch DEF LatchWatch
  <2> QED BY <1>2, <2>1, <2>2, Zenon
<1>6. CASE LatchAttach(t) /\ SecondLook(latchState, latchCall[t].seen) # None
  <2>1. PICK r \in {latchState.value, latchState.final} :
          /\ LatchHandle(t, r) /\ UNCHANGED latchState /\ r # None
    BY <1>6, Zenon DEF LatchAttach, SecondLook
  <2>2. latchState.value # "closed" /\ latchState.final # kReady
    BY <1>1, Zenon DEF LatchStates, kInitial, kSetting, kReady, LatchNone
  <2>3. r = "closed" => LatchInvalidated
    BY <2>1, <2>2, Zenon DEF LatchInvalidated
  <2> QED BY <1>1, <2>1, <2>2, <2>3, LatchHandleKeeps, Zenon
<1>7. CASE LatchWakeUp(t)
  <2>1. /\ LatchHandle(t, latchState.outcome[t]) /\ latchState.outcome[t] # None
        /\ latchState' = Handled(latchState, t)
    BY <1>7, Zenon DEF LatchWakeUp
  <2>2. /\ latchState' \in LatchWatch /\ latchState'.value = latchState.value
        /\ latchState'.notice = latchState.notice
        /\ latchState'.final = latchState.final
        /\ \A u \in Threads : latchState'.outcome[u] \in {latchState.outcome[u], None}
    BY <1>1, <2>1, HandledWatch DEF LatchWatch
  <2>3. /\ latchState.outcome[t] = kReady => latchState.value = kReady
        /\ latchState.outcome[t] = "closed" => LatchInvalidated
    BY Zenon DEF LatchInv, LatchHeard
  <2> QED BY <1>1, <2>1, <2>2, <2>3, LatchHandleKeeps, Zenon
<1> QED BY <1>3, <1>4, <1>5, <1>6, <1>7, Zenon

\* The last step of a read that heard of kReady.
LEMMA LatchTakeKeeps ==
  ASSUME LatchInv, LatchNone, NEW t \in Threads, LatchTake(t)
  PROVE  LatchInv'
<1>1. /\ LatchType /\ latchCall[t].op \in {"await", "async_get", "poll"}
      /\ UNCHANGED <<latchState, latchValue>>
      /\ latchState \in LatchWatch
      /\ latchState.value = kReady /\ latchValue # <<>>
  BY Zenon DEF LatchInv, LatchCalls, LatchTake, LatchAt, LatchType, LatchWatch, LatchHeard, LatchSetOnce
<1>2. LatchReturn(t, latchValue)
  BY <1>1, Zenon DEF LatchTake
<1>3. latchValue \in Seq(LatchResults)
  BY <1>1 DEF LatchType, LatchResults
<1>4. /\ LatchMoves(t) /\ latchCall'[t].pc = "done" /\ latchCall'[t].op = latchCall[t].op
      /\ latchCall'[t].result = latchValue
  BY <1>1, <1>2, <1>3, LatchReturns, Zenon
<1>5. LatchAnswered(t) /\ (LatchInvalidated <=> LatchInvalidated')
  BY <1>1, <1>4, Zenon DEF LatchAnswered, LatchInvalidated
<1> QED BY <1>1, <1>4, <1>5, LatchReaderKeeps, Zenon

LEMMA LatchInvalidateKeeps ==
  ASSUME LatchInv, LatchNone, NEW t \in Threads, LatchInvalidate(t)
  PROVE  LatchInv'
<1>1. /\ LatchType /\ latchCall[t].op = "none" /\ UNCHANGED latchValue
      /\ latchState \in LatchWatch /\ latchState' = Closed(latchState, "closed")
  BY Zenon DEF LatchInv, LatchCalls, LatchInvalidate, LatchType, LatchWatch
<1>2. /\ latchState' \in LatchWatch /\ latchState'.value = latchState.value
      /\ latchState'.notice = latchState.notice
      /\ latchState'.final = IF latchState.final = None THEN "closed" ELSE latchState.final
      /\ \A u \in Threads : latchState'.outcome[u] \in {latchState.outcome[u], "closed"}
  BY <1>1, ClosedWatch DEF LatchWatch
<1>3. LatchInvalidated'
  BY <1>2, Zenon DEF LatchInvalidated, LatchNone
<1>4. kInitial \in LatchStates /\ <<>> \in Seq(LatchResults)
  BY DEF LatchStates
<1>5. /\ LatchMoves(t) /\ latchCall'[t].pc = "done" /\ latchCall'[t].op = "invalidate"
  BY <1>1, <1>4, LatchBegins, ZenonT(30) DEF LatchInvalidate
<1>6. LatchAnswered(t)
  BY <1>5, Zenon DEF LatchAnswered
<1> QED BY <1>1, <1>2, <1>3, <1>5, <1>6, LatchReaderKeeps, Zenon

-----------------------------------------------------------------------------
\* A step of a call of set_value: no state but kReady is for good, and what is
\* announced was so when it was changed.
LEMMA LatchSetterKeeps ==
  ASSUME LatchInv, LatchNone, NEW t \in Threads, LatchMoves(t),
         latchState' \in LatchWatch, latchState'.final = latchState.final,
         latchValue' \in Seq(Threads),
         latchState.value = kReady => latchState'.value = kReady,
         \A u \in Threads :
           /\ latchState'.outcome[u] \in {latchState.outcome[u], latchState.notice[t]}
           /\ latchState'.notice[u] \in {latchState.notice[u], None, latchState'.value},
         latchCall'[t].op = "set",
         latchCall'[t].pc \in {"claimed", "emplace", "publish", "ready", "done"},
         latchCall'[t].pc # "done" => latchCall'[t].result = <<>>,
         LatchWon(t) => LatchWon(t)', LatchSetOnce'
  PROVE  LatchInv'
<1>1. LatchType'
  BY Zenon DEF LatchInv, LatchType, LatchMoves, LatchWatch, LatchCallType
<1>2. LatchCalls'
  BY DEF LatchInv, LatchCalls, LatchAt, LatchMoves
<1>3. \A u \in Threads : LatchWon(u) => LatchWon(u)'
  BY Zenon DEF LatchWon, LatchMoves
<1>4. latchState.notice[t] # "closed"
  BY ZenonT(30) DEF LatchInv, LatchType, WatchOf, LatchNone, LatchStates, kReady, kInitial, kSetting
<1>5. LatchHeard'
  BY <1>4, Zenon DEF LatchInv, LatchHeard, LatchAt, LatchMoves, LatchNone, LatchStates, kReady,
              kInitial, kSetting, LatchInvalidated
<1>6. ASSUME NEW u \in Threads, LatchAt(u, "done")', latchCall'[u].op # "set"
      PROVE  /\ u # t /\ latchCall'[u] = latchCall[u] /\ LatchAt(u, "done")
             /\ LatchInvalidated' <=> LatchInvalidated
  BY <1>6, Zenon DEF LatchMoves, LatchAt, LatchInvalidated
<1>7. LatchAgrees'
  BY <1>3, <1>6 DEF LatchInv, LatchAgrees, LatchSetOnce
<1> QED BY <1>1, <1>2, <1>5, <1>7, Zenon DEF LatchInv

LEMMA LatchClaimKeeps ==
  ASSUME LatchInv, LatchNone, NEW t \in Threads, LatchClaim(t)
  PROVE  LatchInv'
<1>1. /\ LatchType /\ latchCall[t].op = "none" /\ UNCHANGED latchValue
      /\ latchState \in LatchWatch /\ latchState.value \in LatchStates
      /\ latchState' = Changed(latchState, t, OrSetting(latchState.value))
      /\ latchValue' \in Seq(Threads)
  BY Zenon DEF LatchInv, LatchCalls, LatchClaim, LatchType, LatchWatch, WatchOf
<1>2. /\ OrSetting(latchState.value) \in LatchStates
      /\ OrSetting(latchState.value) # kInitial
      /\ latchState.value # kInitial => OrSetting(latchState.value) = latchState.value
      /\ latchState.value = kInitial => OrSetting(latchState.value) = kSetting
      /\ kSetting # kReady /\ kInitial # kReady /\ kInitial \in LatchStates
      /\ <<>> \in Seq(LatchResults) /\ <<"false">> \in Seq(LatchResults)
  BY <1>1 DEF OrSetting, LatchStates, LatchResults, kInitial, kSetting, kReady
<1>3. /\ latchState' \in LatchWatch /\ latchState'.value = OrSetting(latchState.value)
      /\ latchState'.final = latchState.final
      /\ \A u \in Threads :
           /\ latchState'.outcome[u] = latchState.outcome[u]
           /\ latchState'.notice[u] \in {latchState.notice[u], None, latchState'.value}
  <2>1. ASSUME NEW x \in LatchStates, latchState' = Changed(latchState, t, x)
        PROVE  /\ latchState' \in LatchWatch /\ latchState'.value = x
               /\ latchState'.final = latchState.final
               /\ \A u \in Threads :
                    /\ latchState'.outcome[u] = latchState.outcome[u]
                    /\ latchState'.notice[u] \in {latchState.notice[u], None, x}
    BY <1>1, <2>1, ChangedWatch, SMTT(30) DEF LatchWatch
  <2> QED BY <1>1, <1>2, <2>1, Zenon
<1>4. ~ LatchWon(t)
  BY <1>1, Zenon DEF LatchWon
<1>5. CASE latchState.value = kInitial
  <2>1. LatchBegin(t, "set", "claimed", kInitial)
    BY <1>5, Zenon DEF LatchClaim
  <2>2. /\ LatchMoves(t) /\ latchCall'[t].pc = "claimed" /\ latchCall'[t].op = "set"
        /\ latchCall'[t].result = <<>>
    <3>1. LatchType /\ kInitial \in LatchStates /\ <<>> \in Seq(LatchResults)
      BY <1>1, <1>2, Zenon
    <3> QED BY <2>1, <3>1, LatchBegins, ZenonT(30) DEF LatchBegin
  <2>3. \A u \in Threads : ~ LatchWon(u)
    BY <1>5, Zenon DEF LatchInv, LatchSetOnce
  <2>4. \A u \in Threads : LatchWon(u)' => u = t
    BY <2>2, <2>3, Zenon DEF LatchWon, LatchMoves
  <2>5. latchValue = <<>>
    BY <2>3, Zenon DEF LatchInv, LatchSetOnce
  <2>6. \A u \in Threads : latchCall'[u].pc \notin {"publish", "ready"}
    BY <2>2, <2>5, Zenon DEF LatchInv, LatchSetOnce, LatchMoves
  <2>7. LatchSetOnce'
    BY <1>1, <1>2, <1>3, <1>5, <2>4, <2>5, <2>6, Zenon DEF LatchSetOnce
  <2> QED BY <1>1, <1>2, <1>3, <1>4, <1>5, <2>2, <2>7, LatchSetterKeeps, Zenon
<1>6. CASE latchState.value # kInitial
  <2>1. latchCall' = [latchCall EXCEPT ![t] = LatchCallAt("done", "set", kInitial, <<"false">>)]
    BY <1>6, Zenon DEF LatchClaim
  <2>2. /\ LatchMoves(t) /\ latchCall'[t].pc = "done" /\ latchCall'[t].op = "set"
        /\ latchCall'[t].result = <<"false">>
    <3>1. ASSUME NEW r \in Seq(LatchResults),
                 latchCall' = [latchCall EXCEPT ![t] = LatchCallAt("done", "set", kInitial, r)]
          PROVE  /\ LatchMoves(t) /\ latchCall'[t].pc = "done" /\ latchCall'[t].op = "set"
                 /\ latchCall'[t].result = r
      <4>1. LatchType /\ kInitial \in LatchStates
        BY <1>1, <1>2, Zenon
      <4> QED BY <3>1, <4>1, LatchBegins, ZenonT(30)
    <3> QED BY <1>2, <2>1, <3>1, Zenon
  <2>3. \A u \in Threads : LatchWon(u)' <=> LatchWon(u)
    BY <1>4, <2>2, Zenon DEF LatchWon, LatchMoves
  <2>4. latchState'.value = latchState.value
    BY <1>2, <1>3, <1>6, Zenon
  <2>5. LatchSetOnce'
    BY <1>1, <2>2, <2>3, <2>4, Zenon DEF LatchInv, LatchSetOnce, LatchMoves
  <2> QED BY <1>1, <1>3, <1>4, <2>2, <2>4, <2>5, LatchSetterKeeps, Zenon
<1> QED BY <1>5, <1>6, Zenon

LEMMA LatchAnnounceKeeps ==
  ASSUME LatchInv, LatchNone, NEW t \in Threads, LatchAnnounce(t)
  PROVE  LatchInv'
<1>1. /\ LatchType /\ latchCall[t].op = "set" /\ latchCall[t].result = <<>>
      /\ UNCHANGED latchValue
      /\ latchState \in LatchWatch /\ latchState' = Notified(latchState, t)
      /\ latchValue' \in Seq(Threads)
  BY Zenon DEF LatchInv, LatchCalls, LatchAnnounce, LatchType, LatchWatch, LatchAt
<1>2. /\ latchState' \in LatchWatch /\ latchState'.value = latchState.value
      /\ latchState'.final = latchState.final
      /\ \A u \in Threads :
           /\ latchState'.outcome[u] \in {latchState.outcome[u], latchState.notice[t]}
           /\ latchState'.notice[u] \in {latchState.notice[u], None}
  BY <1>1, NotifiedWatch DEF LatchWatch
<1>3. <<"true">> \in Seq(LatchResults) /\ <<>> # <<"false">> /\ <<"true">> # <<"false">>
  BY DEF LatchResults
<1>4. /\ LatchMoves(t) /\ latchCall'[t].op = "set"
      /\ \/ latchCall'[t].pc = "emplace" /\ latchCall'[t].result = <<>>
         \/ LatchAt(t, "ready") /\ latchCall'[t].pc = "done" /\ latchCall'[t].result = <<"true">>
  <2>1. CASE LatchAt(t, "claimed") /\ LatchGoto(t, "emplace")
    BY <1>1, <2>1, LatchGoes, Zenon
  <2>2. CASE LatchAt(t, "ready") /\ LatchReturn(t, <<"true">>)
    <3>1. ASSUME NEW r \in Seq(LatchResults), LatchReturn(t, r)
          PROVE  /\ LatchMoves(t) /\ latchCall'[t].pc = "done"
                 /\ latchCall'[t].op = "set" /\ latchCall'[t].result = r
      BY <1>1, <3>1, LatchReturns, Zenon
    <3> QED BY <1>3, <2>2, <3>1, Zenon
  <2> QED BY <2>1, <2>2, Zenon DEF LatchAnnounce
<1>5. \A u \in Threads : LatchWon(u)' <=> LatchWon(u)
  BY <1>1, <1>3, <1>4, Zenon DEF LatchWon, LatchMoves
<1>6. LatchSetOnce'
  BY <1>1, <1>2, <1>4, <1>5, Zenon DEF LatchInv, LatchSetOnce, LatchMoves
<1> QED BY <1>1, <1>2, <1>4, <1>5, <1>6, LatchSetterKeeps, Zenon

LEMMA LatchStoreKeeps ==
  ASSUME LatchInv, LatchNone, NEW t \in Threads, LatchEmplace(t) \/ LatchPublish(t)
  PROVE  LatchInv'
<1>1. /\ LatchType /\ latchCall[t].op = "set" /\ latchCall[t].result = <<>>
      /\ latchState \in LatchWatch /\ latchState.value \in LatchStates
  BY Zenon DEF LatchInv, LatchCalls, LatchEmplace, LatchPublish, LatchType, LatchWatch, LatchAt, WatchOf
<1>2. latchValue' \in Seq(Threads)
  <2>1. latchValue \in Seq(Threads)
    BY <1>1, Zenon DEF LatchType
  <2>2. latchValue' = <<t>> \/ latchValue' = latchValue
    BY Zenon DEF LatchEmplace, LatchPublish
  <2>3. <<t>> \in Seq(Threads)
    OBVIOUS
  <2> QED BY <2>1, <2>2, <2>3, Zenon
<1>3. kReady \in LatchStates /\ kReady # kInitial
  BY Zenon DEF LatchStates, kReady, kInitial
<1>4. LatchWon(t) /\ <<>> # <<"false">>
  BY <1>1 DEF LatchWon
<1>5. /\ LatchMoves(t) /\ latchCall'[t].op = "set" /\ latchCall'[t].result = <<>>
      /\ latchCall'[t].pc \in {"publish", "ready"}
  <2>1. CASE LatchGoto(t, "publish")
    BY <1>1, <2>1, LatchGoes, Zenon
  <2>2. CASE LatchGoto(t, "ready")
    BY <1>1, <2>2, LatchGoes, Zenon
  <2> QED BY <2>1, <2>2, Zenon DEF LatchEmplace, LatchPublish
<1>6. \A u \in Threads : LatchWon(u)' <=> LatchWon(u)
  BY <1>1, <1>4, <1>5, Zenon DEF LatchWon, LatchMoves
<1>7. CASE LatchEmplace(t)
  <2>1. latchValue' = <<t>> /\ UNCHANGED latchState /\ <<t>> # <<>>
    BY <1>7, Zenon DEF LatchEmplace
  <2>2. LatchSetOnce'
    BY <1>4, <1>6, <2>1, Zenon DEF LatchInv, LatchSetOnce
  <2> QED BY <1>1, <1>2, <1>5, <1>6, <2>1, <2>2, LatchSetterKeeps, Zenon
<1>8. CASE LatchPublish(t)
  <2>1. /\ UNCHANGED latchValue /\ latchState' = Changed(latchState, t, kReady)
        /\ LatchAt(t, "publish")
    BY <1>8, Zenon DEF LatchPublish
  <2>2. /\ latchState' \in LatchWatch /\ latchState'.value = kReady
        /\ latchState'.final = latchState.final
        /\ \A u \in Threads :
             /\ latchState'.outcome[u] = latchState.outcome[u]
             /\ latchState'.notice[u] \in {latchState.notice[u], None, latchState'.value}
    BY <1>3, <1>1, <2>1, ChangedWatch, SMTT(30) DEF LatchWatch
  <2>3. latchValue # <<>>
    BY <2>1, Zenon DEF LatchInv, LatchSetOnce, LatchAt
  <2>4. LatchSetOnce'
    BY <1>3, <1>1, <1>5, <1>6, <2>1, <2>2, <2>3, SMTT(30) DEF LatchInv, LatchSetOnce, LatchMoves
  <2> QED BY <1>1, <1>2, <1>5, <1>6, <2>1, <2>2, <2>4, LatchSetterKeeps, Zenon
<1> QED BY <1>7, <1>8, Zenon

LEMMA LatchInitInv ==
  ASSUME LatchInit, LatchNone
  PROVE  LatchInv
<1>1. kInitial \in LatchStates /\ kInitial # kReady
  BY Zenon DEF LatchStates, kInitial, kReady
<1>2. latchState \in WatchOf(LatchStates, {"closed"})
  BY <1>1, NewWatchType, Zenon DEF LatchInit
<1>3. \A t \in Threads : latchState.notice[t] = None /\ latchState.outcome[t] = None
  BY Zenon DEF LatchInit, NewWatch
<1>4. LatchType
  BY <1>1, <1>2 DEF LatchType, LatchInit, LatchCallAt, LatchResults
<1>5. LatchHeard
  BY <1>3, Zenon DEF LatchHeard, LatchInit, LatchCallAt, LatchAt, LatchNone, LatchStates, kReady
<1>6. latchState.value = kInitial
  BY Zenon DEF LatchInit, NewWatch
<1> QED BY <1>1, <1>4, <1>5, <1>6, SMTT(30) DEF LatchInv, LatchCalls, LatchSetOnce, LatchAgrees,
        LatchInit, LatchCallAt, LatchAt, LatchWon

\* batt::Latch, Promise and Future: whatever the number of threads, one
\* set_value wins, and await, async_get and poll return its whole value or a
\* reason not to have it; none of them panics.
THEOREM LatchSafe ==
  ASSUME LatchNone
  PROVE  LatchSpec => []LatchAgrees
<1>1. LatchInit => LatchInv
  BY LatchInitInv, Zenon
<1>2. LatchInv /\ [LatchStep]_latchVars => LatchInv'
  <2> SUFFICES ASSUME LatchInv, [LatchStep]_latchVars PROVE LatchInv'
    BY ZenonT(30)
  <2>1. CASE UNCHANGED latchVars
    BY <2>1 DEF latchVars, LatchInv, LatchType, LatchCalls, LatchSetOnce, LatchHeard,
                LatchAgrees, LatchWon, LatchAt, LatchInvalidated
  <2>2. ASSUME NEW t \in Threads, LatchStart(t) \/ LatchContinue(t)
        PROVE  LatchInv'
    BY <2>2, LatchClaimKeeps, LatchReadKeeps, LatchInvalidateKeeps, LatchAnnounceKeeps,
       LatchStoreKeeps, LatchWaitKeeps, LatchTakeKeeps, Zenon DEF LatchStart, LatchContinue
  <2> QED BY <2>1, <2>2, Zenon DEF LatchStep
<1>3. LatchInv => LatchAgrees
  BY Zenon DEF LatchInv
<1> QED BY <1>1, <1>2, <1>3, PTL DEF LatchSpec

-----------------------------------------------------------------------------
(* batt::Pinnable.                                                         *)

One(b) == IF b THEN 1 ELSE 0

\* Sets that differ in one element, or in two, differ in size accordingly.
LEMMA PinOne ==
  ASSUME NEW S, NEW T, NEW p, IsFiniteSet(S), S \ {p} = T \ {p}
  PROVE  /\ IsFiniteSet(T) /\ Cardinality(S) \in Nat /\ Cardinality(T) \in Nat
         /\ Cardinality(T) + One(p \in S) = Cardinality(S) + One(p \in T)
<1> DEFINE R == S \ {p}
<1>1. IsFiniteSet(R) /\ Cardinality(R) = IF p \in S THEN Cardinality(S) - 1 ELSE Cardinality(S)
  BY FS_RemoveElement, Zenon
<1>2. /\ IsFiniteSet(R \cup {p})
      /\ Cardinality(R \cup {p}) = IF p \in R THEN Cardinality(R) ELSE Cardinality(R) + 1
  BY <1>1, FS_AddElement, Zenon
<1>3. (p \notin T => T = R) /\ (p \in T => T = R \cup {p}) /\ p \notin R
  OBVIOUS
<1>4. IsFiniteSet(T)
  BY <1>1, <1>2, <1>3, SMTT(30)
<1>5. Cardinality(S) \in Nat /\ Cardinality(T) \in Nat /\ Cardinality(R) \in Nat
  BY <1>1, <1>4, FS_CardinalityType
<1>6. Cardinality(T) = Cardinality(R) + One(p \in T)
  BY <1>2, <1>3, <1>5 DEF One
<1>7. Cardinality(S) = Cardinality(R) + One(p \in S)
  BY <1>1, <1>5 DEF One
<1> HIDE DEF R
<1> QED BY <1>4, <1>5, <1>6, <1>7 DEF One

LEMMA PinTwo ==
  ASSUME NEW S, NEW T, NEW p, NEW q, p # q, IsFiniteSet(S), S \ {p, q} = T \ {p, q}
  PROVE  /\ IsFiniteSet(T) /\ Cardinality(S) \in Nat /\ Cardinality(T) \in Nat
         /\ Cardinality(T) + One(p \in S) + One(q \in S)
              = Cardinality(S) + One(p \in T) + One(q \in T)
<1> DEFINE R == IF p \in T THEN S \cup {p} ELSE S \ {p}
<1>1. S \ {p} = R \ {p} /\ R \ {q} = T \ {q} /\ (p \in R <=> p \in T) /\ (q \in R <=> q \in S)
  BY Zenon
<1> HIDE DEF R
<1>2. /\ IsFiniteSet(R) /\ Cardinality(S) \in Nat /\ Cardinality(R) \in Nat
      /\ Cardinality(R) + One(p \in S) = Cardinality(S) + One(p \in R)
  BY <1>1, PinOne
<1>3. /\ IsFiniteSet(T) /\ Cardinality(T) \in Nat
      /\ Cardinality(T) + One(q \in R) = Cardinality(R) + One(q \in T)
  BY <1>1, <1>2, PinOne
<1> QED BY <1>1, <1>2, <1>3 DEF One

LEMMA PinSets ==
  ASSUME PinType, IsFiniteSet(Pinners)
  PROVE  /\ IsFiniteSet(PinHeld) /\ Cardinality(PinHeld) \in Nat
         /\ IsFiniteSet(PinOwed) /\ Cardinality(PinOwed) \in Nat
<1>1. PinHeld \subseteq Pinners /\ PinOwed \subseteq Pinners
  BY DEF PinHeld, PinOwed
<1> QED BY <1>1, FS_Subset, FS_CardinalityType, Zenon

\* A step of the task p alone: the count moves by what it holds and owes.
LEMMA PinMoves ==
  ASSUME PinProtects, PinType', IsFiniteSet(Pinners), NEW p \in Pinners,
         UNCHANGED pinOwner,
         \A u \in Pinners \ {p} : pinPtr'[u] = pinPtr[u] /\ pinDoing'[u] = pinDoing[u],
         pinCount' + One(p \in PinHeld) + One(p \in PinOwed)
                  
           = pinCount + One(p \in PinHeld') + One(p \in PinOwed')
                  ,
         pinOwner # "using" /\ {p} \cap (PinHeld \cup PinOwed) = {} =>
           {p} \cap (PinHeld' \cup PinOwed') = {}
  PROVE  PinProtects'
<1>1. PinHeld \ {p} = PinHeld' \ {p} /\ PinOwed \ {p} = PinOwed' \ {p}
  BY DEF PinHeld, PinOwed
<1>2. PinType /\ IsFiniteSet(PinHeld) /\ IsFiniteSet(PinOwed) /\ pinCount \in Int /\ pinCount' \in Int
  BY PinSets, Zenon DEF PinProtects, PinType
<1>3. /\ Cardinality(PinHeld) \in Nat /\ Cardinality(PinHeld') \in Nat
      /\ Cardinality(PinHeld') + One(p \in PinHeld)
              = Cardinality(PinHeld) + One(p \in PinHeld')
  BY <1>1, <1>2, PinOne, SMTT(30)
<1>4. /\ Cardinality(PinOwed) \in Nat /\ Cardinality(PinOwed') \in Nat
      /\ Cardinality(PinOwed') + One(p \in PinOwed)
              = Cardinality(PinOwed) + One(p \in PinOwed')
  BY <1>1, <1>2, PinOne, SMTT(30)
<1>5. pinCount = Cardinality(PinHeld) + Cardinality(PinOwed) + One(pinOwner = "using")
  BY DEF PinProtects, One
<1>6. pinCount' = Cardinality(PinHeld') + Cardinality(PinOwed') + One(pinOwner = "using")
  BY <1>2, <1>3, <1>4, <1>5 DEF One
<1>7. pinOwner \in {"checking", "gone"} => PinHeld' \cup PinOwed' = {}
  BY <1>1, Zenon DEF PinProtects
<1> QED BY <1>6, <1>7 DEF PinProtects, One

\* A step of the tasks p and q: the count moves by what they hold and owe.
LEMMA PinsMove ==
  ASSUME PinProtects, PinType', IsFiniteSet(Pinners), NEW p \in Pinners, NEW q \in Pinners,
         p # q, UNCHANGED pinOwner,
         \A u \in Pinners \ {p, q} : pinPtr'[u] = pinPtr[u] /\ pinDoing'[u] = pinDoing[u],
         pinCount' + One(p \in PinHeld) + One(q \in PinHeld) + One(p \in PinOwed)
                   + One(q \in PinOwed)
           = pinCount + One(p \in PinHeld') + One(q \in PinHeld') + One(p \in PinOwed')
                   + One(q \in PinOwed'),
         pinOwner # "using" /\ {p, q} \cap (PinHeld \cup PinOwed) = {} =>
           {p, q} \cap (PinHeld' \cup PinOwed') = {}
  PROVE  PinProtects'
<1>1. PinHeld \ {p, q} = PinHeld' \ {p, q} /\ PinOwed \ {p, q} = PinOwed' \ {p, q}
  BY Zenon DEF PinHeld, PinOwed
<1>2. PinType /\ IsFiniteSet(PinHeld) /\ IsFiniteSet(PinOwed) /\ pinCount \in Int /\ pinCount' \in Int
  BY PinSets, SMTT(30) DEF PinProtects, PinType
<1>3. /\ Cardinality(PinHeld) \in Nat /\ Cardinality(PinHeld') \in Nat
      /\ Cardinality(PinHeld') + One(p \in PinHeld) + One(q \in PinHeld)
              = Cardinality(PinHeld) + One(p \in PinHeld') + One(q \in PinHeld')
  BY <1>1, <1>2, PinTwo, SMTT(30)
<1>4. /\ Cardinality(PinOwed) \in Nat /\ Cardinality(PinOwed') \in Nat
      /\ Cardinality(PinOwed') + One(p \in PinOwed) + One(q \in PinOwed)
              = Cardinality(PinOwed) + One(p \in PinOwed') + One(q \in PinOwed')
  BY <1>1, <1>2, PinTwo
<1>5. pinCount = Cardinality(PinHeld) + Cardinality(PinOwed) + One(pinOwner = "using")
  BY Zenon DEF PinProtects, One
<1>6. pinCount' = Cardinality(PinHeld') + Cardinality(PinOwed') + One(pinOwner = "using")
  BY <1>2, <1>3, <1>4, <1>5, SMTT(30) DEF One
<1>7. pinOwner \in {"checking", "gone"} => PinHeld' \cup PinOwed' = {}
  BY <1>1 DEF PinProtects
<1> QED BY <1>6, <1>7 DEF PinProtects, One

\* What assigning to a Pin, or going on in an operation, gives.
LEMMA PinStored ==
  ASSUME NEW T, NEW f \in [Pinners -> T], NEW p \in Pinners, NEW q \in Pinners,
         NEW x \in T, NEW y \in T
  PROVE  /\ [f EXCEPT ![p] = x] \in [Pinners -> T]
         /\ [f EXCEPT ![p] = x, ![q] = y] \in [Pinners -> T]
BY Zenon

\* The tasks' steps.
LEMMA PinTaskKeeps ==
  ASSUME PinProtects, IsFiniteSet(Pinners), NEW p \in Pinners, PinTask(p)
  PROVE  PinProtects'
<1>1. /\ PinType /\ UNCHANGED pinOwner /\ pinCount \in Int
      /\ pinPtr \in [Pinners -> BOOLEAN]
      /\ pinDoing \in [Pinners -> {"none", "unpin", "forget"}]
      /\ pinOwner # "using" => pinOwner \in {"waiting", "checking", "gone"}
  BY Zenon DEF PinProtects, PinType, PinTask, PinMake, PinRelease, PinForget, PinUnpin, PinCopy, PinMove, PinSwap
<1>2. /\ \A q \in Pinners : pinPtr[q] \in BOOLEAN
      /\ TRUE \in BOOLEAN /\ FALSE \in BOOLEAN
      /\ (IF pinPtr[p] THEN "unpin" ELSE "none") \in {"none", "unpin", "forget"}
      /\ "none" \in {"none", "unpin", "forget"} /\ "forget" \in {"none", "unpin", "forget"}
  BY <1>1, ZenonT(30)
<1> USE DEF PinHeld, PinOwed, PinIdle, One
<1>3. CASE PinMake(p) \/ PinRelease(p) \/ PinForget(p) \/ PinUnpin(p)
  <2>1. PinType'
    <3>1. pinPtr' \in [Pinners -> BOOLEAN]
      BY <1>1, <1>3, <1>2, PinStored, ZenonT(30) DEF PinMake, PinRelease, PinForget, PinUnpin
    <3>2. pinDoing' \in [Pinners -> {"none", "unpin", "forget"}]
      BY <1>1, <1>3, <1>2, PinStored, ZenonT(30) DEF PinMake, PinRelease, PinForget, PinUnpin
    <3>3. pinCount' \in Int
      BY <1>1, <1>3 DEF PinMake, PinRelease, PinForget, PinUnpin
    <3> QED BY <1>1, <3>1, <3>2, <3>3, SMTT(30) DEF PinType
  <2>2. \A u \in Pinners \ {p} : pinPtr'[u] = pinPtr[u] /\ pinDoing'[u] = pinDoing[u]
    BY <1>1, <1>3, Zenon DEF PinMake, PinRelease, PinForget, PinUnpin
  <2>3. pinCount' + One(p \in PinHeld) + One(p \in PinOwed)
          = pinCount + One(p \in PinHeld') + One(p \in PinOwed')
    BY <1>1, <1>3 DEF PinMake, PinRelease, PinForget, PinUnpin
  <2>4. pinOwner # "using" /\ {p} \cap (PinHeld \cup PinOwed) = {} =>
          {p} \cap (PinHeld' \cup PinOwed') = {}
    BY <1>1, <1>3, Zenon DEF PinMake, PinRelease, PinForget, PinUnpin
  <2> QED BY <1>1, <2>1, <2>2, <2>3, <2>4, PinMoves, ZenonT(30)
<1>4. ASSUME NEW q \in Pinners, PinCopy(p, q) \/ PinMove(p, q) \/ PinSwap(p, q)
      PROVE  PinProtects'
  <2>1. PinType'
    <3>1. pinPtr' \in [Pinners -> BOOLEAN]
      BY <1>1, <1>4, <1>2, PinStored, ZenonT(30) DEF PinCopy, PinMove, PinSwap
    <3>2. pinDoing' \in [Pinners -> {"none", "unpin", "forget"}]
      BY <1>1, <1>4, <1>2, PinStored, ZenonT(30) DEF PinCopy, PinMove, PinSwap
    <3>3. pinCount' \in Int
      <4>1. pinCount' \in {pinCount, pinCount + 1}
        BY <1>4, ZenonT(30) DEF PinCopy, PinMove, PinSwap, PinnedAgain
      <4> QED BY <1>1, <4>1
    <3> QED BY <1>1, <3>1, <3>2, <3>3, ZenonT(30) DEF PinType
  <2>2. CASE p # q
    <3>2. \A u \in Pinners \ {p, q} : pinPtr'[u] = pinPtr[u] /\ pinDoing'[u] = pinDoing[u]
      BY <1>1, <1>4, ZenonT(30) DEF PinCopy, PinMove, PinSwap
    <3>3. pinCount' + One(p \in PinHeld) + One(q \in PinHeld) + One(p \in PinOwed)
                    + One(q \in PinOwed)
            = pinCount + One(p \in PinHeld') + One(q \in PinHeld') + One(p \in PinOwed')
                    + One(q \in PinOwed')
      <4>1. CASE PinCopy(p, q)
        BY <1>1, <1>2, <2>2, <4>1, SMTT(30) DEF PinCopy, PinnedAgain
      <4>2. CASE PinMove(p, q)
        BY <1>1, <1>2, <2>2, <4>2, SMTT(30) DEF PinMove
      <4>3. CASE PinSwap(p, q)
        BY <1>1, <1>2, <2>2, <4>3, SMTT(30) DEF PinSwap
      <4> QED BY <1>4, <4>1, <4>2, <4>3, SMTT(30)
    <3>4. {p, q} \cap (PinHeld \cup PinOwed) = {} =>
            {p, q} \cap (PinHeld' \cup PinOwed') = {}
      BY <1>1, <1>4, <2>2, ZenonT(30) DEF PinCopy, PinMove, PinSwap
    <3> QED BY <1>1, <2>1, <2>2, <3>2, <3>3, <3>4, PinsMove, ZenonT(30)
  <2>3. CASE p = q
    <3>2. \A u \in Pinners \ {p} : pinPtr'[u] = pinPtr[u] /\ pinDoing'[u] = pinDoing[u]
      BY <1>1, <1>4, <2>3, SMTT(30) DEF PinCopy, PinMove, PinSwap
    <3>3. pinCount' + One(p \in PinHeld) + One(p \in PinOwed)
            = pinCount + One(p \in PinHeld') + One(p \in PinOwed')
      BY <1>1, <1>4, <2>3, SMTT(30) DEF PinCopy, PinMove, PinSwap, PinnedAgain
    <3>4. {p} \cap (PinHeld \cup PinOwed) = {} => {p} \cap (PinHeld' \cup PinOwed') = {}
      BY <1>1, <1>4, <2>3 DEF PinCopy, PinMove, PinSwap
    <3> QED BY <1>1, <2>1, <3>2, <3>3, <3>4, PinMoves, Zenon
  <2> QED BY <2>2, <2>3
<1> QED BY <1>3, <1>4 DEF PinTask

\* The owner's steps: with no pin left to wait for, the count is zero and the
\* object out of everyone's reach.
LEMMA PinOwnerKeeps ==
  ASSUME PinProtects, IsFiniteSet(Pinners), PinDestroy \/ PinWaited \/ PinGone
  PROVE  PinProtects'
<1>1. PinType'
  BY DEF PinProtects, PinType, PinDestroy, PinWaited, PinGone
<1>2. PinHeld' = PinHeld /\ PinOwed' = PinOwed
  BY Zenon DEF PinHeld, PinOwed, PinDestroy, PinWaited, PinGone
<1>3. /\ IsFiniteSet(PinHeld) /\ Cardinality(PinHeld) \in Nat
      /\ IsFiniteSet(PinOwed) /\ Cardinality(PinOwed) \in Nat
      /\ pinCount \in Int
  BY PinSets, Zenon DEF PinProtects, PinType
<1>4. CASE PinDestroy
  BY <1>1, <1>2, <1>3, <1>4, SMTT(30) DEF PinProtects, PinDestroy
<1>5. CASE PinWaited
  <2>1. pinCount = Cardinality(PinHeld) + Cardinality(PinOwed) /\ pinCount <= 0
    BY <1>3, <1>5, SMTT(30) DEF PinProtects, PinWaited
  <2>2. Cardinality(PinHeld) = 0 /\ Cardinality(PinOwed) = 0
    BY <1>3, <2>1
  <2>3. PinHeld = {} /\ PinOwed = {}
    BY <1>3, <2>2, FS_EmptySet
  <2> QED BY <1>1, <1>2, <1>5, <2>3, SMTT(30) DEF PinProtects, PinWaited
<1>6. CASE PinGone
  <2>1. PinHeld = {} /\ PinOwed = {} /\ Cardinality({}) = 0
    BY <1>6, FS_EmptySet DEF PinProtects, PinGone
  <2>2. pinCount = 0
    BY <1>6, <2>1 DEF PinProtects, PinGone
  <2> QED BY <1>1, <1>2, <1>6, <2>1, <2>2, ZenonT(30) DEF PinProtects, PinGone
<1> QED BY <1>4, <1>5, <1>6

\* batt::Pinnable: whatever the number of tasks that pin the object, its
\* destructor outlasts every pin and every unpin under way, and the check at
\* its end cannot fail.
THEOREM PinSafe ==
  ASSUME IsFiniteSet(Pinners)
  PROVE  PinSpec => []PinProtects
<1>1. PinInit => PinProtects
  <2> SUFFICES ASSUME PinInit PROVE PinProtects
    BY Zenon
  <2>1. PinHeld = {} /\ PinOwed = {} /\ Cardinality({}) = 0
    BY FS_EmptySet, Zenon DEF PinInit, PinHeld, PinOwed
  <2> QED BY <2>1 DEF PinInit, PinInitialCount, PinProtects, PinType
<1>2. PinProtects /\ [PinStep]_pinVars => PinProtects'
  <2> SUFFICES ASSUME PinProtects, [PinStep]_pinVars PROVE PinProtects'
    BY Zenon
  <2>1. CASE UNCHANGED pinVars
    BY <2>1, Zenon DEF pinVars, PinProtects, PinType, PinHeld, PinOwed
  <2> QED BY <2>1, PinTaskKeeps, PinOwnerKeeps DEF PinStep
<1> QED BY <1>1, <1>2, PTL DEF PinSpec
=============================================================================
