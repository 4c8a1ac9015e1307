------------------------------- MODULE Mutex -------------------------------
(***************************************************************************)
(* batt::Mutex<T> (async/mutex.hpp): a ticket lock.  A caller draws a      *)
(* ticket from an atomic counter and waits until current_ticket_, a        *)
(* Watch<u64>, shows it; releasing the lock increments current_ticket_.    *)
(* The release and the wakeup that announces it are two steps, and a       *)
(* waiter may be woken with a ticket that is out of date (see Watches).    *)
(***************************************************************************)
EXTENDS Integers, Watches

CONSTANT TicketLimit    \* how many tickets are drawn; the counters have 64 bits

ASSUME MutexConstants == TicketLimit \in Nat /\ None \notin Nat

VARIABLES
  next_ticket,      \* next_ticket_
  current_ticket,   \* current_ticket_
  pc,               \* where each thread is in lock() .. ~Lock()
  my_ticket,        \* my_ticket in acquire
  latest_ticket     \* latest_ticket in acquire

vars == <<next_ticket, current_ticket, pc, my_ticket, latest_ticket>>

Labels == {"idle", "load", "loop", "attach", "wait", "held", "notify",
           "released"}

TypeOK ==
  /\ next_ticket \in Nat
  /\ current_ticket \in WatchOf(Nat, {})
  /\ pc \in [Threads -> Labels]
  /\ my_ticket \in [Threads -> Nat]
  /\ latest_ticket \in [Threads -> Nat]

Init ==
  /\ next_ticket = 0
  /\ current_ticket = NewWatch(0)
  /\ pc = [t \in Threads |-> "idle"]
  /\ my_ticket = [t \in Threads |-> 0]
  /\ latest_ticket = [t \in Threads |-> 0]

Goto(t, l) == pc' = [pc EXCEPT ![t] = l]

\* t has learned that ticket is being served, and goes (back) to the loop.
Learn(t, ticket) ==
  /\ latest_ticket' = [latest_ticket EXCEPT ![t] = ticket]
  /\ Goto(t, "loop")

\* acquire: next_ticket_.fetch_add(1)
DrawTicket(t) ==
  /\ pc[t] = "idle"
  /\ next_ticket < TicketLimit
  /\ my_ticket' = [my_ticket EXCEPT ![t] = next_ticket]
  /\ next_ticket' = next_ticket + 1
  /\ Goto(t, "load")
  /\ UNCHANGED <<current_ticket, latest_ticket>>

\* acquire: current_ticket_.get_value()
LoadTicket(t) ==
  /\ pc[t] = "load"
  /\ Learn(t, current_ticket.value)
  /\ UNCHANGED <<next_ticket, current_ticket, my_ticket>>

\* The condition of the while loop in acquire.
MustWait_StopsShort(t) == latest_ticket[t] + 1 < my_ticket[t]
MustWait(t) == latest_ticket[t] < my_ticket[t]

\* The first look of current_ticket_.await_not_equal(*latest_ticket).
AwaitTicket(t) ==
  LET seen == FirstLook(current_ticket, latest_ticket[t]) IN
  /\ pc[t] = "loop"
  /\ MustWait(t)
  /\ IF seen # None THEN Learn(t, seen)
                    ELSE Goto(t, "attach") /\ UNCHANGED latest_ticket
  /\ UNCHANGED <<next_ticket, current_ticket, my_ticket>>

\* Its second look, under the lock of the watch.
AttachTicket(t) ==
  LET seen == SecondLook(current_ticket, latest_ticket[t]) IN
  /\ pc[t] = "attach"
  /\ IF seen # None
       THEN Learn(t, seen) /\ UNCHANGED current_ticket
       ELSE /\ current_ticket' = Registered(current_ticket, t)
            /\ Goto(t, "wait")
            /\ UNCHANGED latest_ticket
  /\ UNCHANGED <<next_ticket, my_ticket>>

\* await_not_equal returns after a wakeup.
WakeUp(t) ==
  /\ pc[t] = "wait"
  /\ current_ticket.outcome[t] # None
  /\ Learn(t, current_ticket.outcome[t])
  /\ current_ticket' = Handled(current_ticket, t)
  /\ UNCHANGED <<next_ticket, my_ticket>>

\* The loop is left and acquire returns.
Enter(t) ==
  /\ pc[t] = "loop"
  /\ ~MustWait(t)
  /\ Goto(t, "held")
  /\ UNCHANGED <<next_ticket, current_ticket, my_ticket, latest_ticket>>

\* What release adds to current_ticket_.
NextServed_Skips(n) == n + 2
NextServed(n) == n + 1

\* LockImpl::release of a lock that is still held: current_ticket_.fetch_add,
\* then its notification.
Release(t) ==
  /\ pc[t] = "held"
  /\ current_ticket' =
       Changed(current_ticket, t, NextServed(current_ticket.value))
  /\ Goto(t, "notify")
  /\ UNCHANGED <<next_ticket, my_ticket, latest_ticket>>

Announced_None(w, t) == [w EXCEPT !.notice[t] = None]
Announced(w, t) == Notified(w, t)

Announce(t) ==
  /\ pc[t] = "notify"
  /\ current_ticket' = Announced(current_ticket, t)
  /\ Goto(t, "released")
  /\ UNCHANGED <<next_ticket, my_ticket, latest_ticket>>

\* ~LockImpl calls release() again, which finds val_ == nullptr.
Destroy(t) ==
  /\ pc[t] = "released"
  /\ Goto(t, "idle")
  /\ UNCHANGED <<next_ticket, current_ticket, my_ticket, latest_ticket>>

Continue(t) ==
  \/ LoadTicket(t) \/ AwaitTicket(t) \/ AttachTicket(t) \/ WakeUp(t)
  \/ Enter(t) \/ Release(t) \/ Announce(t) \/ Destroy(t)

Next == \E t \in Threads : DrawTicket(t) \/ Continue(t)

Spec == Init /\ [][Next]_vars

\* Calls are not abandoned, and whoever holds the lock releases it (Lock is
\* a scope guard).
FairSpec == Spec /\ \A t \in Threads : WF_vars(Continue(t))

-----------------------------------------------------------------------------
(* Properties.                                                             *)

\* At most one thread is between the return of acquire and release.
MutualExclusion ==
  \A t, u \in Threads : pc[t] = "held" /\ pc[u] = "held" => t = u

\* BATT_CHECK_EQ(*latest_ticket, my_ticket) in acquire never fails: the loop
\* is left with the caller's own ticket, not with a later one.
TicketCheck ==
  \A t \in Threads :
    pc[t] = "loop" /\ ~MustWait(t) => latest_ticket[t] = my_ticket[t]

\* Everybody who draws a ticket gets the lock.
EveryoneServed == \A t \in Threads : pc[t] = "load" ~> pc[t] = "held"

-----------------------------------------------------------------------------
(* The inductive invariant.                                                *)

\* t has drawn a ticket and not given it up.
Queueing(t) == pc[t] \in {"load", "loop", "attach", "wait", "held"}

\* Every thread that queues has a ticket of its own, between the one being
\* served and the next one to draw, and every ticket between them is in the
\* hand of one that queues: none is lost, and none is served twice.
TicketsInHand ==
  /\ current_ticket.value <= next_ticket
  /\ \A t \in Threads : Queueing(t) =>
       current_ticket.value <= my_ticket[t] /\ my_ticket[t] < next_ticket
  /\ \A t, u \in Threads :
       Queueing(t) /\ Queueing(u) /\ my_ticket[t] = my_ticket[u] => t = u
  /\ \A n \in current_ticket.value..(next_ticket - 1) :
       \E t \in Threads : Queueing(t) /\ my_ticket[t] = n

\* What a thread has learned, is being told or announces about the ticket
\* being served is never ahead of it.
TicketsLearned ==
  \A t \in Threads :
    /\ pc[t] \in {"loop", "attach", "wait"} =>
         latest_ticket[t] <= current_ticket.value
    /\ current_ticket.outcome[t] # None =>
         current_ticket.outcome[t] <= current_ticket.value
    /\ current_ticket.notice[t] # None =>
         current_ticket.notice[t] <= current_ticket.value
    /\ current_ticket.notice[t] # None <=> pc[t] = "notify"
    /\ pc[t] = "held" => my_ticket[t] = current_ticket.value

\* The inductive invariant: the tickets in hand are distinct and ahead of the
\* one being served, and nobody believes that a later one is served.
MutexInv == TypeOK /\ TicketsInHand /\ TicketsLearned

-----------------------------------------------------------------------------
(* Refinement: the queue of FifoLock is the threads in ticket order.       *)

OwnersOf(ticket) == {t \in Threads : Queueing(t) /\ my_ticket[t] = ticket}

OneOf(S) == IF S = {} THEN None ELSE CHOOSE x \in S : TRUE

HolderOf(ticket) == OneOf(OwnersOf(ticket))

TicketQueue ==
  [i \in 1..(next_ticket - current_ticket.value) |->
     HolderOf(current_ticket.value + i - 1)]

Held == \E t \in Threads : pc[t] = "held"

Fifo == INSTANCE FifoLock WITH queue <- TicketQueue, held <- Held

\* The ticket lock grants in the order of the tickets, and to everyone.
ImplementsFifoLock == Fifo!Spec

\* What of it is safety: the lock is granted to one caller at a time, in the
\* order in which they asked for it.
GrantsInOrder == Fifo!Safety
=============================================================================
