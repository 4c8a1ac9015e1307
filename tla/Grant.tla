------------------------------- MODULE Grant -------------------------------
(***************************************************************************)
(* batt::Grant and batt::Grant::Issuer (async/grant_decl.hpp,              *)
(* async/grant_impl.hpp): a counted resource that is handed out in parts.  *)
(* The issuer's pool and the size of every grant are watches (see          *)
(* Watches).  Every operation moves counts between them one watch at a     *)
(* time, and a change is announced to the waiters in a step of its own.    *)
(*                                                                         *)
(* All threads may use all the grants at once, as the class permits; only  *)
(* the destructor and a move from a grant need a grant that nobody else    *)
(* uses, and so does swap unless ConcurrentSwaps.                          *)
(***************************************************************************)
EXTENDS Sequences, WatchFacts

CONSTANTS
  Grants,           \* the places where Grant objects live
  Issuer,           \* the issuer, as the source of a transfer
  InitialCount,     \* the issuer's initial_count
  MaxTotal,         \* bound: how far grow goes
  ConcurrentSwaps,  \* whether swap is called on grants that others use
  kClosed           \* StatusCode

ASSUME GrantConstants ==
  /\ IsFiniteSet(Grants) /\ IsFiniteSet(Threads)
  /\ Issuer \notin Grants /\ None \notin Grants
  /\ InitialCount \in Nat /\ MaxTotal \in Nat /\ InitialCount =< MaxTotal
  /\ ConcurrentSwaps \in BOOLEAN

VARIABLES
  count,    \* the watches: available_ of the issuer, size_ of the grants
  total,    \* total_size_
  object,   \* what each place holds, see Objects
  todo,     \* what is left of the call of each thread
  got,      \* the count a thread has taken out of one watch and not yet
            \* put into another
  call      \* the rest of what a thread knows about its call

vars == <<count, total, object, todo, got, call>>

Sources == Grants \cup {Issuer}
Counts == 0..MaxTotal

\* A place holds nothing, is reserved for the result of a transfer, holds a
\* grant, one that has been moved from, or one whose destructor runs.
Objects == {"none", "reserved", "live", "moved", "dying"}

\* The steps of a call: take exchanges the value of a watch for 0, swap for
\* the count in hand, put stores the count in hand, add adds it; free ends a
\* destructor.  The other steps are those of transfer_impl.
Steps == {"take", "exchange", "put", "add", "announce", "close", "free", "modify",
          "unavailable", "load", "look", "attach", "blocked", "return"}

Codes == {"ok", kClosed, "kGrantRevoked", "kGrantUnavailable"}

\* place: where the new grant goes; want: the count asked for; wait:
\* wait_for_resource; seen: last_seen in await_true; status: what the call
\* returns.
NoCall == [place |-> None, want |-> 0, wait |-> FALSE, seen |-> 0,
           status |-> "ok"]

TypeOK ==
  /\ count \in [Sources -> WatchOf(Counts, {kClosed})]
  /\ total \in Counts
  /\ object \in [Grants -> Objects]
  /\ todo \in [Threads -> Seq([do : Steps, at : Sources])]
  /\ got \in [Threads -> Counts]
  /\ call \in [Threads -> [place : Grants \cup {None}, want : Counts,
                           wait : BOOLEAN, seen : Counts, status : Codes]]

\* Issuer(initial_count)
Init ==
  /\ count = [s \in Sources |-> NewWatch(IF s = Issuer THEN InitialCount ELSE 0)]
  /\ total = InitialCount
  /\ object = [g \in Grants |-> "none"]
  /\ todo = [t \in Threads |-> << >>]
  /\ got = [t \in Threads |-> 0]
  /\ call = [t \in Threads |-> NoCall]

Idle(t) == todo[t] = << >>
Step(what, s) == [do |-> what, at |-> s]

\* Some call, or the announcement of a change, still needs g.
InUse(g) ==
  \E t \in Threads :
    \/ \E i \in 1..Len(todo[t]) : todo[t][i].at = g
    \/ call[t].place = g

\* A swap of g is under way that no other call may overlap.
BeingSwapped(g) ==
  /\ ~ConcurrentSwaps
  /\ \E t \in Threads : \E i \in 1..Len(todo[t]) :
       todo[t][i].do \in {"exchange", "put"} /\ todo[t][i].at = g

\* g is a grant that may be used; it has an issuer.
Holds(g) == object[g] \in {"live", "moved"} /\ ~BeingSwapped(g)
HasIssuer(g) == object[g] = "live" /\ ~BeingSwapped(g)

-----------------------------------------------------------------------------
(* The steps.                                                              *)

At(t, what) == todo[t] # << >> /\ Head(todo[t]).do = what
Here(t) == Head(todo[t]).at
Then(t, steps) == todo' = [todo EXCEPT ![t] = steps \o Tail(@)]

\* A change of the value of the watch at s, announced in the next step if it
\* is one.  Nobody hears of a change that is not announced.
Announced_Never(t, s, v) == << >>
Announced(t, s, v) ==
  IF v = count[s].value THEN << >> ELSE <<Step("announce", s)>>

Change(t, v, inHand) ==
  LET s == Here(t) IN
  /\ count' = [count EXCEPT ![s] = Changed(@, t, v)]
  /\ got' = [got EXCEPT ![t] = inHand]
  /\ Then(t, Announced(t, s, v))
  /\ UNCHANGED <<total, object, call>>

\* size_.set_value(0), and set_value of the count in hand, when the old value
\* is used
Take(t) == At(t, "take") /\ Change(t, 0, count[Here(t)].value)
Exchange(t) == At(t, "exchange") /\ Change(t, got[t], count[Here(t)].value)

\* the last set_value of swap, whose result is dropped
Put(t) == At(t, "put") /\ Change(t, got[t], 0)

\* fetch_add
Add(t) == At(t, "add") /\ Change(t, count[Here(t)].value + got[t], 0)

Announce(t) ==
  /\ At(t, "announce")
  /\ count' = [count EXCEPT ![Here(t)] = Notified(@, t)]
  /\ Then(t, << >>)
  /\ UNCHANGED <<total, object, got, call>>

\* size_.close(), available_.close()
CloseWatch(t) ==
  /\ At(t, "close")
  /\ count' = [count EXCEPT ![Here(t)] = Closed(@, kClosed)]
  /\ Then(t, << >>)
  /\ UNCHANGED <<total, object, got, call>>

Free(t) ==
  /\ At(t, "free")
  /\ object' = [object EXCEPT ![Here(t)] = "none"]
  /\ count' = [count EXCEPT ![Here(t)] = NewWatch(0)]
  /\ Then(t, << >>)
  /\ UNCHANGED <<total, got, call>>

-----------------------------------------------------------------------------
(* transfer_impl.                                                          *)

\* observed >= count
Suffices(n, t) == n >= call[t].want

\* The call is over with the given status.
Finish(t, status) ==
  /\ call' = [call EXCEPT ![t].status = status]
  /\ Then(t, <<Step("return", Here(t))>>)

\* source.modify_if
Modify(t) ==
  LET s == Here(t)
      v == count[s].value - call[t].want IN
  /\ At(t, "modify")
  /\ IF Suffices(count[s].value, t)
     THEN /\ count' = [count EXCEPT ![s] = Changed(@, t, v)]
          /\ got' = [got EXCEPT ![t] = call[t].want]
          /\ call' = [call EXCEPT ![t].seen = 0]
          /\ Then(t, Announced(t, s, v) \o <<Step("return", s)>>)
     ELSE /\ Then(t, <<Step(IF call[t].wait THEN "load" ELSE "unavailable", s)>>)
          /\ UNCHANGED <<count, got, call>>
  /\ UNCHANGED <<total, object>>

\* source.is_closed()
Unavailable(t) ==
  /\ At(t, "unavailable")
  /\ Finish(t, IF count[Here(t)].final # None THEN "kGrantRevoked"
               ELSE "kGrantUnavailable")
  /\ UNCHANGED <<count, total, object, got>>

\* What source.await_true does with the value r, or the status, it gets.
Retry_IgnoresClose(t, r) ==
  LET v == IF r = kClosed THEN call[t].seen ELSE r IN
  /\ call' = [call EXCEPT ![t].seen = v]
  /\ Then(t, <<Step(IF Suffices(v, t) THEN "modify" ELSE "look", Here(t))>>)
Retry(t, r) ==
  IF r = kClosed THEN Finish(t, r)
  ELSE /\ call' = [call EXCEPT ![t].seen = r]
       /\ Then(t, <<Step(IF Suffices(r, t) THEN "modify" ELSE "look", Here(t))>>)

Load(t) ==
  /\ At(t, "load")
  /\ Retry(t, count[Here(t)].value)
  /\ UNCHANGED <<count, total, object, got>>

Look(t) ==
  LET r == FirstLook(count[Here(t)], call[t].seen) IN
  /\ At(t, "look")
  /\ IF r # None THEN Retry(t, r)
     ELSE Then(t, <<Step("attach", Here(t))>>) /\ UNCHANGED call
  /\ UNCHANGED <<count, total, object, got>>

Attach(t) ==
  LET s == Here(t)
      r == SecondLook(count[s], call[t].seen) IN
  /\ At(t, "attach")
  /\ IF r # None
     THEN Retry(t, r) /\ UNCHANGED count
     ELSE /\ count' = [count EXCEPT ![s] = Registered(@, t)]
          /\ Then(t, <<Step("blocked", s)>>)
          /\ UNCHANGED call
  /\ UNCHANGED <<total, object, got>>

Wake(t) ==
  /\ At(t, "blocked")
  /\ count[Here(t)].outcome[t] # None
  /\ Retry(t, count[Here(t)].outcome[t])
  /\ count' = [count EXCEPT ![Here(t)] = Handled(@, t)]
  /\ UNCHANGED <<total, object, got>>

\* Grant{issuer, count}, or the status.
Return(t) ==
  LET g == call[t].place IN
  /\ At(t, "return")
  /\ IF call[t].status = "ok"
     THEN /\ object' = [object EXCEPT ![g] = "live"]
          /\ count' = [count EXCEPT ![g] = NewWatch(got[t])]
     ELSE /\ object' = [object EXCEPT ![g] = "none"]
          /\ UNCHANGED count
  /\ got' = [got EXCEPT ![t] = 0]
  /\ call' = [call EXCEPT ![t] = NoCall]
  /\ Then(t, << >>)
  /\ UNCHANGED total

-----------------------------------------------------------------------------
(* The operations.                                                         *)

Begin(t, steps) == Idle(t) /\ todo' = [todo EXCEPT ![t] = steps]

transfer_impl(t, s, n, w, place) ==
  /\ Begin(t, <<Step("modify", s)>>)
  /\ object[place] = "none" /\ ~InUse(place)
  /\ object' = [object EXCEPT ![place] = "reserved"]
  /\ call' = [call EXCEPT ![t] = [NoCall EXCEPT !.place = place, !.want = n,
                                                !.wait = w]]
  /\ UNCHANGED <<count, total, got>>

issue_grant(t, n, w, place) == transfer_impl(t, Issuer, n, w, place)

\* A grant that has been moved from has no issuer: kFailedPrecondition.
spend(t, g, n, w, place) == HasIssuer(g) /\ transfer_impl(t, g, n, w, place)

\* spend_all gives everything back to the issuer (recycle).
Recycled_Lost(g) == <<Step("take", g)>>
Recycled(g) == <<Step("take", g), Step("add", Issuer)>>
spend_all(t, g) ==
  /\ HasIssuer(g)
  /\ Begin(t, Recycled(g))
  /\ UNCHANGED <<count, total, object, got, call>>

\* On a grant that has been moved from, spend_all does nothing.
Revoked(g) ==
  (IF object[g] = "live" THEN Recycled(g) ELSE << >>) \o <<Step("close", g)>>
revoke(t, g) ==
  /\ Holds(g)
  /\ Begin(t, Revoked(g))
  /\ UNCHANGED <<count, total, object, got, call>>

\* ~Grant
Destroy(t, g) ==
  /\ Holds(g) /\ ~InUse(g)
  /\ Begin(t, Revoked(g) \o <<Step("free", g)>>)
  /\ object' = [object EXCEPT ![g] = "dying"]
  /\ UNCHANGED <<count, total, got, call>>

\* g.subsume(std::move(h)); it panics when g has no issuer and h has one.
subsume(t, g, h) ==
  /\ HasIssuer(g) /\ HasIssuer(h)
  /\ Begin(t, <<Step("take", h), Step("add", g)>>)
  /\ UNCHANGED <<count, total, object, got, call>>

\* g.swap(h)
swap(t, g, h) ==
  /\ Holds(g) /\ Holds(h) /\ g # h
  /\ ConcurrentSwaps \/ (~InUse(g) /\ ~InUse(h))
  /\ Begin(t, <<Step("take", h), Step("exchange", g), Step("put", h)>>)
  /\ object' = [object EXCEPT ![g] = object[h], ![h] = object[g]]
  /\ UNCHANGED <<count, total, got, call>>

\* Grant{std::move(g)} at the place h
Move(t, g, h) ==
  /\ Idle(t) /\ Holds(g) /\ ~InUse(g)
  /\ object[h] = "none" /\ ~InUse(h)
  /\ object' = [object EXCEPT ![h] = object[g], ![g] = "moved"]
  /\ count' = [count EXCEPT ![h] = NewWatch(count[g].value), ![g].value = 0]
  /\ UNCHANGED <<total, todo, got, call>>

grow(t, n) ==
  /\ total + n =< MaxTotal
  /\ Begin(t, <<Step("add", Issuer)>>)
  /\ total' = total + n
  /\ got' = [got EXCEPT ![t] = n]
  /\ UNCHANGED <<count, object, call>>

close(t) ==
  /\ count[Issuer].final = None
  /\ Begin(t, <<Step("close", Issuer)>>)
  /\ UNCHANGED <<count, total, object, got, call>>

-----------------------------------------------------------------------------
Progress(t) ==
  \/ Take(t) \/ Exchange(t) \/ Put(t) \/ Add(t) \/ Announce(t)
  \/ CloseWatch(t) \/ Free(t) \/ Modify(t) \/ Unavailable(t) \/ Load(t)
  \/ Look(t) \/ Attach(t) \/ Wake(t) \/ Return(t)

Calls(t) ==
  \/ \E n \in Counts, w \in BOOLEAN, place \in Grants :
       \/ issue_grant(t, n, w, place)
       \/ \E g \in Grants : spend(t, g, n, w, place)
  \/ \E g \in Grants : spend_all(t, g) \/ revoke(t, g) \/ Destroy(t, g)
  \/ \E g, h \in Grants : subsume(t, g, h) \/ swap(t, g, h) \/ Move(t, g, h)
  \/ \E n \in Counts \ {0} : grow(t, n)
  \/ close(t)

Next == \E t \in Threads : Progress(t) \/ Calls(t)

Spec == Init /\ [][Next]_vars

\* A thread that has called an operation goes on until it returns.
FairSpec == Spec /\ \A t \in Threads : WF_vars(Progress(t))

-----------------------------------------------------------------------------
\* Nothing is lost or made up: the pool, the grants and what is on its way
\* between them (transfer_impl, spend_all, subsume, grow) add up to the total
\* size, so that ~Issuer's check holds once every grant is gone.
Size == [s \in Sources |-> count[s].value]
Conservation == total = Total(Size) + Total(got)

\* What is left of the call of t, but for an announcement that comes first.
Core(t) == IF At(t, "announce") THEN Tail(todo[t]) ELSE todo[t]
Left(t) == Range(Core(t))

\* The steps of transfer_impl before its end.
Waits == {"modify", "unavailable", "load", "look", "attach", "blocked"}

\* What a call can have left while it has a count in hand, and when not.
Loaded(q) ==
  \/ \E s \in Sources, what \in {"add", "return"} : q = <<Step(what, s)>>
  \/ \E g \in Grants :
       \/ q = <<Step("add", Issuer), Step("close", g)>>
       \/ q = <<Step("add", Issuer), Step("close", g), Step("free", g)>>
       \/ q = <<Step("put", g)>>
       \/ \E h \in Grants \ {g} : q = <<Step("exchange", h), Step("put", g)>>
Unloaded(q) ==
  \/ q = << >>
  \/ \E s \in Sources, what \in Waits \cup {"close"} : q = <<Step(what, s)>>
  \/ \E g \in Grants :
       \/ q = <<Step("close", g), Step("free", g)>>
       \/ q = <<Step("free", g)>>
       \/ \E s \in Sources : q = <<Step("take", g), Step("add", s)>>
       \/ q = <<Step("take", g), Step("add", Issuer), Step("close", g)>>
       \/ q = <<Step("take", g), Step("add", Issuer), Step("close", g), Step("free", g)>>
       \/ \E h \in Grants \ {g} :
            q = <<Step("take", g), Step("exchange", h), Step("put", g)>>

\* A count is in hand only on its way to another watch or to a new grant.
Planned(t) == Loaded(Core(t)) \/ (Unloaded(Core(t)) /\ got[t] = 0)
CallsPlanned == \A t \in Threads : Planned(t)

\* transfer_impl has a place of its own for the new grant, and fails only with
\* nothing in hand.
Placed(t) ==
  \A x \in Left(t) :
    /\ x.do \in Waits \cup {"return"} =>
         /\ call[t].place \in Grants /\ object[call[t].place] = "reserved"
         /\ \A u \in Threads \ {t} : call[u].place # call[t].place
    /\ x.do \in Waits => call[t].status = "ok"
    /\ x.do = "return" /\ got[t] # 0 => call[t].status = "ok"
TransfersPlaced == \A t \in Threads : Placed(t)

Swaps(t, g) == Step("exchange", g) \in Left(t) \/ Step("put", g) \in Left(t)
Frees(t, g) == Step("free", g) \in Left(t)
Touches(t, g) == \E x \in Left(t) : x.at = g

\* A grant that is swapped or destroyed is used by no other call, only a grant
\* with an issuer is added to, and a place without a grant is not used at all.
Permitted(t, g) ==
  /\ Frees(t, g) => object[g] = "dying"
  /\ Step("add", g) \in Left(t) => object[g] = "live"
  /\ Touches(t, g) => object[g] \notin {"none", "reserved"}
CallsExclude ==
  \A t \in Threads, g \in Grants :
    /\ Swaps(t, g) \/ Frees(t, g) => \A u \in Threads \ {t} : ~Touches(u, g)
    /\ Permitted(t, g)

\* Whatever is about to be overwritten is zero: a place without a grant, the
\* first operand of a swap, a grant that is freed; and so is a grant that has
\* been moved from, or what is about to become its size.
ZeroPlace(g) ==
  \/ object[g] \in {"none", "reserved"}
  \/ object[g] = "moved" /\ \A t \in Threads : ~Swaps(t, g)
  => count[g].value = 0
ZeroOverwritten(t, g) ==
  /\ Frees(t, g) /\ Step("take", g) \notin Left(t) => count[g].value = 0
  /\ Core(t) = <<Step("put", g)>> =>
       count[g].value = 0 /\ (object[g] = "moved" => got[t] = 0)
  /\ \A h \in Grants \ {g} :
       /\ Core(t) = <<Step("exchange", h), Step("put", g)>> =>
            /\ count[g].value = 0
            /\ object[g] = "moved" => count[h].value = 0
            /\ object[h] = "moved" => got[t] = 0
       /\ Core(t) = <<Step("take", g), Step("exchange", h), Step("put", g)>> =>
            /\ object[g] = "moved" => count[h].value = 0
            /\ object[h] = "moved" => count[g].value = 0
OverwritesNothing ==
  /\ \A g \in Grants : ZeroPlace(g)
  /\ \A t \in Threads, g \in Grants : ZeroOverwritten(t, g)

\* The state is well-formed, so that no count is negative or above the largest
\* total size, nothing is lost, and nothing that counts is overwritten.
GrantInv ==
  /\ TypeOK /\ Conservation
  /\ CallsPlanned /\ TransfersPlaced /\ CallsExclude /\ OverwritesNothing

\* BATT_CHECK_EQ in ~Issuer: when no grant is left, and no call is under way,
\* the issuer has all of its total size back.
IssuerCheck ==
  (\A t \in Threads : Idle(t)) /\ (\A g \in Grants : object[g] = "none")
    => count[Issuer].value = total

\* The documentation of the class: "All of the following public methods are
\* thread-safe with respect to each other", swap included.
ThreadSafeDoc == Conservation

Transferring(t) ==
  \E what \in {"modify", "load", "look", "attach", "blocked"} : At(t, what)

\* transfer_impl: nobody waits for ever for a count that its source has.
NobodyStarves ==
  \A t \in Threads :
    ~<>[](Transferring(t) /\ Suffices(count[Here(t)].value, t))

\* revoke and Issuer::close: nobody waits for ever on a source that is closed
\* and whose value has come to rest.  (While it keeps changing, await_true may
\* find a new value each time it looks, and not see that the watch is closed.)
CloseReleases ==
  \A t \in Threads, v \in Counts :
    ~<>[](Transferring(t) /\ count[Here(t)].final # None /\ count[Here(t)].value = v)

\* No transfer waits for what its source has, or on a source that is closed.
TransfersEnd == NobodyStarves /\ CloseReleases
=============================================================================
