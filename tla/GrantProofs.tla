---------------------------- MODULE GrantProofs ----------------------------
(***************************************************************************)
(* Theorems about Grant, for any finite sets of threads and grants and any *)
(* counts, when swap is only called on grants that nobody else uses.       *)
(***************************************************************************)
EXTENDS GrantSteps

\* The elements of what is left of a call are elements of its steps.
LEMMA LeftAt ==
  ASSUME TypeOK, NEW u \in Threads, NEW x \in Left(u)
  PROVE  \E i \in 1..Len(todo[u]) : todo[u][i] = x
<1>1. todo[u] \in Seq(StepType)
  BY Zenon DEF TypeOK, StepType
<1>2. CASE At(u, "announce")
  <2> DEFINE q == Tail(todo[u])
  <2>1. todo[u] # << >> /\ Core(u) = q
    BY <1>2, Zenon DEF At, Core
  <2>2. /\ q \in Seq(StepType) /\ Len(q) = Len(todo[u]) - 1 /\ Len(todo[u]) \in Nat
        /\ \A i \in 1..Len(q) : q[i] = todo[u][i + 1]
    BY <1>1, <2>1
  <2> HIDE DEF q
  <2>3. PICK i \in 1..Len(q) : q[i] = x
    BY <2>1, <2>2 DEF Left, Range
  <2> QED BY <2>2, <2>3
<1>3. CASE ~At(u, "announce")
  BY <1>1, <1>3 DEF Core, Left, Range
<1> QED BY <1>2, <1>3, ZenonT(30)

\* The calls under way do not need a grant that is not in use.
LEMMA NotInUse ==
  ASSUME TypeOK, NEW g \in Grants, ~InUse(g), NEW u \in Threads
  PROVE  ~Touches(u, g) /\ ~Swaps(u, g) /\ ~Frees(u, g) /\ call[u].place # g
<1>1. ~Touches(u, g) /\ call[u].place # g
  BY LeftAt DEF InUse, Touches
<1> QED BY <1>1, Zenon DEF Touches, Swaps, Frees, Step

\* When swap is only called on grants that nobody else uses, a grant that is
\* held is swapped by no call under way.
LEMMA NotSwapped ==
  ASSUME TypeOK, ~ConcurrentSwaps, NEW g \in Grants, ~BeingSwapped(g), NEW u \in Threads
  PROVE  ~Swaps(u, g)
<1> SUFFICES ASSUME NEW x \in Left(u), x.do \in {"exchange", "put"}, x.at = g
             PROVE  FALSE
  BY Zenon DEF Swaps, Step
<1> QED BY LeftAt, Zenon DEF BeingSwapped

\* The call of t starts, with q left.
Starts(t, q) ==
  /\ todo' \in [Threads -> Seq(StepType)]
  /\ Core(t)' = q /\ Left(t)' = Range(q) /\ got[t] = 0
  /\ \A u \in Threads \ {t} : Core(u)' = Core(u)
  /\ \A k \in Grants : ~Swaps(t, k)
  /\ \A u \in Threads \ {t}, k \in Grants : Swaps(u, k)' <=> Swaps(u, k)

\* Begin starts a call, and nothing was in the hand of the thread.
LEMMA BeginStep ==
  ASSUME GrantInv, NEW t \in Threads, NEW q \in Seq(StepType), Begin(t, q),
         q # << >> => Head(q).do # "announce"
  PROVE  Starts(t, q)
<1>1. TypeOK /\ CallsPlanned
  BY Zenon DEF GrantInv
<1>2. todo[t] = << >> /\ todo' = [todo EXCEPT ![t] = q]
  BY ZenonT(30) DEF Begin, Idle
<1>3. Core(t) = << >>
  BY <1>2, Zenon DEF Core, At
<1>4. got[t] = 0
  BY <1>1, <1>3, SMTT(30) DEF CallsPlanned, Planned, Loaded
<1>5. \A k \in Grants : ~Swaps(t, k)
  BY <1>3, Elements, ZenonT(30) DEF Swaps, Left
<1>6. << >> \o q = q /\ Issuer \in Sources
  BY Front DEF Sources
<1>7. /\ todo' \in [Threads -> Seq(StepType)]
      /\ Core(t)' = q /\ \A u \in Threads \ {t} : Core(u)' = Core(u)
  BY <1>1, <1>2, <1>6, CoreIs, Zenon
<1>8. Left(t)' = Range(q) /\ \A u \in Threads \ {t} : Left(u)' = Left(u)
  BY <1>7, Zenon DEF Left
<1> QED BY <1>4, <1>5, <1>7, <1>8, SameLeft, ZenonT(30) DEF Starts

\* A call without a step that puts overwrites nothing but what it frees.
LEMMA NothingPut ==
  ASSUME NEW t \in Threads, NEW k \in Grants, \A z \in Left(t)' : z.do # "put",
         Frees(t, k)' => (Step("take", k) \in Left(t))' \/ count'[k].value = 0
  PROVE  ZeroOverwritten(t, k)' /\ ~(Step("put", k) \in Left(t))'
<1>1. (Step("put", k) \notin Left(t))'
  BY ZenonT(30) DEF Step
<1>2. (Core(t) # <<Step("put", k)>>)'
  BY <1>1, Elements, ZenonT(30) DEF Left
<1>3. ASSUME NEW h \in Grants
      PROVE  (/\ Core(t) # <<Step("exchange", h), Step("put", k)>>
              /\ Core(t) # <<Step("take", k), Step("exchange", h), Step("put", k)>>)'
  BY <1>1, Elements, SMTT(30) DEF Left
<1> QED BY <1>1, <1>2, <1>3, Zenon DEF ZeroOverwritten

\* The steps of a call that takes, adds and closes, on grants that are held.
Held(q) ==
  \A z \in Range(q) :
    /\ z.do \in {"take", "add", "close"}
    /\ z.at \in Grants => /\ object[z.at] \in {"live", "moved"}
                          /\ \A u \in Threads : ~Swaps(u, z.at)
    /\ z.at \in Grants /\ z.do = "add" => object[z.at] = "live"

\* A call that starts with q left, and n in hand by which the total grows.
LEMMA PlainCall ==
  ASSUME GrantInv, NEW t \in Threads, NEW q \in Seq(StepType), Starts(t, q), Held(q),
         NEW n \in Counts, got' = [got EXCEPT ![t] = n],
         total' = total + n, total' \in Counts, UNCHANGED <<count, object, call>>,
         Loaded(q) \/ (Unloaded(q) /\ n = 0)
  PROVE  GrantInv'
<1>1. TypeOK /\ Conservation /\ CallsExclude /\ OverwritesNothing
  BY Zenon DEF GrantInv
<1>2. /\ todo' \in [Threads -> Seq(StepType)]
      /\ Core(t)' = q /\ Left(t)' = Range(q) /\ got[t] = 0
      /\ \A u \in Threads \ {t} : Core(u)' = Core(u)
      /\ \A k \in Grants : ~Swaps(t, k)
      /\ \A u \in Threads \ {t}, k \in Grants : Swaps(u, k)' <=> Swaps(u, k)
  BY Zenon DEF Starts
<1>3. /\ got' \in [Threads -> Counts] /\ got'[t] = n
      /\ \A u \in Threads \ {t} : got'[u] = got[u]
  BY <1>1, ZenonT(30) DEF TypeOK
<1>4. TypeOK'
  BY <1>1, <1>2, <1>3, ZenonT(30) DEF TypeOK, StepType
<1>5. Issuer \in Sources /\ count[Issuer].value \in Int /\ total \in Int /\ n \in Int
  BY <1>1 DEF TypeOK, Sources, WatchOf, Counts
<1>6. Conservation'
  <2>1. count'[Issuer].value + got'[t] - total' = count[Issuer].value + got[t] - total
    BY <1>2, <1>3, <1>5, SMTT(30)
  <2> QED BY <1>1, <1>3, <1>4, <1>5, <2>1, SumsStep, ZenonT(30)
<1>7. ASSUME NEW k \in Grants
      PROVE  /\ ~Swaps(t, k)' /\ ~Frees(t, k)'
             /\ Touches(t, k)' => \A u \in Threads : ~Swaps(u, k) /\ ~Frees(u, k)
             /\ Permitted(t, k)' /\ ZeroOverwritten(t, k)'
  <2>1. \A z \in Left(t)' : z.do \in {"take", "add", "close"}
    BY <1>2, Zenon DEF Held
  <2>2. ~Frees(t, k)' /\ ~Swaps(t, k)'
    BY <2>1, ZenonT(30) DEF Frees, Swaps, Step
  <2>3. ZeroOverwritten(t, k)'
    BY <2>1, <2>2, NothingPut, ZenonT(30)
  <2>4. Touches(t, k)' => object[k] \in {"live", "moved"} /\ \A u \in Threads : ~Swaps(u, k)
    BY <1>2, ZenonT(30) DEF Touches, Held
  <2>5. object[k] \in {"live", "moved"} => \A u \in Threads : ~Frees(u, k)
    BY <1>1, Zenon DEF CallsExclude, Permitted
  <2>6. (Step("add", k) \in Left(t))' => object[k] = "live"
    BY <1>2 DEF Step, Held
  <2>7. Permitted(t, k)'
    BY <2>2, <2>4, <2>6, ZenonT(30) DEF Permitted
  <2> QED BY <2>2, <2>3, <2>4, <2>5, <2>7, ZenonT(30)
<1>8. ASSUME NEW k \in Grants
      PROVE  ZeroPlace(k)'
  <2>1. \A u \in Threads : Swaps(u, k)' <=> Swaps(u, k)
    BY <1>2, <1>7, Zenon
  <2> QED BY <1>1, <2>1, ZenonT(30) DEF OverwritesNothing, ZeroPlace
<1>9. OthersKept(t)
  BY <1>2, <1>3, ZenonT(30) DEF OthersKept
<1>10. UsesKept(t)
  BY <1>7, ZenonT(30) DEF UsesKept
<1>11. OwnKept(t)
  <2>1. Placed(t)'
    BY <1>2, Zenon DEF Placed, Held, Waits
  <2>2. Planned(t)'
    BY <1>2, <1>3, ZenonT(30) DEF Planned, Loaded, Unloaded, Step
  <2> QED BY <1>7, <1>8, <2>1, <2>2, ZenonT(30) DEF OwnKept
<1> QED BY <1>4, <1>6, <1>9, <1>10, <1>11, OwnStep, ZenonT(30)

\* The calls that only read what they start with.
LEMMA QuietCall ==
  ASSUME GrantInv, NEW t \in Threads, NEW q \in Seq(StepType), Begin(t, q),
         q # << >> => Head(q).do # "announce",
         UNCHANGED <<count, total, object, got, call>>, Unloaded(q), Held(q)
  PROVE  GrantInv'
<1>1. TypeOK /\ Starts(t, q)
  BY BeginStep, ZenonT(30) DEF GrantInv
<1>2. got' = [got EXCEPT ![t] = 0] /\ total' = total + 0 /\ total' \in Counts /\ 0 \in Counts
  BY <1>1, GrantConstants, SMTT(30) DEF TypeOK, Counts, Starts
<1> QED BY <1>1, <1>2, PlainCall, ZenonT(30)

\* A grant that is held, and one with an issuer.
LEMMA HeldGrant ==
  ASSUME TypeOK, ~ConcurrentSwaps, NEW g \in Grants, Holds(g) \/ HasIssuer(g)
  PROVE  /\ object[g] \in {"live", "moved"} /\ (HasIssuer(g) => object[g] = "live")
         /\ \A u \in Threads : ~Swaps(u, g)
         /\ g \in Sources /\ g # Issuer
BY NotSwapped, GrantConstants, ZenonT(30) DEF Holds, HasIssuer, Sources

\* spend_all keeps the invariant.
LEMMA SpendAllStep ==
  ASSUME GrantInv, ~ConcurrentSwaps, NEW t \in Threads, NEW g \in Grants, spend_all(t, g)
  PROVE  GrantInv'
<1> DEFINE x == Step("take", g)
           y == Step("add", Issuer)
           q == <<x, y>>
<1>1. /\ x.do = "take" /\ x.at = g /\ y.do = "add" /\ y.at = Issuer
      /\ x \in StepType /\ y \in StepType /\ Issuer \notin Grants
  BY GrantConstants, ZenonT(30) DEF Step, StepType, Steps, Sources
<1>2. Unloaded(q)
  BY Zenon DEF Unloaded, Sources
<1>3. Begin(t, q) /\ UNCHANGED <<count, total, object, got, call>> /\ HasIssuer(g)
  BY ZenonT(30) DEF spend_all, Recycled
<1> HIDE DEF x, y
<1>4. q \in Seq(StepType) /\ Head(q) = x /\ Range(q) = {x, y}
  BY <1>1, Tails, Elements, SeqsOf, ZenonT(30)
<1>5. object[g] = "live" /\ \A u \in Threads : ~Swaps(u, g)
  BY <1>3, HeldGrant, ZenonT(30) DEF GrantInv
<1> HIDE DEF q
<1>6. Held(q)
  BY <1>1, <1>4, <1>5, ZenonT(30) DEF Held
<1> QED BY <1>1, <1>2, <1>3, <1>4, <1>6, QuietCall, ZenonT(30)

\* revoke keeps the invariant.
LEMMA RevokeStep ==
  ASSUME GrantInv, ~ConcurrentSwaps, NEW t \in Threads, NEW g \in Grants, revoke(t, g)
  PROVE  GrantInv'
<1> DEFINE x == Step("take", g)
           y == Step("add", Issuer)
           z == Step("close", g)
           q == Revoked(g)
<1>1. /\ x.do = "take" /\ x.at = g /\ y.do = "add" /\ y.at = Issuer
      /\ z.do = "close" /\ z.at = g
      /\ x \in StepType /\ y \in StepType /\ z \in StepType /\ Issuer \notin Grants
  BY GrantConstants, Zenon DEF Step, StepType, Steps, Sources
<1>2. Begin(t, q) /\ UNCHANGED <<count, total, object, got, call>> /\ Holds(g)
  BY ZenonT(30) DEF revoke
<1>3. q = <<x, y, z>> \/ q = <<z>>
  <2>1. <<x, y>> \o <<z>> = <<x, y, z>> /\ << >> \o <<z>> = <<z>>
    BY Joined, ZenonT(30)
  <2> QED BY <2>1, Zenon DEF Revoked, Recycled
<1>4. Unloaded(q)
  BY <1>3, ZenonT(30) DEF Unloaded, Sources
<1> HIDE DEF q, x, y, z
<1>5. q \in Seq(StepType)
  BY <1>1, <1>3, SeqsOf, ZenonT(30)
<1>6. Head(q).do # "announce" /\ Range(q) \subseteq {x, y, z}
  BY <1>1, <1>3, Tails, Elements, SMTT(30)
<1>7. object[g] \in {"live", "moved"} /\ \A u \in Threads : ~Swaps(u, g)
  BY <1>2, HeldGrant, ZenonT(30) DEF GrantInv
<1>8. Held(q)
  BY <1>1, <1>6, <1>7, ZenonT(30) DEF Held
<1> QED BY <1>2, <1>4, <1>5, <1>6, <1>8, QuietCall, ZenonT(30)

\* subsume keeps the invariant.
LEMMA SubsumeStep ==
  ASSUME GrantInv, ~ConcurrentSwaps, NEW t \in Threads, NEW g \in Grants, NEW h \in Grants,
         subsume(t, g, h)
  PROVE  GrantInv'
<1> DEFINE x == Step("take", h)
           y == Step("add", g)
           q == <<x, y>>
<1>1. /\ x.do = "take" /\ x.at = h /\ y.do = "add" /\ y.at = g
      /\ x \in StepType /\ y \in StepType
  BY Zenon DEF Step, StepType, Steps, Sources
<1>2. Unloaded(q)
  BY Zenon DEF Unloaded, Sources
<1>3. /\ Begin(t, q) /\ UNCHANGED <<count, total, object, got, call>>
      /\ HasIssuer(g) /\ HasIssuer(h)
  BY ZenonT(30) DEF subsume
<1> HIDE DEF x, y
<1>4. q \in Seq(StepType) /\ Head(q) = x /\ Range(q) = {x, y}
  BY <1>1, Tails, Elements, SeqsOf, ZenonT(30)
<1>5. object[g] = "live" /\ \A u \in Threads : ~Swaps(u, g)
  BY <1>3, HeldGrant, ZenonT(30) DEF GrantInv
<1>6. object[h] = "live" /\ \A u \in Threads : ~Swaps(u, h)
  BY <1>3, HeldGrant, ZenonT(30) DEF GrantInv
<1> HIDE DEF q
<1>7. Held(q)
  BY <1>1, <1>4, <1>5, <1>6, ZenonT(30) DEF Held
<1> QED BY <1>1, <1>2, <1>3, <1>4, <1>7, QuietCall, ZenonT(30)

\* Issuer::grow keeps the invariant: the total grows with the hand.
LEMMA GrowStep ==
  ASSUME GrantInv, NEW t \in Threads, NEW n \in Counts, grow(t, n)
  PROVE  GrantInv'
<1> DEFINE x == Step("add", Issuer)
           q == <<x>>
<1>1. x.do = "add" /\ x.at = Issuer /\ x \in StepType /\ Issuer \notin Grants
  BY GrantConstants, ZenonT(30) DEF Step, StepType, Steps, Sources
<1>2. Loaded(q)
  BY Zenon DEF Loaded, Sources
<1>3. /\ Begin(t, q) /\ got' = [got EXCEPT ![t] = n] /\ total' = total + n
      /\ total + n =< MaxTotal /\ UNCHANGED <<count, object, call>>
  BY ZenonT(30) DEF grow
<1>4. total' \in Counts
  BY <1>3, GrantConstants, SMTT(30) DEF GrantInv, TypeOK, Counts
<1> HIDE DEF x
<1>5. q \in Seq(StepType) /\ Head(q) = x /\ Range(q) = {x}
  BY <1>1, Tails, Elements, SeqsOf, ZenonT(30)
<1> HIDE DEF q
<1>6. Held(q)
  BY <1>1, <1>5, ZenonT(30) DEF Held
<1>7. Starts(t, q) /\ q \in Seq(StepType) /\ Held(q)
  BY <1>1, <1>3, <1>5, <1>6, BeginStep, ZenonT(30)
<1> QED BY <1>2, <1>3, <1>4, <1>7, PlainCall, ZenonT(30)

\* Issuer::close keeps the invariant.
LEMMA CloseIssuerStep ==
  ASSUME GrantInv, NEW t \in Threads, close(t)
  PROVE  GrantInv'
<1> DEFINE x == Step("close", Issuer)
           q == <<x>>
<1>1. x.do = "close" /\ x.at = Issuer /\ x \in StepType /\ Issuer \notin Grants
  BY GrantConstants, ZenonT(30) DEF Step, StepType, Steps, Sources
<1>2. Unloaded(q)
  BY Zenon DEF Unloaded, Sources
<1>3. Begin(t, q) /\ UNCHANGED <<count, total, object, got, call>>
  BY ZenonT(30) DEF close
<1> HIDE DEF x
<1>4. q \in Seq(StepType) /\ Head(q) = x /\ Range(q) = {x}
  BY <1>1, Tails, Elements, SeqsOf, ZenonT(30)
<1> HIDE DEF q
<1>5. Held(q)
  BY <1>1, <1>4, ZenonT(30) DEF Held
<1> QED BY <1>1, <1>2, <1>3, <1>4, <1>5, QuietCall, ZenonT(30)

\* issue_grant and spend reserve a place that nobody uses.
LEMMA CallTransferStep ==
  ASSUME GrantInv, NEW t \in Threads, NEW s \in Sources, NEW n \in Counts,
         NEW w \in BOOLEAN, NEW place \in Grants, transfer_impl(t, s, n, w, place),
         s \in Grants => object[s] = "live" /\ \A u \in Threads : ~Swaps(u, s)
  PROVE  GrantInv'
<1> DEFINE x == Step("modify", s)
           q == <<x>>
           c == [NoCall EXCEPT !.place = place, !.want = n, !.wait = w]
<1>1. TypeOK /\ Conservation /\ CallsExclude /\ OverwritesNothing
  BY ZenonT(30) DEF GrantInv
<1>2. x.do = "modify" /\ x.at = s /\ x \in StepType
  BY Zenon DEF Step, StepType, Steps
<1>3. /\ Begin(t, q) /\ object[place] = "none" /\ ~InUse(place)
      /\ object' = [object EXCEPT ![place] = "reserved"]
      /\ call' = [call EXCEPT ![t] = c]
      /\ UNCHANGED <<count, total, got>>
  BY ZenonT(30) DEF transfer_impl
<1>4. c \in CallType /\ c.place = place /\ c.status = "ok"
  <2>1. NoCall \in CallType /\ NoCall.status = "ok"
    BY GrantConstants DEF NoCall, CallType, Counts, Codes
  <2>2. \A N \in CallType :
          /\ [N EXCEPT !.place = place, !.want = n, !.wait = w] \in CallType
          /\ [N EXCEPT !.place = place, !.want = n, !.wait = w].place = place
          /\ [N EXCEPT !.place = place, !.want = n, !.wait = w].status = N.status
    BY Zenon DEF CallType
  <2> QED BY <2>1, <2>2, ZenonT(30)
<1> HIDE DEF x, c
<1>5. q \in Seq(StepType) /\ Head(q) = x
  BY <1>2, Tails, SeqsOf, ZenonT(30)
<1>6. /\ todo' \in [Threads -> Seq(StepType)]
      /\ Core(t)' = q /\ Left(t)' = Range(q) /\ got[t] = 0
      /\ \A u \in Threads \ {t} : Core(u)' = Core(u)
      /\ \A k \in Grants : ~Swaps(t, k)
      /\ \A u \in Threads \ {t}, k \in Grants : Swaps(u, k)' <=> Swaps(u, k)
  <2> HIDE DEF q
  <2> QED BY <1>2, <1>3, <1>5, BeginStep, ZenonT(30) DEF Starts
<1>7. "modify" \in Waits /\ "modify" \in Waits \cup {"return", "add", "close"}
  BY ZenonT(30) DEF Waits
<1>8. /\ Left(t)' = {x} /\ Unloaded(Core(t)')
      /\ \A k \in Grants :
           /\ ~Swaps(t, k)' /\ ~Frees(t, k)' /\ (Touches(t, k)' => k = s)
           /\ (Step("add", k) \notin Left(t))' /\ ZeroOverwritten(t, k)'
  BY <1>6, <1>7, OneLeft, SMTT(30) DEF x
<1>9. /\ object' \in [Grants -> Objects] /\ object'[place] = "reserved"
      /\ \A k \in Grants \ {place} : object'[k] = object[k]
      /\ call' \in [Threads -> CallType] /\ call'[t] = c
      /\ \A u \in Threads \ {t} : call'[u] = call[u]
  BY <1>1, <1>3, <1>4, ZenonT(30) DEF TypeOK, CallType, Objects
<1>10. TypeOK'
  BY <1>1, <1>3, <1>6, <1>9, Zenon DEF TypeOK, CallType, StepType
<1>11. Conservation'
  BY <1>1, <1>3, <1>10, SameSizes, ZenonT(30)
<1>12. \A u \in Threads : ~Touches(u, place) /\ call[u].place # place
  BY <1>1, <1>3, NotInUse, ZenonT(30)
<1>13. s \in Grants => s # place /\ \A u \in Threads : ~Swaps(u, s) /\ ~Frees(u, s)
  BY <1>1, <1>3, ZenonT(30) DEF CallsExclude, Permitted
<1>14. ASSUME NEW k \in Grants
       PROVE  ZeroPlace(k)'
  <2>1. \A u \in Threads : Swaps(u, k)' <=> Swaps(u, k)
    BY <1>6, <1>8, ZenonT(30)
  <2>2. CASE k = place
    BY <1>1, <1>3, <2>2, ZenonT(30) DEF OverwritesNothing, ZeroPlace
  <2>3. CASE k # place
    BY <1>1, <1>3, <1>9, <2>1, <2>3, ZenonT(30) DEF OverwritesNothing, ZeroPlace
  <2> QED BY <2>2, <2>3, ZenonT(30)
<1>15. OthersKept(t)
  BY <1>3, <1>6, <1>9, Zenon DEF OthersKept
<1>16. UsesKept(t)
  BY <1>3, <1>4, <1>8, <1>9, <1>12, <1>13, SMTT(30) DEF UsesKept
<1>17. OwnKept(t)
  <2>1. Planned(t)'
    BY <1>3, <1>6, <1>8, ZenonT(30) DEF Planned, Unloaded, Step
  <2>2. Placed(t)'
    BY <1>2, <1>4, <1>8, <1>9, <1>12, ZenonT(30) DEF Placed
  <2>3. \A k \in Grants : Permitted(t, k)'
    BY <1>8, <1>9, <1>13, ZenonT(30) DEF Permitted, Step
  <2> QED BY <1>8, <1>14, <2>1, <2>2, <2>3, Zenon DEF OwnKept
<1> QED BY <1>10, <1>11, <1>15, <1>16, <1>17, OwnStep, ZenonT(30)

\* ~Grant: nobody uses the grant, and one that has been moved from is empty.
LEMMA DestroyStep ==
  ASSUME GrantInv, ~ConcurrentSwaps, NEW t \in Threads, NEW g \in Grants, Destroy(t, g)
  PROVE  GrantInv'
<1> DEFINE x == Step("take", g)
           y == Step("add", Issuer)
           z == Step("close", g)
           f == Step("free", g)
           q == Revoked(g) \o <<f>>
<1>1. TypeOK /\ Conservation /\ OverwritesNothing
  BY ZenonT(30) DEF GrantInv
<1>2. /\ x.do = "take" /\ x.at = g /\ y.do = "add" /\ y.at = Issuer
      /\ z.do = "close" /\ z.at = g /\ f.do = "free" /\ f.at = g
      /\ x \in StepType /\ y \in StepType /\ z \in StepType /\ f \in StepType
      /\ Issuer \notin Grants
  BY GrantConstants, Zenon DEF Step, StepType, Steps, Sources
<1>3. /\ Begin(t, q) /\ Holds(g) /\ ~InUse(g)
      /\ object' = [object EXCEPT ![g] = "dying"]
      /\ UNCHANGED <<count, total, got, call>>
  BY ZenonT(30) DEF Destroy
<1>4. \/ object[g] = "live" /\ q = <<x, y, z, f>>
      \/ object[g] # "live" /\ q = <<z, f>>
  <2>1. /\ <<x, y>> \o <<z>> = <<x, y, z>> /\ << >> \o <<z>> = <<z>>
        /\ <<x, y, z>> \o <<f>> = <<x, y, z, f>> /\ <<z>> \o <<f>> = <<z, f>>
    BY Joined
  <2> QED BY <2>1, Zenon DEF Revoked, Recycled
<1>5. Unloaded(q)
  BY <1>4, Zenon DEF Unloaded, Sources
<1> HIDE DEF q, x, y, z, f
<1>6. q \in Seq(StepType)
  BY <1>2, <1>4, SeqsOf, ZenonT(30)
<1>7. /\ Head(q).do # "announce" /\ Range(q) \subseteq {x, y, z, f}
      /\ object[g] = "live" => x \in Range(q)
  BY <1>2, <1>4, Tails, Elements, SMTT(30)
<1>8. /\ todo' \in [Threads -> Seq(StepType)]
      /\ Core(t)' = q /\ Left(t)' = Range(q) /\ got[t] = 0
      /\ \A u \in Threads \ {t} : Core(u)' = Core(u)
      /\ \A k \in Grants : ~Swaps(t, k)
      /\ \A u \in Threads \ {t}, k \in Grants : Swaps(u, k)' <=> Swaps(u, k)
  BY <1>3, <1>6, <1>7, BeginStep, ZenonT(30) DEF Starts
<1>9. /\ object' \in [Grants -> Objects] /\ object'[g] = "dying"
      /\ \A k \in Grants \ {g} : object'[k] = object[k]
      /\ object[g] \in {"live", "moved"}
  BY <1>1, <1>3, ZenonT(30) DEF TypeOK, Objects, Holds
<1>10. TypeOK'
  BY <1>1, <1>3, <1>8, <1>9, ZenonT(30) DEF TypeOK, StepType
<1>11. Conservation'
  BY <1>1, <1>3, <1>10, SameSizes, ZenonT(30)
<1>12. \A u \in Threads : ~Touches(u, g) /\ ~Swaps(u, g) /\ ~Frees(u, g) /\ call[u].place # g
  BY <1>1, <1>3, NotInUse, ZenonT(30)
<1>13. \A w \in Left(t)' :
         /\ w.do \in {"take", "add", "close", "free"}
         /\ w.at \in Grants => w.at = g /\ w.do # "add"
  BY <1>2, <1>7, <1>8, ZenonT(30)
<1>14. ASSUME NEW k \in Grants
       PROVE  /\ ~Swaps(t, k)' /\ (Frees(t, k)' => k = g) /\ (Touches(t, k)' => k = g)
              /\ (Step("add", k) \notin Left(t))'
  BY <1>13, Zenon DEF Swaps, Frees, Touches, Step
<1>15. ASSUME NEW k \in Grants
       PROVE  ZeroPlace(k)'
  <2>1. \A u \in Threads : Swaps(u, k)' <=> Swaps(u, k)
    BY <1>8, <1>14, ZenonT(30)
  <2>2. CASE k = g
    BY <1>9, <2>2, ZenonT(30) DEF ZeroPlace
  <2>3. CASE k # g
    BY <1>1, <1>3, <1>9, <2>1, <2>3, ZenonT(30) DEF OverwritesNothing, ZeroPlace
  <2> QED BY <2>2, <2>3, ZenonT(30)
<1>16. ASSUME NEW k \in Grants
       PROVE  ZeroOverwritten(t, k)'
  <2>1. object[g] # "live" => count'[g].value = 0
    BY <1>1, <1>3, <1>9, <1>12, ZenonT(30) DEF OverwritesNothing, ZeroPlace
  <2>2. object[g] = "live" => (Step("take", g) \in Left(t))'
    BY <1>7, <1>8, ZenonT(30) DEF x, Step
  <2>3. Frees(t, k)' => (Step("take", k) \in Left(t))' \/ count'[k].value = 0
    BY <1>14, <2>1, <2>2, ZenonT(30)
  <2>4. \A w \in Left(t)' : w.do # "put"
    BY <1>13, ZenonT(30)
  <2> QED BY <2>3, <2>4, NothingPut, ZenonT(30)
<1>17. OthersKept(t)
  BY <1>3, <1>8, ZenonT(30) DEF OthersKept
<1>18. UsesKept(t)
  BY <1>3, <1>9, <1>12, <1>14, ZenonT(30) DEF UsesKept
<1>19. OwnKept(t)
  <2>1. Planned(t)'
    BY <1>3, <1>5, <1>8, ZenonT(30) DEF Planned, Unloaded, Step
  <2>2. Placed(t)'
    BY <1>13, Zenon DEF Placed, Waits
  <2>3. \A k \in Grants : Permitted(t, k)'
    BY <1>9, <1>14, ZenonT(30) DEF Permitted, Step
  <2> QED BY <1>15, <1>16, <2>1, <2>2, <2>3, ZenonT(30) DEF OwnKept
<1> QED BY <1>10, <1>11, <1>17, <1>18, <1>19, OwnStep, ZenonT(30)

\* swap, on two grants that nobody else uses.
LEMMA SwapStep ==
  ASSUME GrantInv, ~ConcurrentSwaps, NEW t \in Threads, NEW g \in Grants, NEW h \in Grants,
         swap(t, g, h)
  PROVE  GrantInv'
<1> DEFINE x == Step("take", h)
           y == Step("exchange", g)
           z == Step("put", h)
           q == <<x, y, z>>
<1>1. TypeOK /\ Conservation /\ OverwritesNothing
  BY Zenon DEF GrantInv
<1>2. /\ x.do = "take" /\ x.at = h /\ y.do = "exchange" /\ y.at = g
      /\ z.do = "put" /\ z.at = h
      /\ x \in StepType /\ y \in StepType /\ z \in StepType
  BY Zenon DEF Step, StepType, Steps, Sources
<1>3. /\ Begin(t, q) /\ Holds(g) /\ Holds(h) /\ g # h /\ ~InUse(g) /\ ~InUse(h)
      /\ object' = [object EXCEPT ![g] = object[h], ![h] = object[g]]
      /\ UNCHANGED <<count, total, got, call>>
  BY ZenonT(30) DEF swap
<1>4. Unloaded(q)
  BY <1>3, ZenonT(30) DEF Unloaded
<1>5. q \in Seq(StepType) /\ Head(q).do # "announce" /\ Range(q) = {x, y, z}
  BY <1>2, SeqsOf, Tails, Elements, SMTT(30)
<1> HIDE DEF q
<1>6. /\ todo' \in [Threads -> Seq(StepType)]
      /\ Core(t)' = q /\ Left(t)' = Range(q) /\ got[t] = 0
      /\ \A u \in Threads \ {t} : Core(u)' = Core(u)
      /\ \A k \in Grants : ~Swaps(t, k)
      /\ \A u \in Threads \ {t}, k \in Grants : Swaps(u, k)' <=> Swaps(u, k)
  BY <1>3, <1>5, BeginStep, ZenonT(30) DEF Starts
<1>7. /\ object' \in [Grants -> Objects] /\ object'[g] = object[h] /\ object'[h] = object[g]
      /\ \A k \in Grants \ {g, h} : object'[k] = object[k]
      /\ object[g] \in {"live", "moved"} /\ object[h] \in {"live", "moved"}
  BY <1>1, <1>3, ZenonT(30) DEF TypeOK, Holds
<1>8. TypeOK'
  BY <1>1, <1>3, <1>6, <1>7, ZenonT(30) DEF TypeOK, StepType
<1>9. Conservation'
  BY <1>1, <1>3, <1>8, SameSizes, ZenonT(30)
<1>10. \A u \in Threads :
         /\ ~Touches(u, g) /\ ~Swaps(u, g) /\ ~Frees(u, g) /\ call[u].place # g
         /\ ~Touches(u, h) /\ ~Swaps(u, h) /\ ~Frees(u, h) /\ call[u].place # h
  BY <1>1, <1>3, NotInUse, ZenonT(30)
<1>11. /\ object[g] = "moved" => count[g].value = 0
       /\ object[h] = "moved" => count[h].value = 0
  BY <1>1, <1>10, ZenonT(30) DEF OverwritesNothing, ZeroPlace
<1>12. ASSUME NEW k \in Grants
       PROVE  /\ ~Frees(t, k)' /\ (Swaps(t, k)' \/ Touches(t, k)' => k \in {g, h})
              /\ (Step("add", k) \notin Left(t))'
  BY <1>5, <1>6 DEF Swaps, Frees, Touches, Step
<1>13. Swaps(t, g)' /\ Swaps(t, h)'
  BY <1>5, <1>6, ZenonT(30) DEF Swaps, Step
<1>14. ASSUME NEW k \in Grants
       PROVE  ZeroPlace(k)'
  <2>1. CASE k \in {g, h}
    BY <1>7, <1>13, <2>1, ZenonT(30) DEF ZeroPlace
  <2>2. CASE k \notin {g, h}
    <3>1. \A u \in Threads : Swaps(u, k)' <=> Swaps(u, k)
      BY <1>6, <1>12, <2>2, ZenonT(30)
    <3> QED BY <1>1, <1>3, <1>7, <2>2, <3>1, ZenonT(30) DEF OverwritesNothing, ZeroPlace
  <2> QED BY <2>1, <2>2, Zenon
<1>15. ASSUME NEW k \in Grants
       PROVE  ZeroOverwritten(t, k)'
  <2>1. (Core(t) # <<Step("put", k)>>)'
    BY <1>6, Shorter, ZenonT(30) DEF q, Step
  <2>2. ASSUME NEW i \in Grants \ {k}
        PROVE  (/\ Core(t) # <<Step("exchange", i), Step("put", k)>>
                /\ Core(t) = <<Step("take", k), Step("exchange", i), Step("put", k)>> =>
                     k = h /\ i = g)'
    BY <1>6 DEF q, Step
  <2> QED BY <1>3, <1>7, <1>11, <1>12, <2>1, <2>2, ZenonT(30) DEF ZeroOverwritten
<1>16. OthersKept(t)
  BY <1>3, <1>6, ZenonT(30) DEF OthersKept
<1>17. UsesKept(t)
  BY <1>3, <1>7, <1>10, <1>12, SMTT(30) DEF UsesKept
<1>18. OwnKept(t)
  <2>1. Planned(t)'
    BY <1>3, <1>4, <1>6, ZenonT(30) DEF Planned, Unloaded, Step
  <2>2. Placed(t)'
    BY <1>2, <1>5, <1>6, ZenonT(30) DEF Placed, Waits
  <2>3. \A k \in Grants : Permitted(t, k)'
    BY <1>7, <1>12, ZenonT(30) DEF Permitted, Step
  <2> QED BY <1>14, <1>15, <2>1, <2>2, <2>3, ZenonT(30) DEF OwnKept
<1> QED BY <1>8, <1>9, <1>16, <1>17, <1>18, OwnStep, ZenonT(30)

\* A move carries the size of the grant to the new place.
LEMMA MoveStep ==
  ASSUME GrantInv, ~ConcurrentSwaps, NEW t \in Threads, NEW g \in Grants, NEW h \in Grants,
         Move(t, g, h)
  PROVE  GrantInv'
<1> DEFINE v == count[g].value
<1>1. TypeOK /\ Conservation /\ CallsExclude /\ OverwritesNothing /\ CallsPlanned
  BY ZenonT(30) DEF GrantInv
<1>2. /\ todo[t] = << >> /\ Holds(g) /\ ~InUse(g) /\ object[h] = "none" /\ ~InUse(h)
      /\ object' = [object EXCEPT ![h] = object[g], ![g] = "moved"]
      /\ count' = [count EXCEPT ![h] = NewWatch(v), ![g].value = 0]
      /\ UNCHANGED <<total, todo, got, call>>
  BY Zenon DEF Move, Idle
<1>3. /\ object[g] \in {"live", "moved"} /\ g # h /\ g \in Sources /\ h \in Sources
      /\ count[h].value = 0 /\ v \in Counts /\ 0 \in Counts /\ count[g] \in SizeWatch
  BY <1>1, <1>2, GrantConstants, SMTT(30)
     DEF Holds, Sources, OverwritesNothing, ZeroPlace, TypeOK, WatchOf, Counts, SizeWatch
<1>4. NewWatch(v) \in SizeWatch /\ NewWatch(v).value = v
  BY <1>3, NewWatchType, ZenonT(30) DEF SizeWatch
<1>5. [count[g] EXCEPT !.value = 0] \in SizeWatch /\ [count[g] EXCEPT !.value = 0].value = 0
  BY <1>3, ZenonT(30) DEF SizeWatch, WatchOf
<1>6. /\ count' \in [Sources -> SizeWatch]
      /\ count'[h].value = v /\ count'[g].value = 0
      /\ \A r \in Sources \ {g, h} : count'[r].value = count[r].value
  <2>1. count' = [[count EXCEPT ![h] = NewWatch(v)] EXCEPT ![g] = [count[g] EXCEPT !.value = 0]]
    BY <1>1, <1>2, <1>3, ZenonT(30) DEF TypeOK
  <2> QED BY <1>1, <1>3, <1>4, <1>5, <2>1, ZenonT(30) DEF TypeOK, SizeWatch
<1>7. /\ object' \in [Grants -> Objects] /\ object'[g] = "moved" /\ object'[h] = object[g]
      /\ \A k \in Grants \ {g, h} : object'[k] = object[k]
  BY <1>1, <1>2, <1>3, ZenonT(30) DEF TypeOK, Objects
<1>8. TypeOK'
  BY <1>1, <1>2, <1>6, <1>7, ZenonT(30) DEF TypeOK, SizeWatch
<1>9. Conservation'
  <2> DEFINE f == [Size EXCEPT ![h] = Size[g]]
  <2>1. /\ IsFiniteSet(Sources) /\ Size \in [Sources -> Nat] /\ Total(Size) \in Nat
    BY <1>1, SumsType, ZenonT(30)
  <2>2. f \in [Sources -> Nat] /\ f[h] = Size[g] /\ \A r \in Sources \ {h} : f[r] = Size[r]
    BY <1>3, <2>1, ZenonT(30)
  <2>3. Size' \in [Sources -> Nat] /\ \A r \in Sources : Size'[r] = count'[r].value
    BY <1>8, GrantConstants, SMTT(30) DEF TypeOK, Size, Counts, WatchOf
  <2>4. \A r \in Sources : Size[r] = count[r].value
    BY Zenon DEF Size
  <2> HIDE DEF f
  <2>5. Total(f) = Total(Size) - Size[h] + f[h]
    BY <1>3, <2>1, <2>2, TotalStep, SMTT(30)
  <2>6. \A r \in Sources \ {g} : Size'[r] = f[r]
    BY <1>3, <1>6, <2>2, <2>3, <2>4, SMTT(30)
  <2>7. Total(Size') = Total(f) - f[g] + Size'[g]
    BY <1>3, <2>1, <2>2, <2>3, <2>6, TotalStep, SMTT(30)
  <2>8. f[g] = v /\ f[h] = v /\ Size[h] = 0 /\ Size'[g] = 0 /\ v \in Int
    BY <1>3, <1>6, <2>2, <2>3, <2>4, SMTT(30) DEF Counts
  <2>9. Total(Size') = Total(Size)
    BY <2>1, <2>5, <2>7, <2>8, SMTT(30)
  <2> QED BY <1>1, <1>2, <2>9, ZenonT(30) DEF Conservation
<1>10. \A u \in Threads : Core(u)' = Core(u) /\ Left(u)' = Left(u)
  BY <1>2, ZenonT(30) DEF Core, Left, At
<1>11. Core(t)' = << >> /\ got[t] = 0
  <2>1. Core(t) = << >>
    BY <1>2, ZenonT(30) DEF Core, At
  <2>2. ~Loaded(<< >>)
    BY Zenon DEF Loaded
  <2>3. got[t] = 0
    BY <1>1, <2>1, <2>2, ZenonT(30) DEF CallsPlanned, Planned
  <2> QED BY <1>10, <2>1, <2>3, ZenonT(30)
<1>12. /\ Left(t)' = {} /\ Unloaded(Core(t)')
       /\ \A k \in Grants :
            /\ ~Swaps(t, k)' /\ ~Frees(t, k)' /\ ~Touches(t, k)'
            /\ Permitted(t, k)' /\ ZeroOverwritten(t, k)'
  BY <1>11, NothingLeft, ZenonT(30)
<1>13. \A u \in Threads :
         /\ ~Touches(u, g) /\ ~Swaps(u, g) /\ ~Frees(u, g) /\ call[u].place # g
         /\ ~Touches(u, h) /\ ~Swaps(u, h) /\ ~Frees(u, h) /\ call[u].place # h
  BY <1>1, <1>2, NotInUse, ZenonT(30)
<1>14. object[g] = "moved" => v = 0
  BY <1>1, <1>13, ZenonT(30) DEF OverwritesNothing, ZeroPlace
<1>15. ASSUME NEW k \in Grants
       PROVE  ZeroPlace(k)'
  <2>1. CASE k = g
    BY <1>6, <2>1, ZenonT(30) DEF ZeroPlace
  <2>2. CASE k = h
    BY <1>3, <1>6, <1>7, <1>14, <2>2, ZenonT(30) DEF ZeroPlace
  <2>3. CASE k \notin {g, h}
    <3>1. \A u \in Threads : Swaps(u, k)' <=> Swaps(u, k)
      BY <1>10, SameLeft, ZenonT(30)
    <3> QED BY <1>1, <1>6, <1>7, <2>3, <3>1, Zenon DEF OverwritesNothing, ZeroPlace, Sources
  <2> QED BY <2>1, <2>2, <2>3, ZenonT(30)
<1>16. OthersKept(t)
  BY <1>2, <1>10, ZenonT(30) DEF OthersKept
<1>17. UsesKept(t)
  BY <1>2, <1>6, <1>7, <1>12, <1>13, SMTT(30) DEF UsesKept, Sources
<1>18. OwnKept(t)
  <2>1. Planned(t)' /\ Placed(t)'
    BY <1>2, <1>11, <1>12, ZenonT(30) DEF Planned, Placed, Unloaded, Step
  <2> QED BY <1>12, <1>15, <2>1, Zenon DEF OwnKept
<1> QED BY <1>8, <1>9, <1>16, <1>17, <1>18, OwnStep, Zenon

-----------------------------------------------------------------------------
\* Every step keeps the invariant.
LEMMA GrantStep ==
  ASSUME GrantInv, ~ConcurrentSwaps, NEW t \in Threads, Progress(t) \/ Calls(t)
  PROVE  GrantInv'
<1>1. CASE Progress(t)
  BY <1>1, TakeStep, ExchangeStep, PutStep, AddStep, AnnounceStep, CloseStep, FreeStep,
     ModifyStep, UnavailableStep, LoadStep, LookStep, AttachStep, WakeStep, ReturnStep, ZenonT(30)
     DEF Progress
<1>2. ASSUME NEW n \in Counts, NEW w \in BOOLEAN, NEW place \in Grants,
             issue_grant(t, n, w, place)
      PROVE  GrantInv'
  <2>1. Issuer \in Sources /\ Issuer \notin Grants
    BY GrantConstants, Zenon DEF Sources
  <2> QED BY <1>2, <2>1, CallTransferStep, ZenonT(30) DEF issue_grant
<1>3. ASSUME NEW n \in Counts, NEW w \in BOOLEAN, NEW place \in Grants, NEW g \in Grants,
             spend(t, g, n, w, place)
      PROVE  GrantInv'
  <2>1. HasIssuer(g) /\ transfer_impl(t, g, n, w, place)
    BY <1>3, Zenon DEF spend
  <2>2. object[g] = "live" /\ g \in Sources /\ \A u \in Threads : ~Swaps(u, g)
    BY <2>1, HeldGrant, ZenonT(30) DEF GrantInv
  <2> QED BY <2>1, <2>2, CallTransferStep, ZenonT(30)
<1>4. ASSUME NEW g \in Grants, spend_all(t, g) \/ revoke(t, g) \/ Destroy(t, g)
      PROVE  GrantInv'
  BY <1>4, SpendAllStep, RevokeStep, DestroyStep, ZenonT(30)
<1>5. ASSUME NEW g \in Grants, NEW h \in Grants,
             subsume(t, g, h) \/ swap(t, g, h) \/ Move(t, g, h)
      PROVE  GrantInv'
  BY <1>5, SubsumeStep, SwapStep, MoveStep, ZenonT(30)
<1>6. ASSUME NEW n \in Counts \ {0}, grow(t, n)
      PROVE  GrantInv'
  BY <1>6, GrowStep, ZenonT(30)
<1>7. CASE close(t)
  BY <1>7, CloseIssuerStep, ZenonT(30)
<1> QED BY <1>1, <1>2, <1>3, <1>4, <1>5, <1>6, <1>7, ZenonT(30) DEF Calls

\* The issuer starts with everything.
LEMMA GrantInit ==
  ASSUME Init
  PROVE  GrantInv
<1>1. 0 \in Counts /\ InitialCount \in Counts /\ Issuer \in Sources /\ Issuer \notin Grants
  BY GrantConstants DEF Counts, Sources
<1>2. \A n \in Counts : NewWatch(n) \in SizeWatch /\ NewWatch(n).value = n
  BY NewWatchType, Zenon DEF SizeWatch
<1>3. /\ count \in [Sources -> SizeWatch] /\ count[Issuer].value = InitialCount
      /\ \A s \in Sources \ {Issuer} : count[s].value = 0
  BY <1>1, <1>2, ZenonT(30) DEF Init
<1>4. NoCall \in CallType
  BY <1>1, ZenonT(30) DEF NoCall, CallType, Codes
<1>5. todo \in [Threads -> Seq(StepType)] /\ \A t \in Threads : Core(t) = << >>
  BY SeqsOf, ZenonT(30) DEF Init, Core, At
<1>6. TypeOK
  BY <1>1, <1>3, <1>4, <1>5, ZenonT(30) DEF Init, TypeOK, SizeWatch, StepType, CallType, Objects
<1>7. Conservation
  <2> DEFINE f == [s \in Sources |-> 0]
  <2>1. /\ IsFiniteSet(Sources) /\ Size \in [Sources -> Nat] /\ got \in [Threads -> Nat]
    BY <1>6, SumsType, Zenon
  <2>2. Total(got) = 0
    BY <2>1, TotalZero, ZenonT(30) DEF Init
  <2>3. f \in [Sources -> Nat] /\ \A s \in Sources : f[s] = 0
    BY Zenon
  <2> HIDE DEF f
  <2>4. Total(f) = 0
    BY <2>3, TotalZero, ZenonT(30)
  <2>5. \A s \in Sources \ {Issuer} : Size[s] = f[s]
    BY <1>3, <2>3, ZenonT(30) DEF Size
  <2>6. Total(Size) = Total(f) - f[Issuer] + Size[Issuer]
    BY <1>1, <2>1, <2>3, <2>5, TotalStep, SMTT(30)
  <2>7. Size[Issuer] = InitialCount /\ InitialCount \in Nat /\ total = InitialCount
    BY <1>1, <1>3, GrantConstants, ZenonT(30) DEF Size, Init
  <2> QED BY <1>1, <2>2, <2>3, <2>4, <2>6, <2>7, SMTT(30) DEF Conservation
<1>8. \A t \in Threads : Left(t) = {}
  BY <1>5, Elements, ZenonT(30) DEF Left
<1>9. CallsPlanned
  BY <1>5, ZenonT(30) DEF CallsPlanned, Planned, Unloaded, Init
<1>10. TransfersPlaced /\ CallsExclude
  BY <1>8, ZenonT(30) DEF TransfersPlaced, Placed, CallsExclude, Permitted, Swaps, Frees, Touches
<1>11. OverwritesNothing
  <2>1. \A g \in Grants : count[g].value = 0
    BY <1>1, <1>3, ZenonT(30) DEF Sources
  <2>2. \A g \in Grants : ZeroPlace(g)
    BY <2>1, Zenon DEF ZeroPlace
  <2>3. \A t \in Threads : got[t] = 0
    BY ZenonT(30) DEF Init
  <2>4. \A t \in Threads, g \in Grants : ZeroOverwritten(t, g)
    BY <2>1, <2>3, ZenonT(30) DEF ZeroOverwritten
  <2> QED BY <2>2, <2>4, ZenonT(30) DEF OverwritesNothing
<1> QED BY <1>6, <1>7, <1>9, <1>10, <1>11, ZenonT(30) DEF GrantInv

\* With any number of threads and grants, and any counts: if swap is only called
\* on grants that nobody else uses, the pool, the grants and the counts on their
\* way always add up to the total size, no count is ever overwritten, and no
\* grant is used after it has been destroyed.  Without that condition on swap it
\* is false, see ThreadSafeDoc.
THEOREM GrantInvariant ==
  ASSUME ~ConcurrentSwaps
  PROVE  Spec => []GrantInv
<1>1. Init => GrantInv
  BY GrantInit, Zenon
<1>2. GrantInv /\ [Next]_vars => GrantInv'
  <2> SUFFICES ASSUME GrantInv, [Next]_vars PROVE GrantInv'
    BY Zenon
  <2>1. CASE Next
    BY <2>1, GrantStep, ZenonT(30) DEF Next
  <2>2. CASE UNCHANGED vars
    <3>1. UNCHANGED <<count, total, object, todo, got, call>>
      BY <2>2, ZenonT(30) DEF vars
    <3>2. TypeOK' /\ Conservation'
      <4>1. TypeOK'
        BY <3>1, ZenonT(30) DEF GrantInv, TypeOK
      <4> QED BY <3>1, <4>1, SameSizes, ZenonT(30) DEF GrantInv
    <3>3. \A u \in Threads : Core(u)' = Core(u)
      BY <3>1, ZenonT(30) DEF Core, At
    <3> QED BY <3>1, <3>2, <3>3, SameCalls, ZenonT(30)
  <2> QED BY <2>1, <2>2, ZenonT(30)
<1> QED BY <1>1, <1>2, PTL DEF Spec

\* As long as swap is only called on grants that no other call uses, the check in
\* ~Issuer holds, in whatever order the threads have spent, revoked, subsumed,
\* moved, swapped and destroyed the grants.  The condition is needed: two calls
\* that overlap a swap lose a count, and the check then fails.  The documentation
\* of the class allows them (see ThreadSafeDoc), so this is a condition that the
\* callers have to keep, and nothing in the class keeps it for them.
THEOREM IssuerCheckUnlessSwapsOverlap ==
  ASSUME ~ConcurrentSwaps
  PROVE  Spec => []IssuerCheck
<1>1. GrantInv => IssuerCheck
  <2> SUFFICES ASSUME GrantInv,
                      \A t \in Threads : Idle(t), \A g \in Grants : object[g] = "none"
               PROVE  count[Issuer].value = total
    BY ZenonT(30) DEF IssuerCheck
  <2> DEFINE none == [s \in Sources |-> 0]
  <2>1. /\ Size \in [Sources -> Nat] /\ got \in [Threads -> Nat] /\ total \in Nat
        /\ Issuer \in Sources /\ Size[Issuer] = count[Issuer].value
    BY DEF GrantInv, TypeOK, Size, WatchOf, Counts, Sources
  <2>2. \A t \in Threads : got[t] = 0
    <3> SUFFICES ASSUME NEW t \in Threads PROVE got[t] = 0
      BY Zenon
    <3>1. Core(t) = << >>
      BY Zenon DEF Core, Idle, At
    <3> QED BY <3>1 DEF GrantInv, CallsPlanned, Planned, Loaded
  <2>3. \A s \in Sources \ {Issuer} : Size[s] = 0
    BY Zenon DEF GrantInv, OverwritesNothing, ZeroPlace, Size, Sources
  <2>4. Total(got) = 0 /\ Total(none) = 0
    BY <2>1, <2>2, TotalZero, ZenonT(30)
  <2>5. none \in [Sources -> Nat] /\ none[Issuer] = 0 /\ \A s \in Sources \ {Issuer} : none[s] = Size[s]
    BY <2>1, <2>3, ZenonT(30)
  <2>6. IsFiniteSet(Sources)
    BY GrantConstants, FS_AddElement, ZenonT(30) DEF Sources
  <2> HIDE DEF none
  <2>7. Total(none) = Total(Size) - Size[Issuer] + none[Issuer]
    BY <2>1, <2>5, <2>6, TotalStep, SMTT(30)
  <2>8. Total(Size) \in Nat
    BY <2>1, <2>6, TotalType, Zenon
  <2>9. total = Total(Size) + Total(got)
    BY ZenonT(30) DEF GrantInv, Conservation
  <2>10. \A n, i \in Nat : 0 = n - i + 0 => n + 0 = i
    OBVIOUS
  <2>11. Size[Issuer] \in Nat
    BY <2>1, ZenonT(30)
  <2>12. Total(Size) + 0 = Size[Issuer]
    BY <2>4, <2>5, <2>7, <2>8, <2>10, <2>11, ZenonT(30)
  <2> QED BY <2>1, <2>4, <2>9, <2>12, Zenon
<1> QED BY <1>1, GrantInvariant, PTL
=============================================================================
