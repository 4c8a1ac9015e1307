---------------------------- MODULE GrantSteps ----------------------------
(***************************************************************************)
(* Every step of a call keeps the invariant of Grant.                      *)
(***************************************************************************)
EXTENDS GrantFacts

\* Telling the waiters of a watch keeps the invariant.
LEMMA AnnounceStep ==
  ASSUME GrantInv, NEW t \in Threads, Announce(t)
  PROVE  GrantInv'
<1>1. TypeOK /\ Conservation /\ CallsPlanned /\ todo \in [Threads -> Seq(StepType)]
  BY Zenon DEF GrantInv, TypeOK, StepType
<1> DEFINE s == Here(t)
           q == Tail(todo[t])
<1>2. /\ todo[t] # << >> /\ Core(t) = q
      /\ todo' = [todo EXCEPT ![t] = << >> \o q]
      /\ count' = [count EXCEPT ![s] = Notified(count[s], t)]
      /\ UNCHANGED <<total, object, got, call>>
  BY DEF Announce, At, Core, Then
<1>3. q \in Seq(StepType) /\ s \in Sources
  BY <1>1, <1>2, HereType
<1>4. q # << >> => Head(q).do # "announce"
  BY <1>1, <1>2, CoreStarts, ZenonT(30)
<1> HIDE DEF q
<1>5. /\ todo' \in [Threads -> Seq(StepType)]
      /\ Core(t)' = q /\ \A u \in Threads \ {t} : Core(u)' = Core(u)
  BY <1>1, <1>2, <1>3, <1>4, CoreIs, ZenonT(30)
<1>6. Notified(count[s], t) \in SizeWatch /\ Notified(count[s], t).value = count[s].value
  <2>1. count[s] \in SizeWatch
    BY <1>1, <1>3, Zenon DEF TypeOK, SizeWatch
  <2> QED BY <2>1, NotifiedWatch DEF SizeWatch
<1> HIDE DEF s
<1>7. TypeOK' /\ \A r \in Sources : count'[r].value = count[r].value
  BY <1>1, <1>2, <1>3, <1>5, <1>6, ZenonT(30) DEF TypeOK, SizeWatch, StepType
<1>8. Conservation'
  BY <1>1, <1>2, <1>7, SameSizes, Zenon
<1>9. \A u \in Threads : Core(u)' = Core(u) /\ Left(u)' = Left(u)
  BY <1>2, <1>5 DEF Left
<1> QED BY <1>2, <1>7, <1>8, <1>9, SameCalls, SMTT(30)

\* Closing the watch of a grant or of the issuer keeps the invariant.
LEMMA CloseStep ==
  ASSUME GrantInv, NEW t \in Threads, CloseWatch(t)
  PROVE  GrantInv'
<1>1. /\ TypeOK /\ Conservation /\ CallsPlanned /\ OverwritesNothing
      /\ Core(t) = todo[t] /\ todo[t] # << >> /\ Head(todo[t]).do = "close"
  BY Zenon DEF GrantInv, CloseWatch, At, Core
<1>2. got[t] = 0 /\ \/ \E s \in Sources : todo[t] = <<Step("close", s)>>
                    \/ \E g \in Grants : todo[t] = <<Step("close", g), Step("free", g)>>
  BY <1>1 DEF CallsPlanned, Planned, Loaded, Unloaded, Waits, Step
<1>3. \E s \in Sources :
        \/ todo[t] = <<Step("close", s)>>
        \/ s \in Grants /\ todo[t] = <<Step("close", s), Step("free", s)>>
  BY <1>2, Zenon DEF Sources
<1>4. PICK s \in Sources :
        \/ todo[t] = <<Step("close", s)>>
        \/ s \in Grants /\ todo[t] = <<Step("close", s), Step("free", s)>>
  BY <1>3, Zenon
<1> DEFINE x == Step("close", s)
           y == Step("free", s)
           q == Tail(todo[t])
<1>5. x.do = "close" /\ x.at = s /\ y.do = "free" /\ x \in StepType /\ y \in StepType
  BY Zenon DEF Step, StepType, Steps
<1>6. Head(todo[t]) = x
  BY <1>4, Tails
<1>7. \/ q = << >> /\ Left(t) = {x}
      \/ s \in Grants /\ q = <<y>> /\ Left(t) = {x, y}
  <2>1. CASE todo[t] = <<x>>
    BY <1>1, <2>1, Tails, Elements, SMTT(30) DEF Left
  <2>2. CASE s \in Grants /\ todo[t] = <<x, y>>
    <3>1. q = <<y>> /\ Range(todo[t]) = {x, y}
      BY <2>2, Tails, Elements
    <3> QED BY <1>1, <2>2, <3>1, SMTT(30) DEF Left
  <2> QED BY <1>4, <2>1, <2>2, ZenonT(30)
<1>8. q \in Seq(StepType) /\ (q # << >> => Head(q).do # "announce")
  BY <1>5, <1>7, Tails, SeqsOf, ZenonT(30)
<1>9. Range(q) \subseteq {y} /\ Left(t) = {x} \cup Range(q) /\ x \notin Range(q)
  <2>1. (q = << >> => Range(q) = {}) /\ (q = <<y>> => Range(q) = {y}) /\ x # y
    BY <1>5, Elements, Zenon
  <2> HIDE DEF q, x, y
  <2> QED BY <1>7, <2>1, Zenon
<1>10. /\ Here(t) = s
       /\ count' = [count EXCEPT ![s] = Closed(count[s], kClosed)]
       /\ todo' = [todo EXCEPT ![t] = << >> \o q]
       /\ UNCHANGED <<total, object, got, call>>
  BY <1>5, <1>6, ZenonT(30) DEF CloseWatch, Here, Then
<1> HIDE DEF q
<1>11. /\ todo' \in [Threads -> Seq(StepType)]
       /\ Core(t)' = q /\ \A u \in Threads \ {t} : Core(u)' = Core(u)
  BY <1>1, <1>8, <1>10, CoreIs, ZenonT(30)
<1>12. count[s] \in SizeWatch /\ kClosed \in {kClosed}
  BY <1>1, ZenonT(30) DEF TypeOK, SizeWatch
<1>13. /\ Closed(count[s], kClosed) \in SizeWatch
       /\ Closed(count[s], kClosed).value = count[s].value
  BY <1>12, ClosedWatch DEF SizeWatch
<1>14. TypeOK' /\ \A r \in Sources : count'[r].value = count[r].value
  BY <1>1, <1>10, <1>11, <1>13, ZenonT(30) DEF TypeOK, SizeWatch, StepType
<1>15. Conservation'
  BY <1>1, <1>10, <1>14, SameSizes, SMTT(30)
<1>16. Left(t)' = Range(q)
  BY <1>11 DEF Left
<1>17. \A z \in Left(t) : z.do \in {"close", "free"}
  BY <1>5, <1>9, ZenonT(30)
<1>18. s \in Grants => ZeroPlace(s)'
  <2> SUFFICES ASSUME s \in Grants PROVE ZeroPlace(s)'
    BY Zenon
  <2>1. \A u \in Threads \ {t} : Swaps(u, s)' <=> Swaps(u, s)
    BY <1>11 DEF Swaps, Left, Step
  <2>2. ~Swaps(t, s) /\ ~Swaps(t, s)'
    BY <1>9, <1>16, <1>17, SMTT(30) DEF Swaps, Step
  <2> QED BY <1>1, <1>10, <1>14, <2>1, <2>2, ZenonT(30) DEF OverwritesNothing, ZeroPlace
<1>19. ASSUME NEW k \in Grants
       PROVE  ZeroOverwritten(t, k)'
  <2>1. (Frees(t, k) => count[k].value = 0)'
    <3>1. Step("take", k) \notin Left(t)
      BY <1>17, Zenon DEF Step
    <3>2. Frees(t, k)' => Frees(t, k)
      BY <1>9, <1>16 DEF Frees, Step
    <3> QED BY <1>1, <1>14, <3>1, <3>2, ZenonT(30) DEF OverwritesNothing, ZeroOverwritten, Sources
  <2>2. \A z : Core(t)' = <<z>> => z.do = "free"
    BY <1>5, <1>7, <1>11, SMTT(30)
  <2>3. \A w, z : Core(t)' # <<w, z>>
    BY <1>7, <1>11, Shorter, ZenonT(30)
  <2>4. \A v, w, z : Core(t)' # <<v, w, z>>
    BY <1>7, <1>11, Shorter, ZenonT(30)
  <2>5. (Core(t) # <<Step("put", k)>>)'
    BY <2>2 DEF Step
  <2>6. ASSUME NEW i \in Grants
        PROVE  (/\ Core(t) # <<Step("exchange", i), Step("put", k)>>
                /\ Core(t) # <<Step("take", k), Step("exchange", i), Step("put", k)>>)'
    BY <2>3, <2>4, ZenonT(30) DEF Step
  <2> QED BY <2>1, <2>5, <2>6, ZenonT(30) DEF ZeroOverwritten
<1>20. Planned(t)'
  BY <1>2, <1>7, <1>10, <1>11, ZenonT(30) DEF Planned, Unloaded, Step
<1> HIDE DEF x, y
<1>21. Drops(t, x, s)
  BY <1>5, <1>9, <1>16, <1>17, ZenonT(30) DEF Drops, Waits
<1>22. Moves(t, s, q, count'[s].value, got'[t])
  BY <1>10, <1>11, <1>14, ZenonT(30) DEF Moves, OthersKept
<1> QED BY <1>20, <1>14, <1>15, <1>18, <1>19, <1>21, <1>22, ChangeKeeps, SMTT(30)

\* A grant is freed with nothing in it and nobody else using it.
LEMMA FreeStep ==
  ASSUME GrantInv, NEW t \in Threads, Free(t)
  PROVE  GrantInv'
<1>1. /\ TypeOK /\ Conservation /\ CallsPlanned /\ TransfersPlaced /\ CallsExclude
      /\ OverwritesNothing
      /\ Core(t) = todo[t] /\ todo[t] # << >> /\ Head(todo[t]).do = "free"
  BY ZenonT(30) DEF GrantInv, Free, At, Core
<1>2. got[t] = 0 /\ \E g \in Grants : todo[t] = <<Step("free", g)>>
  BY <1>1 DEF CallsPlanned, Planned, Loaded, Unloaded, Waits, Step
<1>3. PICK g \in Grants : todo[t] = <<Step("free", g)>>
  BY <1>2, Zenon
<1> DEFINE x == Step("free", g)
<1>4. x.do = "free" /\ x.at = g
  BY Zenon DEF Step
<1>5. Head(todo[t]) = x /\ Tail(todo[t]) = << >> /\ Left(t) = {x} /\ Here(t) = g
  BY <1>1, <1>3, <1>4, Tails, Elements, ZenonT(30) DEF Left, Here
<1>6. Frees(t, g) /\ object[g] = "dying" /\ \A u \in Threads \ {t} : ~Touches(u, g)
  BY <1>1, <1>5, ZenonT(30) DEF CallsExclude, Permitted, Frees
<1>7. count[g].value = 0
  <2>1. Step("take", g) \notin Left(t)
    BY <1>5, ZenonT(30) DEF Step
  <2> QED BY <1>1, <1>6, <2>1, SMTT(30) DEF OverwritesNothing, ZeroOverwritten
<1>8. \A k \in Grants : ~Swaps(t, k)
  BY <1>5 DEF Swaps, Step
<1>9. /\ object' = [object EXCEPT ![g] = "none"]
      /\ count' = [count EXCEPT ![g] = NewWatch(0)]
      /\ todo' = [todo EXCEPT ![t] = << >> \o << >>]
      /\ UNCHANGED <<total, got, call>>
  BY <1>5, Zenon DEF Free, Then
<1>10. << >> \in Seq(StepType) /\ g \in Sources /\ 0 \in Counts
  BY SeqsOf, GrantConstants, SMTT(30) DEF Sources, Counts
<1>11. /\ todo' \in [Threads -> Seq(StepType)]
       /\ Core(t)' = << >> /\ \A u \in Threads \ {t} : Core(u)' = Core(u)
  BY <1>1, <1>9, <1>10, CoreIs, ZenonT(30)
<1>12. NewWatch(0) \in SizeWatch /\ NewWatch(0).value = 0
  BY <1>10, NewWatchType, Zenon DEF SizeWatch
<1>13. TypeOK' /\ \A r \in Sources : count'[r].value = count[r].value
  BY <1>1, <1>7, <1>9, <1>10, <1>11, <1>12, ZenonT(30) DEF TypeOK, SizeWatch, StepType, Objects
<1>14. Conservation'
  BY <1>1, <1>9, <1>13, SameSizes, SMTT(30)
<1>15. /\ object'[g] = "none" /\ \A k \in Grants \ {g} : object'[k] = object[k]
       /\ got'[t] = 0
  BY <1>1, <1>2, <1>9, ZenonT(30) DEF TypeOK
<1>16. \A u \in Threads \ {t}, k \in Grants :
         /\ Touches(u, k) => object'[k] = object[k]
         /\ Swaps(u, k)' <=> Swaps(u, k)
  BY <1>6, <1>11, <1>15, ZenonT(30) DEF Swaps, Left, Step
<1>17. /\ Left(t)' = {} /\ Unloaded(Core(t)')
       /\ \A k \in Grants :
            /\ ~Swaps(t, k)' /\ ~Frees(t, k)' /\ ~Touches(t, k)'
            /\ Permitted(t, k)' /\ ZeroOverwritten(t, k)'
  BY <1>11, NothingLeft, ZenonT(30)
<1>18. ASSUME NEW k \in Grants
       PROVE  ZeroPlace(k)'
  <2>1. CASE k = g
    BY <1>7, <1>10, <1>13, <2>1, ZenonT(30) DEF ZeroPlace
  <2>2. CASE k # g
    <3>1. \A u \in Threads : Swaps(u, k)' <=> Swaps(u, k)
      BY <1>8, <1>16, <1>17, ZenonT(30)
    <3> QED BY <1>1, <1>13, <1>15, <2>2, <3>1, ZenonT(30) DEF OverwritesNothing, ZeroPlace, Sources
  <2> QED BY <2>1, <2>2, ZenonT(30)
<1>19. OthersKept(t)
  BY <1>9, <1>11, ZenonT(30) DEF OthersKept
<1>20. UsesKept(t)
  BY <1>6, <1>9, <1>13, <1>15, <1>16, <1>17, ZenonT(30) DEF UsesKept, Sources
<1>21. OwnKept(t)
  <2>1. Planned(t)'
    BY <1>15, <1>17, SMTT(30) DEF Planned, Unloaded, Step
  <2>2. Placed(t)'
    BY <1>17, ZenonT(30) DEF Placed
  <2> QED BY <1>17, <1>18, <2>1, <2>2, ZenonT(30) DEF OwnKept
<1> QED BY <1>13, <1>14, <1>19, <1>20, <1>21, OwnStep, ZenonT(30)

-----------------------------------------------------------------------------
(* transfer_impl.                                                          *)

\* Where a call of transfer_impl is.
LEMMA TransferShape ==
  ASSUME GrantInv, NEW t \in Threads, NEW what \in Waits \cup {"return"}, At(t, what)
  PROVE  /\ Here(t) \in Sources /\ todo[t] = <<Step(what, Here(t))>>
         /\ todo[t] # << >> /\ Tail(todo[t]) = << >>
         /\ Left(t) = {Step(what, Here(t))}
         /\ what \in Waits => got[t] = 0 /\ call[t].status = "ok"
         /\ got[t] # 0 => call[t].status = "ok"
         /\ call[t].place \in Grants /\ object[call[t].place] = "reserved"
         /\ \A u \in Threads \ {t} : call[u].place # call[t].place
         /\ \A k \in Grants : ~Swaps(t, k) /\ ~Frees(t, k) /\ (k = Here(t) => Touches(t, k))
<1>1. Core(t) = todo[t] /\ todo[t] # << >> /\ Head(todo[t]).do = what
  BY Zenon DEF At, Core, Waits
<1>2. CallsPlanned /\ TransfersPlaced
  BY DEF GrantInv
<1>3. /\ \E s \in Sources : todo[t] = <<Step(what, s)>>
      /\ what \in Waits => got[t] = 0
  BY <1>1, <1>2, SMTT(30) DEF CallsPlanned, Planned, Loaded, Unloaded, Waits, Step
<1>4. PICK s \in Sources : todo[t] = <<Step(what, s)>>
  BY <1>3, Zenon
<1> DEFINE x == Step(what, s)
<1>5. x.do = what /\ x.at = s
  BY Zenon DEF Step
<1>6. Head(todo[t]) = x /\ Tail(todo[t]) = << >> /\ Left(t) = {x} /\ Here(t) = s
  BY <1>1, <1>4, <1>5, Tails, Elements, ZenonT(30) DEF Left, Here
<1>7. \A k \in Grants : ~Swaps(t, k) /\ ~Frees(t, k) /\ (k = s => Touches(t, k))
  BY <1>6 DEF Swaps, Frees, Touches, Step, Waits
<1>8. /\ call[t].place \in Grants /\ object[call[t].place] = "reserved"
      /\ \A u \in Threads \ {t} : call[u].place # call[t].place
      /\ what \in Waits => call[t].status = "ok"
      /\ what = "return" /\ got[t] # 0 => call[t].status = "ok"
  BY <1>2, <1>5, <1>6, SMTT(30) DEF TransfersPlaced, Placed
<1> QED BY <1>1, <1>3, <1>4, <1>6, <1>7, <1>8, ZenonT(30)

CallType == [place : Grants \cup {None}, want : Counts, wait : BOOLEAN,
             seen : Counts, status : Codes]

\* A step of transfer_impl takes n out of its source, and goes on with next and
\* with what c says about the call.
Transfers(t, next, n, c) ==
  /\ \E a \in {<< >>, <<Step("announce", Here(t))>>} :
       todo' = [todo EXCEPT ![t] = a \o <<Step(next, Here(t))>>]
  /\ count' \in [Sources -> SizeWatch]
  /\ count'[Here(t)].value + n = count[Here(t)].value
  /\ \A r \in Sources \ {Here(t)} : count'[r].value = count[r].value
  /\ got' = [got EXCEPT ![t] = n]
  /\ call' = [call EXCEPT ![t] = c]
  /\ c.place = call[t].place
  /\ next \in Waits => c.status = "ok" /\ n = 0
  /\ n # 0 => c.status = "ok"
  /\ UNCHANGED <<total, object>>

\* Such a step keeps GrantInv.
LEMMA TransferStep ==
  ASSUME GrantInv, NEW t \in Threads, NEW what \in Waits, At(t, what),
         NEW next \in Waits \cup {"return"}, NEW n \in Counts, NEW c \in CallType,
         Transfers(t, next, n, c)
  PROVE  GrantInv'
<1> DEFINE s == Here(t)
           q == <<Step(next, s)>>
<1>1. TypeOK /\ Conservation /\ CallsExclude /\ OverwritesNothing
  BY Zenon DEF GrantInv
<1>2. /\ s \in Sources /\ got[t] = 0
      /\ call[t].place \in Grants /\ object[call[t].place] = "reserved"
      /\ \A u \in Threads \ {t} : call[u].place # call[t].place
      /\ \A k \in Grants : ~Swaps(t, k) /\ ~Frees(t, k) /\ (k = s => Touches(t, k))
  BY TransferShape
<1>3. q \in Seq(StepType) /\ Head(q).do # "announce"
  <2>1. Step(next, s) \in StepType /\ Step(next, s).do = next
    BY <1>2, StepIs, SMTT(30) DEF Steps, Waits
  <2> QED BY <2>1, SeqsOf, Tails, ZenonT(30) DEF Waits
<1> HIDE DEF q
<1>4. /\ todo' \in [Threads -> Seq(StepType)]
      /\ Core(t)' = q /\ \A u \in Threads \ {t} : Core(u)' = Core(u)
  <2>1. PICK a \in {<< >>, <<Step("announce", s)>>} : todo' = [todo EXCEPT ![t] = a \o q]
    BY Zenon DEF Transfers, q
  <2> HIDE DEF s
  <2> QED BY <1>1, <1>2, <1>3, <2>1, CoreIs, ZenonT(30)
<1>5. /\ Left(t)' = {Step(next, s)}
      /\ next = "return" => Loaded(Core(t)')
      /\ next \in Waits => Unloaded(Core(t)')
      /\ \A k \in Grants :
           /\ ~Swaps(t, k)' /\ ~Frees(t, k)' /\ (Touches(t, k)' => k = s)
           /\ (Step("add", k) \notin Left(t))' /\ ZeroOverwritten(t, k)'
  BY <1>2, <1>4, OneLeft, SMTT(30) DEF q, Waits
<1>6. /\ got' \in [Threads -> Counts] /\ got'[t] = n
      /\ call' \in [Threads -> CallType] /\ call'[t] = c
      /\ \A u \in Threads \ {t} : got'[u] = got[u] /\ call'[u] = call[u]
  BY <1>1 DEF TypeOK, CallType, Transfers
<1>7. /\ count' \in [Sources -> SizeWatch] /\ count'[s].value + n = count[s].value
      /\ \A r \in Sources \ {s} : count'[r].value = count[r].value
      /\ UNCHANGED <<total, object>>
  BY Zenon DEF Transfers
<1>8. /\ c.place = call[t].place /\ (n # 0 => c.status = "ok")
      /\ next \in Waits => c.status = "ok" /\ n = 0
  BY DEF Transfers
<1> HIDE DEF s
<1>9. TypeOK'
  BY <1>1, <1>4, <1>6, <1>7, ZenonT(30) DEF TypeOK, CallType, SizeWatch, StepType
<1>10. count[s].value \in Nat /\ count'[s].value \in Nat /\ n \in Nat /\ total \in Nat
  BY <1>1, <1>2, <1>7, GrantConstants, SMTT(30) DEF TypeOK, SizeWatch, WatchOf, Counts
<1>11. Conservation'
  <2>1. count'[s].value + got'[t] - total' = count[s].value + got[t] - total
    BY <1>2, <1>6, <1>7, <1>10, SMTT(30)
  <2> QED BY <1>1, <1>2, <1>6, <1>7, <1>9, <2>1, SumsStep, SMTT(30)
<1>12. ASSUME NEW k \in Grants
       PROVE  ZeroPlace(k)'
  <2>1. \A u \in Threads \ {t} : Swaps(u, k)' <=> Swaps(u, k)
    BY <1>4, SameLeft, ZenonT(30) DEF Left
  <2>2. \A u \in Threads : Swaps(u, k)' <=> Swaps(u, k)
    BY <1>2, <1>5, <2>1, ZenonT(30)
  <2>3. count[k].value = 0 => count'[k].value = 0
    BY <1>7, <1>10, SMTT(30) DEF Sources
  <2> QED BY <1>1, <1>7, <2>2, <2>3, ZenonT(30) DEF OverwritesNothing, ZeroPlace
<1>13. OthersKept(t)
  BY <1>4, <1>6, ZenonT(30) DEF OthersKept
<1>14. UsesKept(t)
  <2>1. \A u \in Threads \ {t}, k \in Grants :
          Swaps(u, k) \/ Frees(u, k) => k # s /\ ~Touches(t, k)'
    BY <1>1, <1>2, <1>5, ZenonT(30) DEF CallsExclude
  <2> QED BY <1>5, <1>6, <1>7, <1>8, <2>1, ZenonT(30) DEF UsesKept, Sources
<1>15. OwnKept(t)
  <2>1. s \in Grants => object[s] \notin {"none", "reserved"}
    BY <1>1, <1>2, ZenonT(30) DEF CallsExclude, Permitted
  <2>2. \A k \in Grants : Permitted(t, k)'
    BY <1>5, <1>7, <2>1, ZenonT(30) DEF Permitted, Step
  <2>3. Planned(t)'
    BY <1>5, <1>6, <1>8, ZenonT(30) DEF Planned, Loaded, Unloaded, Step
  <2>4. \A x \in Left(t)' : x.do = next
    BY <1>5, SMTT(30) DEF Step
  <2>5. Placed(t)'
    BY <1>2, <1>6, <1>7, <1>8, <2>4, ZenonT(30) DEF Placed
  <2> QED BY <1>5, <1>12, <2>2, <2>3, <2>5, ZenonT(30) DEF OwnKept
<1> QED BY <1>9, <1>11, <1>13, <1>14, <1>15, OwnStep, ZenonT(30)

\* A step that changes no value, and nothing in hand.
SizesKept ==
  /\ count' \in [Sources -> SizeWatch]
  /\ \A r \in Sources : count'[r].value = count[r].value
  /\ UNCHANGED <<total, object, got>>

\* A step of transfer_impl that moves no count.
LEMMA WaitStep ==
  ASSUME GrantInv, NEW t \in Threads, NEW what \in Waits, At(t, what), SizesKept,
         NEW next \in Waits \cup {"return"}, Then(t, <<Step(next, Here(t))>>),
         NEW c \in CallType, call' = [call EXCEPT ![t] = c],
         c.place = call[t].place, next \in Waits => c.status = "ok"
  PROVE  GrantInv'
<1>1. TypeOK
  BY ZenonT(30) DEF GrantInv
<1>2. Here(t) \in Sources /\ got[t] = 0 /\ Tail(todo[t]) = << >>
  BY TransferShape, ZenonT(30)
<1>3. got' = [got EXCEPT ![t] = 0] /\ 0 \in Counts
  BY <1>1, <1>2, GrantConstants, ZenonT(30) DEF TypeOK, Counts, SizesKept
<1>4. count'[Here(t)].value + 0 = count[Here(t)].value
  BY <1>1, <1>2 DEF TypeOK, WatchOf, Counts, SizesKept
<1> DEFINE a == << >>
           q == <<Step(next, Here(t))>>
<1>5. todo' = [todo EXCEPT ![t] = a \o q]
  <2>1. q \o << >> = a \o q
    OBVIOUS
  <2>2. todo' = [todo EXCEPT ![t] = q \o Tail(todo[t])]
    BY Zenon DEF Then
  <2> HIDE DEF q, a
  <2> QED BY <1>2, <2>1, <2>2, ZenonT(30)
<1>6. a \in {<< >>, <<Step("announce", Here(t))>>}
  BY Zenon
<1>7. Transfers(t, next, 0, c)
  <2> HIDE DEF a
  <2> QED BY <1>3, <1>4, <1>5, <1>6, Zenon DEF Transfers, SizesKept
<1> QED BY <1>3, <1>7, TransferStep, SMTT(30)

\* The status and the value that a call of transfer_impl comes to know.
LEMMA CallChange ==
  ASSUME TypeOK, NEW t \in Threads
  PROVE  /\ call[t] \in CallType
         /\ call = [call EXCEPT ![t] = call[t]]
         /\ \A code \in Codes :
              /\ [call[t] EXCEPT !.status = code] \in CallType
              /\ [call[t] EXCEPT !.status = code].place = call[t].place
         /\ \A v \in Counts :
              /\ [call[t] EXCEPT !.seen = v] \in CallType
              /\ [call[t] EXCEPT !.seen = v].place = call[t].place
              /\ [call[t] EXCEPT !.seen = v].status = call[t].status
BY ZenonT(30) DEF TypeOK, CallType

\* transfer_impl, ending with its result, keeps the invariant.
LEMMA FinishStep ==
  ASSUME GrantInv, NEW t \in Threads, NEW what \in Waits, At(t, what),
         NEW code \in Codes, Finish(t, code), SizesKept
  PROVE  GrantInv'
<1> DEFINE c == [call[t] EXCEPT !.status = code]
<1>1. c \in CallType /\ c.place = call[t].place
  BY CallChange DEF GrantInv
<1>2. call' = [call EXCEPT ![t] = c] /\ Then(t, <<Step("return", Here(t))>>)
  BY Zenon DEF Finish
<1> HIDE DEF c
<1>3. "return" \in Waits \cup {"return"} /\ "return" \notin Waits
  BY DEF Waits
<1> QED BY <1>1, <1>2, <1>3, WaitStep, ZenonT(30)

\* transfer_impl, going on with what its await got, keeps the invariant.
LEMMA RetryStep ==
  ASSUME GrantInv, NEW t \in Threads, NEW what \in Waits, At(t, what),
         NEW r \in Counts \cup {kClosed}, Retry(t, r), SizesKept
  PROVE  GrantInv'
<1>1. CASE r = kClosed
  BY <1>1, FinishStep, SMTT(30) DEF Retry, Codes
<1>2. CASE r # kClosed
  <2> DEFINE c == [call[t] EXCEPT !.seen = r]
             next == IF Suffices(r, t) THEN "modify" ELSE "look"
  <2>1. c \in CallType /\ c.place = call[t].place /\ c.status = "ok"
    BY <1>2, CallChange, TransferShape, SMTT(30) DEF GrantInv
  <2>2. call' = [call EXCEPT ![t] = c] /\ Then(t, <<Step(next, Here(t))>>)
    BY <1>2, Zenon DEF Retry
  <2>3. next \in Waits
    BY DEF Waits
  <2> HIDE DEF c, next
  <2> QED BY <2>1, <2>2, <2>3, WaitStep, ZenonT(30)
<1> QED BY <1>1, <1>2, SMTT(30)

\* The modify_if of transfer_impl keeps the invariant.
LEMMA ModifyStep ==
  ASSUME GrantInv, NEW t \in Threads, Modify(t)
  PROVE  GrantInv'
<1> DEFINE s == Here(t)
           n == call[t].want
           v == count[s].value - n
<1>1. TypeOK /\ "modify" \in Waits /\ At(t, "modify")
  BY ZenonT(30) DEF GrantInv, Modify, Waits
<1>2. /\ s \in Sources /\ got[t] = 0 /\ call[t].status = "ok"
      /\ Tail(todo[t]) = << >> /\ todo[t] # << >>
  BY <1>1, TransferShape, SMTT(30)
<1>3. count \in [Sources -> SizeWatch] /\ count[s] \in SizeWatch /\ n \in Counts
  BY <1>1, <1>2, ZenonT(30) DEF TypeOK, SizeWatch
<1>4. CASE Suffices(count[s].value, t)
  <2>1. v \in Counts /\ v + n = count[s].value /\ n \in Counts /\ 0 \in Counts
    BY <1>3, <1>4, GrantConstants, SMTT(30) DEF Suffices, Counts, SizeWatch, WatchOf
  <2> DEFINE a == Announced(t, s, v)
             c == [call[t] EXCEPT !.seen = 0]
  <2>2. /\ count' = [count EXCEPT ![s] = Changed(count[s], t, v)]
        /\ got' = [got EXCEPT ![t] = n]
        /\ call' = [call EXCEPT ![t] = c]
        /\ todo' = [todo EXCEPT ![t] = (a \o <<Step("return", s)>>) \o Tail(todo[t])]
        /\ UNCHANGED <<total, object>>
    BY <1>4, Zenon DEF Modify, Then
  <2>3. a \in {<< >>, <<Step("announce", s)>>}
    BY Zenon DEF Announced
  <2>4. (a \o <<Step("return", s)>>) \o << >> = a \o <<Step("return", s)>>
    BY <2>3
  <2>5. c \in CallType /\ c.place = call[t].place /\ c.status = "ok"
    BY <1>1, <1>2, <2>1, CallChange, ZenonT(30)
  <2> HIDE DEF v, a, c, n
  <2>6. todo' = [todo EXCEPT ![t] = a \o <<Step("return", s)>>]
    BY <1>2, <2>2, <2>4, ZenonT(30)
  <2>7. Changed(count[s], t, v) \in SizeWatch /\ Changed(count[s], t, v).value = v
    BY <1>3, <2>1, ChangedWatch, SMTT(30) DEF SizeWatch
  <2>8. /\ count' \in [Sources -> SizeWatch] /\ count'[s].value = v
        /\ \A r \in Sources \ {s} : count'[r].value = count[r].value
    BY <1>2, <1>3, <2>2, <2>7, SMTT(30)
  <2>9. "return" \in Waits \cup {"return"} /\ "return" \notin Waits
    BY Zenon DEF Waits
  <2>10. Transfers(t, "return", n, c)
    BY <2>1, <2>2, <2>3, <2>5, <2>6, <2>8, <2>9, ZenonT(30) DEF Transfers
  <2> QED BY <1>1, <2>1, <2>5, <2>9, <2>10, TransferStep, SMTT(30)
<1>5. CASE ~Suffices(count[s].value, t)
  <2> DEFINE next == IF call[t].wait THEN "load" ELSE "unavailable"
  <2>1. Then(t, <<Step(next, s)>>) /\ UNCHANGED <<count, got, call, total, object>>
    BY <1>5 DEF Modify
  <2>2. call[t] \in CallType /\ call' = [call EXCEPT ![t] = call[t]]
    BY <1>1, <2>1, CallChange, SMTT(30)
  <2>3. next \in Waits
    BY DEF Waits
  <2>4. SizesKept
    BY <1>3, <2>1, SMTT(30) DEF SizesKept
  <2> HIDE DEF next
  <2> QED BY <1>1, <1>2, <2>1, <2>2, <2>3, <2>4, WaitStep, ZenonT(30)
<1> QED BY <1>4, <1>5, SMTT(30)

\* transfer_impl, finding too little to take, keeps the invariant.
LEMMA UnavailableStep ==
  ASSUME GrantInv, NEW t \in Threads, Unavailable(t)
  PROVE  GrantInv'
<1> DEFINE code == IF count[Here(t)].final # None THEN "kGrantRevoked"
                   ELSE "kGrantUnavailable"
<1>1. code \in Codes /\ "unavailable" \in Waits
  BY Zenon DEF Codes, Waits
<1>2. /\ At(t, "unavailable") /\ Finish(t, code)
      /\ UNCHANGED <<count, total, object, got>>
  BY DEF Unavailable
<1>3. SizesKept
  BY <1>2, Zenon DEF GrantInv, TypeOK, SizeWatch, SizesKept
<1> HIDE DEF code
<1> QED BY <1>1, <1>2, <1>3, FinishStep, ZenonT(30)

\* The first load of await_true keeps the invariant.
LEMMA LoadStep ==
  ASSUME GrantInv, NEW t \in Threads, Load(t)
  PROVE  GrantInv'
<1>1. "load" \in Waits /\ At(t, "load")
  BY ZenonT(30) DEF Waits, Load
<1>2. Here(t) \in Sources
  BY <1>1, TransferShape, SMTT(30)
<1>3. SizesKept /\ count[Here(t)].value \in Counts
  BY <1>2, Zenon DEF GrantInv, TypeOK, SizeWatch, Load, WatchOf, SizesKept
<1> QED BY <1>1, <1>3, RetryStep, SMTT(30) DEF Load

\* The first look of await_not_equal keeps the invariant.
LEMMA LookStep ==
  ASSUME GrantInv, NEW t \in Threads, Look(t)
  PROVE  GrantInv'
<1> DEFINE r == FirstLook(count[Here(t)], call[t].seen)
<1>1. "look" \in Waits /\ "attach" \in Waits /\ At(t, "look")
  BY ZenonT(30) DEF Waits, Look
<1>2. Here(t) \in Sources /\ call[t].status = "ok"
  BY <1>1, TransferShape, SMTT(30)
<1>3. SizesKept /\ count[Here(t)].value \in Counts
  BY <1>2, Zenon DEF GrantInv, TypeOK, SizeWatch, Look, WatchOf, SizesKept
<1>4. CASE r # None
  <2>1. r \in Counts /\ Retry(t, r)
    BY <1>3, <1>4, ZenonT(30) DEF FirstLook, Look
  <2> HIDE DEF r
  <2> QED BY <1>1, <1>3, <2>1, RetryStep, ZenonT(30)
<1>5. CASE r = None
  <2>1. Then(t, <<Step("attach", Here(t))>>) /\ UNCHANGED call
    BY <1>5, Zenon DEF Look
  <2>2. call[t] \in CallType /\ call' = [call EXCEPT ![t] = call[t]]
    BY <2>1, CallChange, SMTT(30) DEF GrantInv
  <2> QED BY <1>1, <1>2, <1>3, <2>1, <2>2, WaitStep, ZenonT(30)
<1> QED BY <1>4, <1>5, SMTT(30)

\* Attaching the waiter, or seeing a new value, keeps the invariant.
LEMMA AttachStep ==
  ASSUME GrantInv, NEW t \in Threads, Attach(t)
  PROVE  GrantInv'
<1> DEFINE s == Here(t)
           r == SecondLook(count[s], call[t].seen)
<1>1. "attach" \in Waits /\ "blocked" \in Waits /\ At(t, "attach")
  BY ZenonT(30) DEF Waits, Attach
<1>2. s \in Sources /\ call[t].status = "ok"
  BY <1>1, TransferShape, ZenonT(30)
<1>3. /\ count \in [Sources -> SizeWatch] /\ count[s] \in SizeWatch
      /\ UNCHANGED <<total, object, got>>
  BY <1>2, ZenonT(30) DEF GrantInv, TypeOK, SizeWatch, Attach
<1>4. CASE r # None
  <2>1. count[s].value \in Counts /\ (count[s].final # None => count[s].final = kClosed)
    BY <1>3, SMTT(30) DEF SizeWatch, WatchOf
  <2>2. r \in Counts \cup {kClosed}
    BY <1>4, <2>1, SMTT(30) DEF SecondLook
  <2>3. Retry(t, r) /\ UNCHANGED count
    BY <1>4 DEF Attach
  <2>4. SizesKept
    BY <1>3, <2>3, ZenonT(30) DEF SizesKept
  <2> HIDE DEF r
  <2> QED BY <1>1, <2>2, <2>3, <2>4, RetryStep, SMTT(30)
<1>5. CASE r = None
  <2>1. /\ count' = [count EXCEPT ![s] = Registered(count[s], t)]
        /\ Then(t, <<Step("blocked", s)>>) /\ UNCHANGED call
    BY <1>5, Zenon DEF Attach
  <2>2. Registered(count[s], t) \in SizeWatch /\ Registered(count[s], t).value = count[s].value
    BY <1>3, RegisteredWatch, SMTT(30) DEF SizeWatch
  <2>3. SizesKept
    BY <1>2, <1>3, <2>1, <2>2, ZenonT(30) DEF SizesKept
  <2>4. call[t] \in CallType /\ call' = [call EXCEPT ![t] = call[t]]
    BY <2>1, CallChange, ZenonT(30) DEF GrantInv
  <2> QED BY <1>1, <1>2, <2>1, <2>3, <2>4, WaitStep, ZenonT(30)
<1> QED BY <1>4, <1>5, SMTT(30)

\* A waiter that goes on with what it was told keeps the invariant.
LEMMA WakeStep ==
  ASSUME GrantInv, NEW t \in Threads, Wake(t)
  PROVE  GrantInv'
<1> DEFINE s == Here(t)
           r == count[s].outcome[t]
<1>1. "blocked" \in Waits /\ At(t, "blocked")
  BY ZenonT(30) DEF Waits, Wake
<1>2. s \in Sources
  BY <1>1, TransferShape, SMTT(30)
<1>3. count \in [Sources -> SizeWatch] /\ count[s] \in SizeWatch
  BY <1>2, ZenonT(30) DEF GrantInv, TypeOK, SizeWatch
<1>4. /\ r # None /\ Retry(t, r) /\ UNCHANGED <<total, object, got>>
      /\ count' = [count EXCEPT ![s] = Handled(count[s], t)]
  BY DEF Wake
<1>5. r \in Counts \cup {kClosed}
  BY <1>3, <1>4, ZenonT(30) DEF SizeWatch, WatchOf
<1>6. Handled(count[s], t) \in SizeWatch /\ Handled(count[s], t).value = count[s].value
  BY <1>3, HandledWatch, SMTT(30) DEF SizeWatch
<1>7. SizesKept
  BY <1>2, <1>3, <1>4, <1>6, ZenonT(30) DEF SizesKept
<1> HIDE DEF r
<1> QED BY <1>1, <1>4, <1>5, <1>7, RetryStep, ZenonT(30)

\* The new grant, if there is one, gets what the call has in hand.
LEMMA ReturnStep ==
  ASSUME GrantInv, NEW t \in Threads, Return(t)
  PROVE  GrantInv'
<1> DEFINE g == call[t].place
           ok == call[t].status = "ok"
<1>1. /\ TypeOK /\ Conservation /\ CallsExclude /\ OverwritesNothing /\ At(t, "return")
      /\ "return" \in Waits \cup {"return"}
  BY ZenonT(30) DEF GrantInv, Return
<1>2. /\ Here(t) \in Sources /\ Tail(todo[t]) = << >>
      /\ (got[t] # 0 => ok)
      /\ g \in Grants /\ object[g] = "reserved"
      /\ \A u \in Threads \ {t} : call[u].place # g
      /\ \A k \in Grants : ~Swaps(t, k)
  BY <1>1, TransferShape, ZenonT(30)
<1>3. count[g].value = 0 /\ g \in Sources /\ got[t] \in Counts /\ 0 \in Counts
  BY <1>1, <1>2, GrantConstants, SMTT(30) DEF OverwritesNothing, ZeroPlace, Sources, TypeOK, Counts
<1>4. /\ IF ok THEN /\ object' = [object EXCEPT ![g] = "live"]
                   /\ count' = [count EXCEPT ![g] = NewWatch(got[t])]
         ELSE object' = [object EXCEPT ![g] = "none"] /\ UNCHANGED count
      /\ got' = [got EXCEPT ![t] = 0]
      /\ call' = [call EXCEPT ![t] = NoCall]
      /\ UNCHANGED total
  BY ZenonT(30) DEF Return
<1>5. todo' = [todo EXCEPT ![t] = << >> \o << >>] /\ << >> \in Seq(StepType)
  BY <1>2, SeqsOf, ZenonT(30) DEF Return, Then
<1>6. /\ todo' \in [Threads -> Seq(StepType)]
      /\ Core(t)' = << >> /\ \A u \in Threads \ {t} : Core(u)' = Core(u)
  BY <1>1, <1>3, <1>5, CoreIs, ZenonT(30)
<1>7. NewWatch(got[t]) \in SizeWatch /\ NewWatch(got[t]).value = got[t]
  BY <1>3, NewWatchType, SMTT(30) DEF SizeWatch
<1>8. NoCall \in CallType /\ NoCall.place = None
  BY <1>3, ZenonT(30) DEF NoCall, CallType, Codes
<1>9. /\ count' \in [Sources -> SizeWatch] /\ count'[g].value = got[t]
      /\ \A r \in Sources \ {g} : count'[r].value = count[r].value
  BY <1>1, <1>2, <1>3, <1>4, <1>7, ZenonT(30) DEF TypeOK, SizeWatch
<1>10. /\ object' \in [Grants -> Objects]
       /\ object'[g] = IF ok THEN "live" ELSE "none"
       /\ \A k \in Grants \ {g} : object'[k] = object[k]
  BY <1>1, <1>2, <1>4, ZenonT(30) DEF TypeOK, Objects
<1>11. /\ got' \in [Threads -> Counts] /\ got'[t] = 0
       /\ call' \in [Threads -> CallType] /\ call'[t].place = None
       /\ \A u \in Threads \ {t} : got'[u] = got[u] /\ call'[u] = call[u]
  BY <1>1, <1>3, <1>4, <1>8, SMTT(30) DEF TypeOK, CallType
<1> HIDE DEF ok, g
<1>12. TypeOK'
  BY <1>1, <1>4, <1>6, <1>9, <1>10, <1>11, ZenonT(30) DEF TypeOK, CallType, SizeWatch, StepType
<1>13. Conservation'
  <2>1. count'[g].value + got'[t] - total' = count[g].value + got[t] - total
    <3>1. got[t] \in Int /\ total \in Int
      BY <1>1, <1>3, SMTT(30) DEF TypeOK, Counts
    <3> QED BY <1>3, <1>4, <1>9, <1>11, <3>1, SMTT(30)
  <2> QED BY <1>1, <1>3, <1>9, <1>11, <1>12, <2>1, SumsStep, SMTT(30)
<1>14. \A u \in Threads : ~Touches(u, g)
  BY <1>1, <1>2, ZenonT(30) DEF CallsExclude, Permitted
<1>15. \A u \in Threads, k \in Grants :
         /\ Touches(u, k) => k # g
         /\ Swaps(u, k) \/ Frees(u, k) => Touches(u, k)
  BY <1>14, SMTT(30) DEF Touches, Swaps, Frees, Step
<1>16. /\ Left(t)' = {} /\ Unloaded(Core(t)')
       /\ \A k \in Grants :
            /\ ~Swaps(t, k)' /\ ~Frees(t, k)' /\ ~Touches(t, k)'
            /\ Permitted(t, k)' /\ ZeroOverwritten(t, k)'
  BY <1>6, NothingLeft, ZenonT(30)
<1>17. ASSUME NEW k \in Grants
       PROVE  ZeroPlace(k)'
  <2>1. CASE k = g
    <3>1. object'[k] # "live" => count'[k].value = 0
      BY <1>2, <1>9, <1>10, <2>1, ZenonT(30)
    <3> QED BY <3>1, ZenonT(30) DEF ZeroPlace
  <2>2. CASE k # g
    <3>1. \A u \in Threads \ {t} : Swaps(u, k)' <=> Swaps(u, k)
      BY <1>6, SameLeft, ZenonT(30) DEF Left
    <3>2. \A u \in Threads : Swaps(u, k)' <=> Swaps(u, k)
      BY <1>2, <1>16, <3>1, ZenonT(30)
    <3> QED BY <1>1, <1>9, <1>10, <2>2, <3>2, ZenonT(30) DEF OverwritesNothing, ZeroPlace, Sources
  <2> QED BY <2>1, <2>2, ZenonT(30)
<1>18. OthersKept(t)
  BY <1>6, <1>11, ZenonT(30) DEF OthersKept
<1>19. UsesKept(t)
  BY <1>2, <1>9, <1>10, <1>11, <1>15, <1>16, GrantConstants, ZenonT(30) DEF UsesKept, Sources
<1>20. OwnKept(t)
  <2>1. Planned(t)' /\ Placed(t)'
    BY <1>11, <1>16, Zenon DEF Planned, Placed, Unloaded, Step
  <2> QED BY <1>16, <1>17, <2>1, ZenonT(30) DEF OwnKept
<1> QED BY <1>12, <1>13, <1>18, <1>19, <1>20, OwnStep, ZenonT(30)
=============================================================================
