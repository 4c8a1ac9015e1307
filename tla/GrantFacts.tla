---------------------------- MODULE GrantFacts ----------------------------
(***************************************************************************)
(* What the proofs about Grant rest on.                                    *)
(***************************************************************************)
EXTENDS Grant

SizeWatch == WatchOf(Counts, {kClosed})
StepType == [do : Steps, at : Sources]

\* The tails of short sequences, and their elements.
LEMMA Tails ==
  /\ \A a : <<a>> # << >> /\ Head(<<a>>) = a /\ Tail(<<a>>) = << >>
  /\ \A a, b : <<a, b>> # << >> /\ Head(<<a, b>>) = a /\ Tail(<<a, b>>) = <<b>>
  /\ \A a, b, c :
       <<a, b, c>> # << >> /\ Head(<<a, b, c>>) = a /\ Tail(<<a, b, c>>) = <<b, c>>
  /\ \A a, b, c, d :
       /\ <<a, b, c, d>> # << >> /\ Head(<<a, b, c, d>>) = a
       /\ Tail(<<a, b, c, d>>) = <<b, c, d>>
OBVIOUS

\* The elements of short sequences.
LEMMA Elements ==
  /\ Range(<< >>) = {}
  /\ \A a : Range(<<a>>) = {a}
  /\ \A a, b : Range(<<a, b>>) = {a, b}
  /\ \A a, b, c : Range(<<a, b, c>>) = {a, b, c}
  /\ \A a, b, c, d : Range(<<a, b, c, d>>) = {a, b, c, d}
<1>1. Range(<< >>) = {} /\ \A a : Range(<<a>>) = {a}
  BY DEF Range
<1>2. \A a, b : Range(<<a, b>>) = {a, b}
  BY DEF Range
<1>3. \A a, b, c : Range(<<a, b, c>>) = {a, b, c}
  BY DEF Range
<1>4. \A a, b, c, d : Range(<<a, b, c, d>>) = {a, b, c, d}
  BY DEF Range
<1> QED BY <1>1, <1>2, <1>3, <1>4, Zenon

\* Sequences of different lengths differ.
LEMMA Shorter ==
  /\ \A a, b, c : <<a>> # <<b, c>>
  /\ \A a, b, c, d : <<a>> # <<b, c, d>>
  /\ \A a, b : << >> # <<a, b>>
  /\ \A a, b, c : << >> # <<a, b, c>>
BY Zenon

\* What \o does to the elements of two sequences.
LEMMA Joins ==
  ASSUME NEW S, NEW p \in Seq(S), NEW r \in Seq(S)
  PROVE  /\ p \o r \in Seq(S) /\ Len(p \o r) = Len(p) + Len(r)
         /\ \A i \in 1..(Len(p) + Len(r)) :
              (p \o r)[i] = IF i <= Len(p) THEN p[i] ELSE r[i - Len(p)]
OBVIOUS

\* A short sequence, spelt out.
LEMMA Spelt ==
  ASSUME NEW S, NEW q \in Seq(S)
  PROVE  /\ Len(q) = 2 => q = <<q[1], q[2]>>
         /\ Len(q) = 3 => q = <<q[1], q[2], q[3]>>
         /\ Len(q) = 4 => q = <<q[1], q[2], q[3], q[4]>>
OBVIOUS

\* Short sequences with one more element at the end.
LEMMA Joined ==
  /\ \A a : << >> \o <<a>> = <<a>>
  /\ \A a, b : <<a>> \o <<b>> = <<a, b>>
  /\ \A a, b, c : <<a, b>> \o <<c>> = <<a, b, c>>
  /\ \A a, b, c, d : <<a, b, c>> \o <<d>> = <<a, b, c, d>>
<1>1. \A a : << >> \o <<a>> = <<a>>
  OBVIOUS
<1>2. \A a, b : <<a>> \o <<b>> = <<a, b>>
  <2> SUFFICES ASSUME NEW a, NEW b
               PROVE  <<a>> \o <<b>> = <<a, b>>
    BY Zenon
  <2> DEFINE S == {a, b}
             p == <<a>>
             r == <<b>>
             j == p \o r
  <2>1. /\ p \in Seq(S) /\ Len(p) = 1 /\ p[1] = a
        /\ r \in Seq(S) /\ Len(r) = 1 /\ r[1] = b
    OBVIOUS
  <2> HIDE DEF p, r, S
  <2>2. /\ j \in Seq(S) /\ Len(j) = Len(p) + Len(r)
        /\ \A i \in 1..(Len(p) + Len(r)) : j[i] = IF i <= Len(p) THEN p[i] ELSE r[i - Len(p)]
    BY <2>1, Joins, Zenon
  <2> HIDE DEF j
  <2>3. Len(j) = 2 /\ j[1] = a /\ j[2] = b
    BY <2>1, <2>2
  <2>4. j = <<a, b>>
    BY <2>2, <2>3, Spelt, Zenon
  <2> QED BY <2>4, Zenon DEF j, p, r
<1>3. \A a, b, c : <<a, b>> \o <<c>> = <<a, b, c>>
  <2> SUFFICES ASSUME NEW a, NEW b, NEW c
               PROVE  <<a, b>> \o <<c>> = <<a, b, c>>
    BY Zenon
  <2> DEFINE S == {a, b, c}
             p == <<a, b>>
             r == <<c>>
             j == p \o r
  <2>1. /\ p \in Seq(S) /\ Len(p) = 2 /\ p[1] = a /\ p[2] = b
        /\ r \in Seq(S) /\ Len(r) = 1 /\ r[1] = c
    OBVIOUS
  <2> HIDE DEF p, r, S
  <2>2. /\ j \in Seq(S) /\ Len(j) = Len(p) + Len(r)
        /\ \A i \in 1..(Len(p) + Len(r)) : j[i] = IF i <= Len(p) THEN p[i] ELSE r[i - Len(p)]
    BY <2>1, Joins, Zenon
  <2> HIDE DEF j
  <2>3. Len(j) = 3 /\ j[1] = a /\ j[2] = b /\ j[3] = c
    BY <2>1, <2>2
  <2>4. j = <<a, b, c>>
    BY <2>2, <2>3, Spelt, Zenon
  <2> QED BY <2>4, Zenon DEF j, p, r
<1>4. \A a, b, c, d : <<a, b, c>> \o <<d>> = <<a, b, c, d>>
  <2> SUFFICES ASSUME NEW a, NEW b, NEW c, NEW d
               PROVE  <<a, b, c>> \o <<d>> = <<a, b, c, d>>
    BY Zenon
  <2> DEFINE S == {a, b, c, d}
             p == <<a, b, c>>
             r == <<d>>
             j == p \o r
  <2>1. /\ p \in Seq(S) /\ Len(p) = 3 /\ p[1] = a /\ p[2] = b /\ p[3] = c
        /\ r \in Seq(S) /\ Len(r) = 1 /\ r[1] = d
    OBVIOUS
  <2> HIDE DEF p, r, S
  <2>2. /\ j \in Seq(S) /\ Len(j) = Len(p) + Len(r)
        /\ \A i \in 1..(Len(p) + Len(r)) : j[i] = IF i <= Len(p) THEN p[i] ELSE r[i - Len(p)]
    BY <2>1, Joins, Zenon
  <2> HIDE DEF j
  <2>3. Len(j) = 4 /\ j[1] = a /\ j[2] = b /\ j[3] = c /\ j[4] = d
    BY <2>1, <2>2
  <2>4. j = <<a, b, c, d>>
    BY <2>2, <2>3, Spelt, Zenon
  <2> QED BY <2>4, Zenon DEF j, p, r
<1> QED BY <1>1, <1>2, <1>3, <1>4, Zenon

\* The fields of a step, and its type.
LEMMA StepIs ==
  \A what \in Steps, s \in Sources :
    /\ Step(what, s) \in StepType
    /\ Step(what, s).do = what /\ Step(what, s).at = s
BY Zenon DEF Step, StepType

\* Short sequences of steps are sequences of steps.
LEMMA SeqsOf ==
  ASSUME NEW S
  PROVE  /\ << >> \in Seq(S)
         /\ \A a \in S : <<a>> \in Seq(S)
         /\ \A a, b \in S : <<a, b>> \in Seq(S)
         /\ \A a, b, c \in S : <<a, b, c>> \in Seq(S)
         /\ \A a, b, c, d \in S : <<a, b, c, d>> \in Seq(S)
OBVIOUS

\* A sequence is its head before its tail.
LEMMA Rebuilt ==
  ASSUME NEW S, NEW q \in Seq(S), q # << >>
  PROVE  \A b, c : Tail(q) = <<b, c>> => q = <<Head(q), b, c>>
<1> SUFFICES ASSUME NEW b, NEW c, Tail(q) = <<b, c>>
             PROVE  q = <<Head(q), b, c>>
  BY Zenon
<1> DEFINE r == <<b, c>>
<1>1. Len(r) = 2 /\ r[1] = b /\ r[2] = c
  BY Zenon
<1>2. Tail(q) = r
  BY Zenon
<1> HIDE DEF r
<1>3. /\ Len(q) \in Nat /\ Len(q) > 0 /\ Len(r) = Len(q) - 1 /\ Head(q) = q[1]
      /\ \A i \in 1..(Len(q) - 1) : r[i] = q[i + 1]
  BY <1>2
<1>4. Len(q) = 3 /\ q[2] = b /\ q[3] = c
  BY <1>1, <1>3, SMTT(30)
<1>5. <<q[1], q[2], q[3]>> = q
  BY <1>4
<1> QED BY <1>3, <1>4, <1>5, Zenon

\* What comes of a step put before a sequence.
LEMMA Front ==
  ASSUME NEW S, NEW q \in Seq(S), NEW x \in S
  PROVE  /\ << >> \o q = q
         /\ <<x>> \o q \in Seq(S) /\ <<x>> \o q # << >>
         /\ Head(<<x>> \o q) = x /\ Tail(<<x>> \o q) = q
OBVIOUS

\* The first step of a call, and the others.
LEMMA HereType ==
  ASSUME TypeOK, NEW t \in Threads, todo[t] # << >>
  PROVE  /\ Head(todo[t]) \in StepType /\ Here(t) \in Sources
         /\ Tail(todo[t]) \in Seq(StepType)
<1>1. todo[t] \in Seq(StepType)
  BY Zenon DEF TypeOK, StepType
<1>2. Head(todo[t]) \in StepType /\ Tail(todo[t]) \in Seq(StepType)
  BY <1>1
<1> QED BY <1>2, Zenon DEF Here, StepType

\* After a step of t that has q left and may have a change to announce first,
\* the core of its call is q; the calls of the others are as they were.
LEMMA CoreIs ==
  ASSUME TypeOK, NEW t \in Threads, NEW q \in Seq(StepType),
         q # << >> => Head(q).do # "announce",
         NEW s \in Sources, NEW a \in {<< >>, <<Step("announce", s)>>},
         todo' = [todo EXCEPT ![t] = a \o q]
  PROVE  /\ todo' \in [Threads -> Seq(StepType)]
         /\ Core(t)' = q
         /\ \A u \in Threads \ {t} : Core(u)' = Core(u)
<1>1. Step("announce", s) \in StepType /\ Step("announce", s).do = "announce"
  BY Zenon DEF Step, StepType, Steps
<1>2. todo \in [Threads -> Seq(StepType)]
  BY Zenon DEF TypeOK, StepType
<1>3. CASE a = << >>
  <2>1. todo' = [todo EXCEPT ![t] = q]
    BY <1>3, Front
  <2>2. /\ todo' \in [Threads -> Seq(StepType)] /\ todo'[t] = q
        /\ \A u \in Threads \ {t} : todo'[u] = todo[u]
    BY <1>2, <2>1, Zenon
  <2> QED BY <2>2, ZenonT(30) DEF Core, At
<1>4. CASE a = <<Step("announce", s)>>
  <2> DEFINE r == a \o q
  <2>1. /\ r \in Seq(StepType) /\ r # << >>
        /\ Head(r).do = "announce" /\ Tail(r) = q
    BY <1>1, <1>4, Front
  <2> HIDE DEF r
  <2>2. todo' = [todo EXCEPT ![t] = r]
    BY Zenon DEF r
  <2> QED BY <1>2, <2>1, <2>2 DEF Core, At
<1> QED BY <1>3, <1>4, Zenon
-----------------------------------------------------------------------------
\* The sums that Conservation adds up.
LEMMA SumsType ==
  ASSUME TypeOK
  PROVE  /\ IsFiniteSet(Sources) /\ IsFiniteSet(Threads)
         /\ Size \in [Sources -> Nat] /\ got \in [Threads -> Nat]
         /\ Total(Size) \in Nat /\ Total(got) \in Nat
<1>1. IsFiniteSet(Sources) /\ IsFiniteSet(Threads)
  BY GrantConstants, FS_AddElement, Zenon DEF Sources
<1>2. Size \in [Sources -> Nat] /\ got \in [Threads -> Nat]
  BY GrantConstants DEF TypeOK, Size, Counts, WatchOf
<1> QED BY <1>1, <1>2, TotalType, Zenon

\* What a source has and what a thread has in hand fit under the bound.
LEMMA Bounded ==
  ASSUME TypeOK, Conservation, NEW s \in Sources, NEW t \in Threads
  PROVE  count[s].value + got[t] \in Counts
<1>1. Size[s] <= Total(Size) /\ got[t] <= Total(got)
  BY SumsType, TotalBound, Zenon
<1>2. Size[s] = count[s].value /\ Size[s] \in Nat /\ got[t] \in Nat
  BY SumsType, Zenon DEF Size
<1>3. total \in Nat /\ total <= MaxTotal /\ MaxTotal \in Nat
  BY GrantConstants DEF TypeOK, Counts
<1> QED BY <1>1, <1>2, <1>3, SumsType DEF Conservation, Counts

\* Moving a count between a watch and a hand loses nothing.
LEMMA SumsStep ==
  ASSUME TypeOK, Conservation, TypeOK', NEW s \in Sources, NEW t \in Threads,
         \A r \in Sources \ {s} : count'[r].value = count[r].value,
         \A u \in Threads \ {t} : got'[u] = got[u],
         count'[s].value + got'[t] - total' = count[s].value + got[t] - total
  PROVE  Conservation'
<1>1. /\ IsFiniteSet(Sources) /\ IsFiniteSet(Threads)
      /\ Size \in [Sources -> Nat] /\ got \in [Threads -> Nat]
      /\ Total(Size) \in Nat /\ Total(got) \in Nat
  BY SumsType, Zenon
<1>2. Size' \in [Sources -> Nat] /\ got' \in [Threads -> Nat]
  BY GrantConstants, SMTT(30) DEF TypeOK, Size, Counts, WatchOf
<1>3. /\ \A r \in Sources \ {s} : Size'[r] = Size[r]
      /\ Size[s] = count[s].value /\ Size'[s] = count'[s].value
  BY Zenon DEF Size
<1>4. Total(Size') = Total(Size) - Size[s] + Size'[s]
  BY <1>1, <1>2, <1>3, TotalStep
<1>5. Total(got') = Total(got) - got[t] + got'[t]
  BY <1>1, <1>2, TotalStep
<1>6. Size[s] \in Nat /\ Size'[s] \in Nat /\ got[t] \in Nat /\ got'[t] \in Nat
  BY <1>1, <1>2, Zenon
<1>7. total \in Nat /\ total' \in Nat
  BY GrantConstants DEF TypeOK, Counts
<1>8. Conservation' <=> total' = Total(Size') + Total(got')
  BY Zenon DEF Conservation
<1> QED BY <1>1, <1>3, <1>4, <1>5, <1>6, <1>7, <1>8, SMTT(30) DEF Conservation

\* A step of t leaves the calls of the others as they are.
OthersKept(t) ==
  \A u \in Threads \ {t} : Core(u)' = Core(u) /\ got'[u] = got[u] /\ call'[u] = call[u]

\* A step of t that has q left after it, sets the watch at s to v, and has n in
\* hand then.
Moves(t, s, q, v, n) ==
  /\ OthersKept(t) /\ Core(t)' = q /\ got'[t] = n
  /\ count'[s].value = v
  /\ \A r \in Sources \ {s} : count'[r].value = count[r].value
  /\ UNCHANGED <<total, object, call>>

\* set_value and fetch_add, by a call that has q left after it.
LEMMA ChangeStep ==
  ASSUME TypeOK, Conservation, NEW t \in Threads, NEW q \in Seq(StepType),
         q # << >> => Head(q).do # "announce",
         todo[t] # << >>, Tail(todo[t]) = q, Here(t) \in Sources,
         NEW v \in Counts, NEW n \in Counts, Change(t, v, n),
         v + n = count[Here(t)].value + got[t]
  PROVE  TypeOK' /\ Conservation' /\ Moves(t, Here(t), q, v, n)
<1> DEFINE s == Here(t)
<1>1. /\ count' = [count EXCEPT ![s] = Changed(count[s], t, v)]
      /\ got' = [got EXCEPT ![t] = n] /\ UNCHANGED <<total, object, call>>
  BY Zenon DEF Change
<1>2. Announced(t, s, v) \in {<< >>, <<Step("announce", s)>>}
  BY Zenon DEF Announced
<1>3. todo' = [todo EXCEPT ![t] = Announced(t, s, v) \o q]
  BY Zenon DEF Change, Then
<1>4. /\ todo' \in [Threads -> Seq(StepType)]
      /\ Core(t)' = q /\ \A u \in Threads \ {t} : Core(u)' = Core(u)
  BY <1>2, <1>3, CoreIs, ZenonT(30)
<1>5. count[s] \in SizeWatch
  BY Zenon DEF TypeOK, SizeWatch
<1>6. Changed(count[s], t, v) \in SizeWatch /\ Changed(count[s], t, v).value = v
  BY <1>5, ChangedWatch DEF SizeWatch
<1>7. TypeOK'
  BY <1>1, <1>4, <1>6, Zenon DEF TypeOK, SizeWatch, StepType
<1>8. /\ got'[t] = n /\ \A u \in Threads \ {t} : got'[u] = got[u]
      /\ count'[s].value = v
      /\ \A r \in Sources \ {s} : count'[r].value = count[r].value
  BY <1>1, <1>6, Zenon DEF TypeOK
<1>9. Conservation'
  <2>1. total \in Nat /\ count[s].value \in Nat /\ got[t] \in Nat
    BY GrantConstants DEF TypeOK, Counts, WatchOf
  <2>2. count'[s].value + got'[t] - total' = count[s].value + got[t] - total
    <3>1. v \in Int /\ n \in Int /\ total' = total
      BY <1>1 DEF Counts
    <3> QED BY <1>8, <2>1, <3>1, SMTT(30)
  <2> QED BY <1>7, <1>8, <2>2, SumsStep, SMTT(30)
<1> QED BY <1>1, <1>4, <1>7, <1>8, <1>9, SMTT(30) DEF Moves, OthersKept
-----------------------------------------------------------------------------
\* With less left to do, the calls exclude each other all the more.
LEMMA ExcludeShrinks ==
  ASSUME CallsExclude, UNCHANGED object,
         \A u \in Threads : Left(u)' \subseteq Left(u)
  PROVE  CallsExclude'
BY DEF CallsExclude, Permitted, Swaps, Frees, Touches

\* What u overwrites is still zero if nobody has changed what it swaps or frees.
LEMMA OverwriteFrame ==
  ASSUME NEW u \in Threads, NEW g \in Grants, ZeroOverwritten(u, g),
         Core(u)' = Core(u), got'[u] = got[u],
         \A k \in Grants : Swaps(u, k) \/ Frees(u, k) =>
           object'[k] = object[k] /\ count'[k].value = count[k].value
  PROVE  ZeroOverwritten(u, g)'
<1>1. Left(u)' = Left(u)
  BY Zenon DEF Left
<1>2. Core(u) = <<Step("put", g)>> => Swaps(u, g)
  BY Elements DEF Left, Swaps
<1>3. ASSUME NEW h \in Grants, Core(u) = <<Step("exchange", h), Step("put", g)>>
      PROVE  Swaps(u, g) /\ Swaps(u, h)
  BY <1>3, Elements DEF Left, Swaps
<1>4. ASSUME NEW h \in Grants,
             Core(u) = <<Step("take", g), Step("exchange", h), Step("put", g)>>
      PROVE  Swaps(u, g) /\ Swaps(u, h)
  BY <1>4, Elements DEF Left, Swaps
<1>5. /\ Frees(u, g)' = Frees(u, g)
      /\ (Step("take", g) \in Left(u))' = (Step("take", g) \in Left(u))
  BY <1>1, Zenon DEF Frees, Step
<1>6. (Frees(u, g) /\ Step("take", g) \notin Left(u) => count[g].value = 0)'
  BY <1>5, Zenon DEF ZeroOverwritten
<1>7. (Core(u) = <<Step("put", g)>> =>
         count[g].value = 0 /\ (object[g] = "moved" => got[u] = 0))'
  BY <1>2, Zenon DEF ZeroOverwritten, Step
<1>8. ASSUME NEW h \in Grants \ {g}
      PROVE  (/\ Core(u) = <<Step("exchange", h), Step("put", g)>> =>
                 /\ count[g].value = 0
                 /\ object[g] = "moved" => count[h].value = 0
                 /\ object[h] = "moved" => got[u] = 0
              /\ Core(u) = <<Step("take", g), Step("exchange", h), Step("put", g)>> =>
                 /\ object[g] = "moved" => count[h].value = 0
                 /\ object[h] = "moved" => count[g].value = 0)'
  <2>1. CASE Core(u) = <<Step("exchange", h), Step("put", g)>>
    BY <1>3, <2>1, Zenon DEF ZeroOverwritten, Step
  <2>2. CASE Core(u) = <<Step("take", g), Step("exchange", h), Step("put", g)>>
    BY <1>4, <2>2 DEF ZeroOverwritten, Step
  <2> QED BY <2>1, <2>2, Zenon DEF Step
<1> QED BY <1>6, <1>7, <1>8, Zenon DEF ZeroOverwritten
\* The next step x of t, at s, is done.
Drops(t, x, s) ==
  /\ x.at = s /\ x \in Left(t)
  /\ Left(t) = {x} \cup Left(t)' /\ x \notin Left(t)'
  /\ \A y \in Left(t)' : y.do \notin Waits \cup {"return"}

\* Such a step keeps GrantInv if it does so for what t itself overwrites and
\* for the place s.
LEMMA ChangeKeeps ==
  ASSUME GrantInv, TypeOK', Conservation', NEW t \in Threads,
         NEW s \in Sources, NEW q, NEW v, NEW n, Moves(t, s, q, v, n),
         NEW x, Drops(t, x, s), Planned(t)',
         s \in Grants => ZeroPlace(s)',
         \A g \in Grants : ZeroOverwritten(t, g)'
  PROVE  GrantInv'
<1>1. /\ \A u \in Threads \ {t} :
           /\ Core(u)' = Core(u) /\ Left(u)' = Left(u)
           /\ got'[u] = got[u] /\ call'[u] = call[u]
      /\ \A r \in Sources \ {s} : count'[r].value = count[r].value
      /\ UNCHANGED <<object, call>>
  BY ZenonT(30) DEF Moves, OthersKept, Left
<1>2. CallsPlanned'
  BY <1>1, SMTT(30) DEF GrantInv, CallsPlanned, Planned, Loaded, Unloaded, Step
<1>3. TransfersPlaced'
  BY <1>1 DEF GrantInv, TransfersPlaced, Placed, Drops
<1>4. CallsExclude'
  BY <1>1, ExcludeShrinks, ZenonT(30) DEF GrantInv, Drops
<1>5. ASSUME NEW u \in Threads \ {t}, NEW g \in Grants
      PROVE  ZeroOverwritten(u, g)'
  <2>1. \A k \in Grants : Swaps(u, k) \/ Frees(u, k) =>
          object'[k] = object[k] /\ count'[k].value = count[k].value
    BY <1>1 DEF GrantInv, CallsExclude, Touches, Sources, Drops
  <2> QED BY <1>1, <2>1, OverwriteFrame, SMTT(30) DEF GrantInv, OverwritesNothing
<1>6. ASSUME NEW g \in Grants
      PROVE  ZeroPlace(g)'
  <2>1. CASE g = s
    BY <2>1, ZenonT(30)
  <2>2. CASE g # s
    <3>1. \A u \in Threads : Swaps(u, g)' <=> Swaps(u, g)
      BY <1>1, <2>2, SMTT(30) DEF Swaps, Step, Drops
    <3> QED BY <1>1, <2>2, <3>1, SMTT(30) DEF GrantInv, OverwritesNothing, ZeroPlace, Sources
  <2> QED BY <2>1, <2>2, Zenon
<1> QED BY <1>2, <1>3, <1>4, <1>5, <1>6, ZenonT(30) DEF GrantInv, OverwritesNothing
-----------------------------------------------------------------------------
\* No call has an announcement left but the one that comes first.
LEMMA CoreStarts ==
  ASSUME CallsPlanned, NEW t \in Threads, Core(t) # << >>
  PROVE  Head(Core(t)).do # "announce"
BY DEF CallsPlanned, Planned, Loaded, Unloaded, Waits, Step

\* Nobody's size changes, and no sum, with the watches and the calls as they
\* are.
LEMMA SameSizes ==
  ASSUME TypeOK, Conservation, TypeOK',
         \A s \in Sources : count'[s].value = count[s].value,
         got' = got, total' = total
  PROVE  Conservation'
<1>1. Size' = Size
  BY Zenon DEF Size
<1> QED BY <1>1, Zenon DEF Conservation

\* What the calls have left, what they have in hand and what they would
\* overwrite are all that GrantInv is about, besides the types and the sum.
LEMMA SameCalls ==
  ASSUME GrantInv, TypeOK', Conservation',
         \A u \in Threads : Core(u)' = Core(u),
         \A r \in Sources : count'[r].value = count[r].value,
         UNCHANGED <<object, got, call>>
  PROVE  GrantInv'
<1>1. \A u \in Threads : Left(u)' = Left(u)
  BY ZenonT(30) DEF Left
<1>2. CallsPlanned'
  BY SMTT(30) DEF GrantInv, CallsPlanned, Planned, Loaded, Unloaded, Step
<1>3. TransfersPlaced'
  BY <1>1 DEF GrantInv, TransfersPlaced, Placed
<1>4. CallsExclude'
  BY <1>1, ExcludeShrinks, Zenon DEF GrantInv
<1>5. ASSUME NEW u \in Threads, NEW g \in Grants
      PROVE  ZeroOverwritten(u, g)'
  BY OverwriteFrame, Zenon DEF GrantInv, OverwritesNothing, Sources
<1>6. ASSUME NEW g \in Grants
      PROVE  ZeroPlace(g)'
  <2>1. \A u \in Threads : Swaps(u, g)' <=> Swaps(u, g)
    BY <1>1, Zenon DEF Swaps, Step
  <2> QED BY <2>1, Zenon DEF GrantInv, OverwritesNothing, ZeroPlace, Sources
<1> QED BY <1>2, <1>3, <1>4, <1>5, <1>6, ZenonT(30) DEF GrantInv, OverwritesNothing

\* A call that has the same left to do does the same.
LEMMA SameLeft ==
  ASSUME NEW u \in Threads, Left(u)' = Left(u), NEW k \in Grants
  PROVE  /\ Swaps(u, k)' <=> Swaps(u, k)
         /\ Frees(u, k)' <=> Frees(u, k)
         /\ Touches(u, k)' <=> Touches(u, k)
         /\ (Step("add", k) \in Left(u))' <=> Step("add", k) \in Left(u)
BY Zenon DEF Swaps, Frees, Touches, Step

\* A step of t does not disturb what the calls of the others use.
UsesKept(t) ==
  \A u \in Threads \ {t} :
    /\ call[u].place \in Grants =>
         call'[t].place = call[t].place \/ call'[t].place # call[u].place
    /\ \A k \in Grants :
         /\ Touches(u, k) => object'[k] = object[k]
         /\ call[u].place = k /\ object[k] = "reserved" => object'[k] = "reserved"
         /\ Swaps(u, k) \/ Frees(u, k) =>
              count'[k].value = count[k].value /\ ~Touches(t, k)'
         /\ Swaps(t, k)' \/ Frees(t, k)' => ~Touches(u, k)

\* The call of t respects GrantInv after the step.
OwnKept(t) ==
  /\ Planned(t)' /\ Placed(t)'
  /\ \A k \in Grants : Permitted(t, k)' /\ ZeroPlace(k)' /\ ZeroOverwritten(t, k)'

\* A step of t keeps GrantInv if t itself still respects it and leaves alone
\* what the calls of the others use.
LEMMA OwnStep ==
  ASSUME GrantInv, TypeOK', Conservation', NEW t \in Threads,
         OthersKept(t), UsesKept(t), OwnKept(t)
  PROVE  GrantInv'
<1> DEFINE Others == Threads \ {t}
<1>1. \A u \in Others : /\ Core(u)' = Core(u) /\ Left(u)' = Left(u)
                        /\ got'[u] = got[u] /\ call'[u] = call[u]
  BY DEF OthersKept, Left
<1>2. \A u \in Others, k \in Grants :
        /\ Swaps(u, k)' <=> Swaps(u, k)
        /\ Frees(u, k)' <=> Frees(u, k)
        /\ Touches(u, k)' <=> Touches(u, k)
        /\ (Step("add", k) \in Left(u))' <=> Step("add", k) \in Left(u)
  BY <1>1, SameLeft
<1>3. CallsPlanned'
  <2>1. \A u \in Others : Planned(u)'
    BY <1>1, SMTT(30) DEF GrantInv, CallsPlanned, Planned, Loaded, Unloaded, Step
  <2> QED BY <2>1, ZenonT(30) DEF CallsPlanned, OwnKept
<1>4. TransfersPlaced'
  <2>1. ASSUME NEW u \in Others
        PROVE  Placed(u)'
    <3>1. Placed(u)
      BY DEF GrantInv, TransfersPlaced
    <3> QED BY <1>1, <3>1, SMTT(30) DEF Placed, UsesKept
  <2> QED BY <2>1, ZenonT(30) DEF TransfersPlaced, OwnKept
<1>5. CallsExclude'
  <2>1. ASSUME NEW u \in Others, NEW k \in Grants
        PROVE  Permitted(u, k)'
    <3>1. Permitted(u, k)
      BY Zenon DEF GrantInv, CallsExclude
    <3>2. Frees(u, k) \/ Step("add", k) \in Left(u) => Touches(u, k)
      BY DEF Frees, Touches, Step
    <3> QED BY <1>2, <3>1, <3>2, SMTT(30) DEF Permitted, UsesKept
  <2>2. ASSUME NEW u \in Threads, NEW k \in Grants, (Swaps(u, k) \/ Frees(u, k))',
               NEW v \in Threads \ {u}
        PROVE  ~Touches(v, k)'
    <3>1. CASE u = t
      BY <1>2, <2>2, <3>1, ZenonT(30) DEF UsesKept
    <3>2. CASE v = t
      BY <1>2, <2>2, <3>2, ZenonT(30) DEF UsesKept
    <3>3. CASE u # t /\ v # t
      BY <1>2, <2>2, <3>3, ZenonT(30) DEF GrantInv, CallsExclude
    <3> QED BY <3>1, <3>2, <3>3, ZenonT(30)
  <2> QED BY <2>1, <2>2, ZenonT(30) DEF CallsExclude, OwnKept
<1>6. ASSUME NEW u \in Others, NEW g \in Grants
      PROVE  ZeroOverwritten(u, g)'
  <2>1. \A k \in Grants : Swaps(u, k) \/ Frees(u, k) => Touches(u, k)
    BY Zenon DEF Swaps, Frees, Touches, Step
  <2>2. \A k \in Grants : Swaps(u, k) \/ Frees(u, k) =>
          object'[k] = object[k] /\ count'[k].value = count[k].value
    BY <2>1, ZenonT(30) DEF UsesKept
  <2> QED BY <1>1, <2>2, OverwriteFrame, SMTT(30) DEF GrantInv, OverwritesNothing
<1> QED BY <1>3, <1>4, <1>5, <1>6, ZenonT(30) DEF GrantInv, OverwritesNothing, OwnKept

\* What nobody has left to do overwrites nothing.
LEMMA NothingLeft ==
  ASSUME NEW t \in Threads, Core(t)' = << >>
  PROVE  /\ Left(t)' = {}
         /\ Unloaded(Core(t)')
         /\ \A k \in Grants :
              /\ ~Swaps(t, k)' /\ ~Frees(t, k)' /\ ~Touches(t, k)'
              /\ Permitted(t, k)' /\ ZeroOverwritten(t, k)'
<1>1. Left(t)' = {}
  BY Elements, Zenon DEF Left
<1>2. \A k \in Grants : ~Swaps(t, k)' /\ ~Frees(t, k)' /\ ~Touches(t, k)'
  BY <1>1, Zenon DEF Swaps, Frees, Touches
<1> QED BY <1>1, <1>2 DEF ZeroOverwritten, Permitted, Unloaded, Step

\* What follows from one step being left of a call.
LEMMA OneLeft ==
  ASSUME NEW t \in Threads, NEW s \in Sources,
         NEW what \in Waits \cup {"return", "add", "close"},
         Core(t)' = <<Step(what, s)>>
  PROVE  /\ Left(t)' = {Step(what, s)}
         /\ what \in {"return", "add"} => Loaded(Core(t)')
         /\ what \notin {"return", "add"} => Unloaded(Core(t)')
         /\ \A k \in Grants :
              /\ ~Swaps(t, k)' /\ ~Frees(t, k)'
              /\ Touches(t, k)' => k = s
              /\ (Step("add", k) \in Left(t))' => what = "add" /\ k = s
              /\ ZeroOverwritten(t, k)'
<1> DEFINE x == Step(what, s)
<1>1. x.do = what /\ x.at = s
  BY Zenon DEF Step
<1>2. Left(t)' = {x}
  BY Elements, Zenon DEF Left
<1>3. what \in {"return", "add"} => Loaded(Core(t)')
  BY Zenon DEF Loaded
<1>4. what \notin {"return", "add"} => Unloaded(Core(t)')
  BY Zenon DEF Unloaded
<1>5. ASSUME NEW k \in Grants
      PROVE  /\ ~Swaps(t, k)' /\ ~Frees(t, k)'
             /\ Touches(t, k)' => k = s
             /\ (Step("add", k) \in Left(t))' => what = "add" /\ k = s
  BY <1>2, SMTT(30) DEF Swaps, Frees, Touches, Step, Waits
<1>6. ASSUME NEW k \in Grants
      PROVE  ZeroOverwritten(t, k)'
  <2>1. (Core(t) # <<Step("put", k)>>)'
    BY DEF Step, Waits
  <2>2. ASSUME NEW i \in Grants
        PROVE  (/\ Core(t) # <<Step("exchange", i), Step("put", k)>>
                /\ Core(t) # <<Step("take", k), Step("exchange", i), Step("put", k)>>)'
    BY Shorter, ZenonT(30) DEF Step
  <2> QED BY <1>5, <2>1, <2>2, SMTT(30) DEF ZeroOverwritten
<1> QED BY <1>2, <1>3, <1>4, <1>5, <1>6, ZenonT(30)

-----------------------------------------------------------------------------
(* The steps that move a count.                                            *)

\* What a call has left after it has taken the count of g.
AfterTake(q, g) ==
  \/ \E s \in Sources : q = <<Step("add", s)>>
  \/ q = <<Step("add", Issuer), Step("close", g)>>
  \/ q = <<Step("add", Issuer), Step("close", g), Step("free", g)>>
  \/ \E h \in Grants \ {g} : q = <<Step("exchange", h), Step("put", g)>>

\* A thread at a take is in one of the calls that take: spend, revoke,
\* the destructor, subsume or swap.
LEMMA TakeShape ==
  ASSUME CallsPlanned, NEW t \in Threads, At(t, "take")
  PROVE  \E g \in Grants, q \in Seq(StepType) :
           /\ Here(t) = g /\ got[t] = 0
           /\ Core(t) = todo[t] /\ todo[t] # << >> /\ Tail(todo[t]) = q
           /\ Head(todo[t]) = Step("take", g)
           /\ Left(t) = {Step("take", g)} \cup Range(q)
           /\ AfterTake(q, g)
<1>1. Core(t) = todo[t] /\ todo[t] # << >> /\ Head(todo[t]).do = "take"
  BY SMTT(30) DEF At, Core
<1>2. got[t] = 0 /\ \E g \in Grants :
        \/ \E s \in Sources : todo[t] = <<Step("take", g), Step("add", s)>>
        \/ todo[t] = <<Step("take", g), Step("add", Issuer), Step("close", g)>>
        \/ todo[t] = <<Step("take", g), Step("add", Issuer), Step("close", g), Step("free", g)>>
        \/ \E h \in Grants \ {g} :
             todo[t] = <<Step("take", g), Step("exchange", h), Step("put", g)>>
  BY <1>1, SMTT(30) DEF CallsPlanned, Planned, Loaded, Unloaded, Waits, Step
<1>3. PICK g \in Grants :
        \/ \E s \in Sources : todo[t] = <<Step("take", g), Step("add", s)>>
        \/ todo[t] = <<Step("take", g), Step("add", Issuer), Step("close", g)>>
        \/ todo[t] = <<Step("take", g), Step("add", Issuer), Step("close", g), Step("free", g)>>
        \/ \E h \in Grants \ {g} :
             todo[t] = <<Step("take", g), Step("exchange", h), Step("put", g)>>
  BY <1>2, ZenonT(30)
<1> DEFINE Fits == /\ Head(todo[t]) = Step("take", g)
                   /\ AfterTake(Tail(todo[t]), g)
                   /\ Left(t) = {Step("take", g)} \cup Range(Tail(todo[t]))
<1>4. Fits
  <2>1. ASSUME NEW s \in Sources, todo[t] = <<Step("take", g), Step("add", s)>>
        PROVE  Fits
    <3>1. Head(todo[t]) = Step("take", g) /\ Tail(todo[t]) = <<Step("add", s)>>
      BY <2>1, Tails, SMTT(30)
    <3> QED BY <1>1, <2>1, <3>1, Elements, SMTT(30) DEF AfterTake, Left
  <2>2. CASE todo[t] = <<Step("take", g), Step("add", Issuer), Step("close", g)>>
    <3>1. /\ Head(todo[t]) = Step("take", g)
          /\ Tail(todo[t]) = <<Step("add", Issuer), Step("close", g)>>
      BY <2>2, Tails, SMTT(30)
    <3> QED BY <1>1, <2>2, <3>1, Elements, SMTT(30) DEF AfterTake, Left
  <2>3. CASE todo[t] = <<Step("take", g), Step("add", Issuer), Step("close", g), Step("free", g)>>
    <3>1. /\ Head(todo[t]) = Step("take", g)
          /\ Tail(todo[t]) = <<Step("add", Issuer), Step("close", g), Step("free", g)>>
      BY <2>3, Tails, SMTT(30)
    <3> QED BY <1>1, <2>3, <3>1, Elements, SMTT(30) DEF AfterTake, Left
  <2>4. ASSUME NEW h \in Grants \ {g},
               todo[t] = <<Step("take", g), Step("exchange", h), Step("put", g)>>
        PROVE  Fits
    <3>1. /\ Head(todo[t]) = Step("take", g)
          /\ Tail(todo[t]) = <<Step("exchange", h), Step("put", g)>>
      BY <2>4, Tails, SMTT(30)
    <3> QED BY <1>1, <2>4, <3>1, Elements, SMTT(30) DEF AfterTake, Left
  <2> HIDE DEF Fits
  <2> QED BY <1>3, <2>1, <2>2, <2>3, <2>4, ZenonT(30)
<1>5. Here(t) = g
  BY <1>4, StepIs, SMTT(30) DEF Here, Steps, Sources
<1>6. Tail(todo[t]) \in Seq(StepType)
  <2>1. /\ Step("close", g) \in StepType /\ Step("free", g) \in StepType
        /\ Step("put", g) \in StepType
        /\ \A s \in Sources : Step("add", s) \in StepType
        /\ Step("add", Issuer) \in StepType
        /\ \A h \in Grants : Step("exchange", h) \in StepType
    BY StepIs DEF Steps, Sources
  <2> QED BY <1>4, <2>1, SeqsOf, ZenonT(30) DEF AfterTake
<1> QED BY <1>1, <1>2, <1>4, <1>5, <1>6, ZenonT(30)

\* What such a rest of a call contains, and what it does not.
LEMMA AfterTakeIs ==
  ASSUME NEW g \in Grants, NEW q, AfterTake(q, g)
  PROVE  /\ Loaded(q) /\ Head(q).do # "announce"
         /\ \A y \in Range(q) : y.do \notin Waits \cup {"return", "take"}
         /\ \A k \in Grants : Step("free", k) \in Range(q) => k = g
         /\ \A k : q # <<Step("put", k)>>
         /\ \A h, k : q = <<Step("exchange", h), Step("put", k)>> => k = g
         /\ \A h, k : q # <<Step("take", k), Step("exchange", h), Step("put", k)>>
<1> USE DEF Step
<1>1. Loaded(q) /\ Head(q).do # "announce"
  BY DEF AfterTake, Loaded
<1>2. \A y \in Range(q) : y.do \notin Waits \cup {"return", "take"}
  BY Elements, SMTT(30) DEF AfterTake, Waits
<1>3. \A k \in Grants : Step("free", k) \in Range(q) => k = g
  BY Elements DEF AfterTake
<1>4. \A k : q # <<Step("put", k)>>
  BY DEF AfterTake
<1>5. \A h, k : q = <<Step("exchange", h), Step("put", k)>> => k = g
  <2> SUFFICES ASSUME NEW h, NEW k, q = <<Step("exchange", h), Step("put", k)>>
               PROVE  k = g
    BY Zenon
  <2>1. Len(q) = 2 /\ q[1].do = "exchange" /\ q[2] = Step("put", k)
    BY Zenon
  <2>2. q[2] = Step("put", g)
    BY <2>1, Zenon DEF AfterTake
  <2> QED BY <2>1, <2>2, ZenonT(30)
<1>6. \A h, k : q # <<Step("take", k), Step("exchange", h), Step("put", k)>>
  BY DEF AfterTake
<1> QED BY <1>1, <1>2, <1>3, <1>4, <1>5, <1>6, Zenon

\* fetch_sub of a whole count, or exchange(0), keeps the invariant.
LEMMA TakeStep ==
  ASSUME GrantInv, NEW t \in Threads, Take(t)
  PROVE  GrantInv'
<1>1. TypeOK /\ Conservation /\ CallsPlanned /\ OverwritesNothing /\ At(t, "take")
  BY DEF GrantInv, Take
<1>2. PICK g \in Grants, q \in Seq(StepType) :
        /\ Here(t) = g /\ got[t] = 0
        /\ Core(t) = todo[t] /\ todo[t] # << >> /\ Tail(todo[t]) = q
        /\ Head(todo[t]) = Step("take", g)
        /\ Left(t) = {Step("take", g)} \cup Range(q)
        /\ AfterTake(q, g)
  BY <1>1, TakeShape, ZenonT(30)
<1>3. g \in Sources /\ 0 \in Counts /\ count[g].value \in Counts
  BY <1>1, GrantConstants, SMTT(30) DEF Sources, Counts, TypeOK, WatchOf
<1>4. Change(t, 0, count[g].value) /\ 0 + count[g].value = count[g].value + got[t]
  BY <1>2, <1>3, SMTT(30) DEF Take, Counts
<1>5. /\ Loaded(q) /\ Head(q).do # "announce"
      /\ \A y \in Range(q) : y.do \notin Waits \cup {"return", "take"}
      /\ \A k \in Grants : Step("free", k) \in Range(q) => k = g
      /\ \A k : q # <<Step("put", k)>>
      /\ \A h, k : q = <<Step("exchange", h), Step("put", k)>> => k = g
      /\ \A h, k : q # <<Step("take", k), Step("exchange", h), Step("put", k)>>
  BY <1>2, AfterTakeIs, SMTT(30)
<1>6. TypeOK' /\ Conservation' /\ Moves(t, g, q, 0, count[g].value)
  BY <1>1, <1>2, <1>3, <1>4, <1>5, ChangeStep, ZenonT(30)
<1>7. /\ Core(t)' = q /\ got'[t] = count[g].value /\ count'[g].value = 0
      /\ \A s \in Sources \ {g} : count'[s].value = count[s].value
      /\ UNCHANGED object
  BY <1>6, Zenon DEF Moves
<1>8. Left(t)' = Range(q)
  BY <1>7, ZenonT(30) DEF Left
<1>9. ZeroPlace(g)'
  BY <1>7, ZenonT(30) DEF ZeroPlace
<1>10. ASSUME NEW k \in Grants
      PROVE  ZeroOverwritten(t, k)'
  <2>1. (Frees(t, k) /\ Step("take", k) \notin Left(t) => count[k].value = 0)'
    BY <1>5, <1>7, <1>8, ZenonT(30) DEF Frees, Step
  <2>2. (Core(t) # <<Step("put", k)>>)'
    BY <1>5, <1>7, ZenonT(30) DEF Step
  <2>3. ASSUME NEW h \in Grants \ {k}
        PROVE  (/\ Core(t) = <<Step("exchange", h), Step("put", k)>> =>
                   /\ count[k].value = 0
                   /\ object[k] = "moved" => count[h].value = 0
                   /\ object[h] = "moved" => got[t] = 0
                /\ Core(t) # <<Step("take", k), Step("exchange", h), Step("put", k)>>)'
    <3>1. CASE q = <<Step("exchange", h), Step("put", k)>>
      <4>1. k = g
        BY <1>5, <3>1, ZenonT(30)
      <4>2. Core(t) = <<Step("take", k), Step("exchange", h), Step("put", k)>>
        <5>1. todo[t] \in Seq(StepType)
          BY <1>1, ZenonT(30) DEF TypeOK, StepType
        <5> QED BY <1>2, <3>1, <4>1, <5>1, Rebuilt, SMTT(30)
      <4>3. /\ object[k] = "moved" => count[h].value = 0
            /\ object[h] = "moved" => count[k].value = 0
        BY <1>1, <4>2, SMTT(30) DEF OverwritesNothing, ZeroOverwritten
      <4> QED BY <1>5, <1>7, <3>1, <4>1, <4>3, ZenonT(30) DEF Step, Sources
    <3>2. CASE q # <<Step("exchange", h), Step("put", k)>>
      BY <1>5, <1>7, <3>2, ZenonT(30) DEF Step
    <3> QED BY <3>1, <3>2, ZenonT(30)
  <2> QED BY <2>1, <2>2, <2>3, ZenonT(30) DEF ZeroOverwritten
<1>11. Planned(t)'
  BY <1>5, <1>7 DEF Planned, Loaded, Step
<1> DEFINE x == Step("take", g)
<1>12. x.at = g /\ x.do = "take"
  BY ZenonT(30) DEF Step
<1>13. Drops(t, x, g)
  <2> HIDE DEF x
  <2> QED BY <1>2, <1>5, <1>8, <1>12, ZenonT(30) DEF Drops, x
<1> HIDE DEF x
<1> QED BY <1>3, <1>6, <1>9, <1>10, <1>11, <1>13, ChangeKeeps, ZenonT(30)

\* The second step of a swap: what it leaves in the other grant.
LEMMA ExchangeStep ==
  ASSUME GrantInv, NEW t \in Threads, Exchange(t)
  PROVE  GrantInv'
<1>1. TypeOK /\ Conservation /\ CallsPlanned /\ CallsExclude /\ OverwritesNothing
  BY Zenon DEF GrantInv
<1>2. Core(t) = todo[t] /\ todo[t] # << >> /\ Head(todo[t]).do = "exchange"
  BY ZenonT(30) DEF Exchange, At, Core
<1>3. PICK h \in Grants, g \in Grants :
        g # h /\ todo[t] = <<Step("exchange", h), Step("put", g)>>
  BY <1>1, <1>2, SMTT(30) DEF CallsPlanned, Planned, Loaded, Unloaded, Waits, Step
<1> DEFINE q == <<Step("put", g)>>
           x == Step("exchange", h)
           y == Step("put", g)
<1>4. /\ x.do = "exchange" /\ x.at = h /\ x \in StepType
      /\ y.do = "put" /\ y.at = g /\ y \in StepType
  BY ZenonT(30) DEF Step, StepType, Steps, Sources
<1>5. Head(todo[t]) = x /\ Tail(todo[t]) = q /\ Left(t) = {x, y}
  BY <1>2, <1>3, Tails, Elements, SMTT(30) DEF Left
<1>6. q \in Seq(StepType) /\ Head(q).do = "put" /\ Range(q) = {y}
  BY <1>4, SeqsOf, Tails, Elements, ZenonT(30)
<1>7. /\ count[g].value = 0
      /\ object[g] = "moved" => count[h].value = 0
      /\ object[h] = "moved" => got[t] = 0
  BY <1>1, <1>2, <1>3, ZenonT(30) DEF OverwritesNothing, ZeroOverwritten
<1>8. object[h] \notin {"none", "reserved"}
  BY <1>1, <1>4, <1>5, ZenonT(30) DEF CallsExclude, Permitted, Touches
<1>9. Here(t) = h /\ h \in Sources /\ count[h].value \in Counts /\ got[t] \in Counts
  BY <1>1, <1>4, <1>5, ZenonT(30) DEF Here, Sources, TypeOK, WatchOf
<1>10. Change(t, got[t], count[h].value) /\ got[t] + count[h].value = count[h].value + got[t]
  BY <1>9, SMTT(30) DEF Exchange, Counts
<1> HIDE DEF q
<1>11. TypeOK' /\ Conservation' /\ Moves(t, h, q, got[t], count[h].value)
  BY <1>1, <1>2, <1>5, <1>6, <1>9, <1>10, ChangeStep, ZenonT(30)
<1>12. /\ Core(t)' = q /\ got'[t] = count[h].value /\ count'[h].value = got[t]
       /\ \A s \in Sources \ {h} : count'[s].value = count[s].value
       /\ UNCHANGED object
  BY <1>11 DEF Moves
<1>13. Left(t)' = {y}
  BY <1>6, <1>12, ZenonT(30) DEF Left
<1>14. ZeroPlace(h)'
  BY <1>7, <1>8, <1>12, SMTT(30) DEF ZeroPlace
<1>15. Planned(t)'
  BY <1>12, ZenonT(30) DEF Planned, Loaded, q, Step
<1>16. ASSUME NEW k \in Grants
       PROVE  ZeroOverwritten(t, k)'
  <2>1. ~Frees(t, k)'
    BY <1>13, ZenonT(30) DEF Frees, Step
  <2>2. (Core(t) = <<Step("put", k)>>)' => k = g
    BY <1>12, SMTT(30) DEF Step, q
  <2>3. ASSUME NEW i \in Grants
        PROVE  (/\ Core(t) # <<Step("exchange", i), Step("put", k)>>
                /\ Core(t) # <<Step("take", k), Step("exchange", i), Step("put", k)>>)'
    BY <1>12, SMTT(30) DEF Step, q
  <2>4. count'[g].value = 0
    BY <1>3, <1>7, <1>12, ZenonT(30) DEF Sources
  <2> QED BY <1>7, <1>12, <2>1, <2>2, <2>3, <2>4, ZenonT(30) DEF ZeroOverwritten
<1> HIDE DEF x, y
<1>17. Drops(t, x, h)
  BY <1>4, <1>5, <1>13, ZenonT(30) DEF Drops, Waits
<1> QED BY <1>9, <1>11, <1>14, <1>15, <1>16, <1>17, ChangeKeeps, ZenonT(30)

\* The last step of a swap.
LEMMA PutStep ==
  ASSUME GrantInv, NEW t \in Threads, Put(t)
  PROVE  GrantInv'
<1>1. TypeOK /\ Conservation /\ CallsPlanned /\ CallsExclude /\ OverwritesNothing
  BY Zenon DEF GrantInv
<1>2. Core(t) = todo[t] /\ todo[t] # << >> /\ Head(todo[t]).do = "put"
  BY ZenonT(30) DEF Put, At, Core
<1>3. PICK g \in Grants : todo[t] = <<Step("put", g)>>
  BY <1>1, <1>2, SMTT(30) DEF CallsPlanned, Planned, Loaded, Unloaded, Waits, Step
<1> DEFINE x == Step("put", g)
<1>4. x.do = "put" /\ x.at = g
  BY ZenonT(30) DEF Step
<1>5. Head(todo[t]) = x /\ Tail(todo[t]) = << >> /\ Left(t) = {x}
  BY <1>2, <1>3, Tails, Elements, ZenonT(30) DEF Left
<1>6. count[g].value = 0 /\ (object[g] = "moved" => got[t] = 0)
  BY <1>1, <1>2, <1>3, ZenonT(30) DEF OverwritesNothing, ZeroOverwritten
<1>7. object[g] \notin {"none", "reserved"}
  BY <1>1, <1>4, <1>5, ZenonT(30) DEF CallsExclude, Permitted, Touches
<1>8. Here(t) = g /\ g \in Sources /\ 0 \in Counts /\ got[t] \in Counts
  BY <1>1, <1>4, <1>5, GrantConstants, SMTT(30) DEF Here, Sources, TypeOK, Counts
<1>9. Change(t, got[t], 0) /\ got[t] + 0 = count[g].value + got[t]
  BY <1>6, <1>8 DEF Put, Counts
<1>10. << >> \in Seq(StepType)
  BY SeqsOf, Zenon
<1>11. TypeOK' /\ Conservation' /\ Moves(t, g, << >>, got[t], 0)
  BY <1>1, <1>2, <1>5, <1>8, <1>9, <1>10, ChangeStep, ZenonT(30)
<1>12. Core(t)' = << >> /\ got'[t] = 0 /\ count'[g].value = got[t] /\ UNCHANGED object
  BY <1>11 DEF Moves
<1>13. Left(t)' = {}
  BY <1>12, Elements, ZenonT(30) DEF Left
<1>14. ZeroPlace(g)'
  BY <1>6, <1>7, <1>12, SMTT(30) DEF ZeroPlace
<1>15. Planned(t)'
  BY <1>12, ZenonT(30) DEF Planned, Unloaded, Step
<1>16. \A k \in Grants : ZeroOverwritten(t, k)'
  BY <1>12, <1>13, SMTT(30) DEF ZeroOverwritten, Frees
<1> HIDE DEF x
<1>17. Drops(t, x, g)
  BY <1>4, <1>5, <1>13, ZenonT(30) DEF Drops
<1> QED BY <1>8, <1>11, <1>14, <1>15, <1>16, <1>17, ChangeKeeps, ZenonT(30)

\* What a call has left after it has put its count into s.
AfterAdd(q, s) ==
  \/ q = << >>
  \/ s = Issuer /\ \E g \in Grants :
       q = <<Step("close", g)>> \/ q = <<Step("close", g), Step("free", g)>>

\* A thread at an add has at most the close and the free of a grant left.
LEMMA AddShape ==
  ASSUME CallsPlanned, NEW t \in Threads, At(t, "add")
  PROVE  \E s \in Sources, q \in Seq(StepType) :
           /\ Head(todo[t]) = Step("add", s)
           /\ Core(t) = todo[t] /\ todo[t] # << >> /\ Tail(todo[t]) = q
           /\ Left(t) = {Step("add", s)} \cup Range(q)
           /\ AfterAdd(q, s)
<1>1. Core(t) = todo[t] /\ todo[t] # << >> /\ Head(todo[t]).do = "add"
  BY ZenonT(30) DEF At, Core
<1>2. \/ \E s \in Sources : todo[t] = <<Step("add", s)>>
      \/ \E g \in Grants : todo[t] = <<Step("add", Issuer), Step("close", g)>>
      \/ \E g \in Grants :
           todo[t] = <<Step("add", Issuer), Step("close", g), Step("free", g)>>
  BY <1>1, SMTT(30) DEF CallsPlanned, Planned, Loaded, Unloaded, Waits, Step
<1> DEFINE Fits(s, q) == /\ Head(todo[t]) = Step("add", s) /\ Tail(todo[t]) = q
                         /\ q \in Seq(StepType) /\ s \in Sources
                         /\ Left(t) = {Step("add", s)} \cup Range(q)
                         /\ AfterAdd(q, s)
<1>3. \A g \in Grants : Step("close", g) \in StepType /\ Step("free", g) \in StepType
  BY StepIs, ZenonT(30) DEF Steps, Sources
<1>4. ASSUME NEW s \in Sources, todo[t] = <<Step("add", s)>>
      PROVE  Fits(s, << >>)
  <2>1. Head(todo[t]) = Step("add", s) /\ Tail(todo[t]) = << >>
    BY <1>4, Tails, ZenonT(30)
  <2> QED BY <1>1, <1>4, <2>1, Elements, SeqsOf, ZenonT(30) DEF AfterAdd, Left
<1>5. ASSUME NEW g \in Grants, todo[t] = <<Step("add", Issuer), Step("close", g)>>
      PROVE  Fits(Issuer, <<Step("close", g)>>)
  <2>1. Head(todo[t]) = Step("add", Issuer) /\ Tail(todo[t]) = <<Step("close", g)>>
    BY <1>5, Tails
  <2>2. <<Step("close", g)>> \in Seq(StepType)
    BY <1>3, SeqsOf, ZenonT(30)
  <2> QED BY <1>1, <1>5, <2>1, <2>2, Elements, SMTT(30) DEF AfterAdd, Left, Sources
<1>6. ASSUME NEW g \in Grants,
             todo[t] = <<Step("add", Issuer), Step("close", g), Step("free", g)>>
      PROVE  Fits(Issuer, <<Step("close", g), Step("free", g)>>)
  <2>1. /\ Head(todo[t]) = Step("add", Issuer)
        /\ Tail(todo[t]) = <<Step("close", g), Step("free", g)>>
    BY <1>6, Tails, SMTT(30)
  <2>2. <<Step("close", g), Step("free", g)>> \in Seq(StepType)
    BY <1>3, SeqsOf, ZenonT(30)
  <2> QED BY <1>1, <1>6, <2>1, <2>2, Elements, SMTT(30) DEF AfterAdd, Left, Sources
<1>7. \E s, q : Fits(s, q)
  <2> HIDE DEF Fits
  <2> QED BY <1>2, <1>4, <1>5, <1>6, ZenonT(30)
<1> QED BY <1>1, <1>7, SMTT(30)

\* What such a rest of a call contains, and what it does not.
LEMMA AfterAddIs ==
  ASSUME NEW s \in Sources, NEW q, AfterAdd(q, s)
  PROVE  /\ Unloaded(q) /\ (q # << >> => Head(q).do # "announce")
         /\ \A y \in Range(q) : y.do \notin Waits \cup {"return", "take", "add"}
         /\ \A k \in Grants : Step("free", k) \in Range(q) => s = Issuer
         /\ \A k : q # <<Step("put", k)>>
         /\ \A h, k : q # <<Step("exchange", h), Step("put", k)>>
         /\ \A h, k : q # <<Step("take", k), Step("exchange", h), Step("put", k)>>
<1> USE DEF Step
<1>1. Unloaded(q)
  BY Zenon DEF AfterAdd, Unloaded, Sources
<1>2. q # << >> => Head(q).do # "announce"
  BY DEF AfterAdd
<1>3. \A y \in Range(q) : y.do \notin Waits \cup {"return", "take", "add"}
  BY Elements DEF AfterAdd, Waits
<1>4. \A k \in Grants : Step("free", k) \in Range(q) => s = Issuer
  BY Elements, ZenonT(30) DEF AfterAdd
<1>5. \A k : q # <<Step("put", k)>>
  BY DEF AfterAdd
<1>6. \A h, k : q # <<Step("exchange", h), Step("put", k)>>
  BY DEF AfterAdd
<1>7. \A h, k : q # <<Step("take", k), Step("exchange", h), Step("put", k)>>
  BY SMTT(30) DEF AfterAdd
<1> QED BY <1>1, <1>2, <1>3, <1>4, <1>5, <1>6, <1>7, SMTT(30)

\* fetch_add of what the call has in hand keeps the invariant.
LEMMA AddStep ==
  ASSUME GrantInv, NEW t \in Threads, Add(t)
  PROVE  GrantInv'
<1>1. /\ TypeOK /\ Conservation /\ CallsPlanned /\ CallsExclude /\ OverwritesNothing
      /\ At(t, "add")
  BY SMTT(30) DEF GrantInv, Add
<1>2. PICK s \in Sources, q \in Seq(StepType) :
        /\ Head(todo[t]) = Step("add", s)
        /\ Core(t) = todo[t] /\ todo[t] # << >> /\ Tail(todo[t]) = q
        /\ Left(t) = {Step("add", s)} \cup Range(q)
        /\ AfterAdd(q, s)
  BY <1>1, AddShape, SMTT(30)
<1> DEFINE x == Step("add", s)
<1>3. x.do = "add" /\ x.at = s
  BY SMTT(30) DEF Step
<1>4. Here(t) = s /\ 0 \in Counts /\ count[s].value + got[t] \in Counts
  BY <1>1, <1>2, <1>3, Bounded, GrantConstants, SMTT(30) DEF Here, Counts
<1>5. /\ Change(t, count[s].value + got[t], 0)
      /\ (count[s].value + got[t]) + 0 = count[s].value + got[t]
  BY <1>4, SMTT(30) DEF Add, Counts
<1>6. /\ Unloaded(q) /\ (q # << >> => Head(q).do # "announce")
      /\ \A y \in Range(q) : y.do \notin Waits \cup {"return", "take", "add"}
      /\ \A k \in Grants : Step("free", k) \in Range(q) => s = Issuer
      /\ \A k : q # <<Step("put", k)>>
      /\ \A h, k : q # <<Step("exchange", h), Step("put", k)>>
      /\ \A h, k : q # <<Step("take", k), Step("exchange", h), Step("put", k)>>
  BY <1>2, AfterAddIs, ZenonT(30)
<1>7. TypeOK' /\ Conservation' /\ Moves(t, s, q, count[s].value + got[t], 0)
  BY <1>1, <1>2, <1>4, <1>5, <1>6, ChangeStep, ZenonT(30)
<1>8. /\ Core(t)' = q /\ got'[t] = 0 /\ UNCHANGED object
      /\ \A r \in Sources \ {s} : count'[r].value = count[r].value
  BY <1>7 DEF Moves
<1>9. Left(t)' = Range(q)
  BY <1>8, ZenonT(30) DEF Left
<1>10. s \in Grants => ZeroPlace(s)'
  <2>1. s \in Grants => object[s] = "live"
    BY <1>1, <1>2, ZenonT(30) DEF CallsExclude, Permitted
  <2> QED BY <1>8, <2>1, ZenonT(30) DEF ZeroPlace
<1>11. ASSUME NEW k \in Grants
       PROVE  ZeroOverwritten(t, k)'
  <2>1. ASSUME Step("free", k) \in Range(q)
        PROVE  count'[k].value = 0
    <3>1. s # k /\ Frees(t, k)
      BY <1>2, <1>6, <2>1, GrantConstants, ZenonT(30) DEF Frees
    <3>2. Step("take", k).do = "take"
      BY ZenonT(30) DEF Step
    <3>3. Step("take", k) \notin Left(t)
      BY <1>2, <1>3, <1>6, <3>2, ZenonT(30)
    <3> QED BY <1>1, <1>8, <3>1, <3>3, ZenonT(30) DEF OverwritesNothing, ZeroOverwritten, Sources
  <2>2. (Frees(t, k) => count[k].value = 0)'
    BY <1>9, <2>1, ZenonT(30) DEF Frees, Step
  <2>3. (Core(t) # <<Step("put", k)>>)'
    BY <1>6, <1>8, ZenonT(30) DEF Step
  <2>4. ASSUME NEW h \in Grants
        PROVE  (/\ Core(t) # <<Step("exchange", h), Step("put", k)>>
                /\ Core(t) # <<Step("take", k), Step("exchange", h), Step("put", k)>>)'
    BY <1>6, <1>8, ZenonT(30) DEF Step
  <2> QED BY <2>2, <2>3, <2>4, ZenonT(30) DEF ZeroOverwritten
<1>12. Planned(t)'
  BY <1>6, <1>8, ZenonT(30) DEF Planned, Unloaded, Step
<1> HIDE DEF x
<1>13. Drops(t, x, s)
  BY <1>2, <1>3, <1>6, <1>9, SMTT(30) DEF Drops, x
<1> QED BY <1>7, <1>10, <1>11, <1>12, <1>13, ChangeKeeps, ZenonT(30)
=============================================================================
