----------------------------- MODULE WatchFacts -----------------------------
(***************************************************************************)
(* What the proofs about the users of a watch share: sums over threads or  *)
(* other finite sets, and what the operators of Watches do to a watch.     *)
(***************************************************************************)
EXTENDS Integers, FiniteSetTheorems, Watches, TLAPS

\* The sum of the values of f, as the number of pairs of an argument and one
\* of its units: a form whose laws follow from those of Cardinality.
Units(f) == UNION {{u} \X (1..f[u]) : u \in DOMAIN f}
Total(f) == Cardinality(Units(f))

-----------------------------------------------------------------------------
\* A pair is a unit of f if its second component is within the value of f.
LEMMA UnitsAre ==
  ASSUME NEW S, NEW f \in [S -> Nat]
  PROVE  \A p : p \in Units(f) <=> \E u \in S : \E i \in 1..f[u] : p = <<u, i>>
BY DEF Units

\* The units of one argument are as many as the value of f there.
LEMMA UnitsOfOne ==
  ASSUME NEW u, NEW n \in Nat
  PROVE  /\ IsFiniteSet({u} \X (1..n))
         /\ Cardinality({u} \X (1..n)) = n
<1> DEFINE A == {u}
           B == 1..n
<1>1. IsFiniteSet(A) /\ Cardinality(A) = 1
  BY FS_Singleton, Zenon
<1>2. IsFiniteSet(B) /\ Cardinality(B) = n
  BY FS_Interval
<1> HIDE DEF A, B
<1>3. IsFiniteSet(A \X B) /\ Cardinality(A \X B) = Cardinality(A) * Cardinality(B)
  BY <1>1, <1>2, FS_Product, Zenon
<1>4. IsFiniteSet(A \X B) /\ Cardinality(A \X B) = n
  BY <1>1, <1>2, <1>3
<1> QED BY <1>4, Zenon DEF A, B

\* A sum over a finite set is a natural number.
LEMMA TotalType ==
  ASSUME NEW S, IsFiniteSet(S), NEW f \in [S -> Nat]
  PROVE  IsFiniteSet(Units(f)) /\ Total(f) \in Nat
<1> DEFINE T == {{u} \X (1..f[u]) : u \in S}
           g == [u \in S |-> {u} \X (1..f[u])]
<1>1. g \in Surjection(S, T)
  BY Zenon DEF Surjection
<1>2. IsFiniteSet(T)
  BY <1>1, FS_Surjection, Zenon
<1>3. \A U \in T : IsFiniteSet(U)
  <2> SUFFICES ASSUME NEW u \in S PROVE IsFiniteSet({u} \X (1..f[u]))
    BY Zenon
  <2> QED BY UnitsOfOne, Zenon
<1>4. IsFiniteSet(UNION T)
  BY <1>2, <1>3, FS_UNION, Zenon
<1> QED BY <1>4, FS_CardinalityType, Zenon DEF Units, Total

\* A sum of zeros is zero.
LEMMA TotalZero ==
  ASSUME NEW S, NEW f \in [S -> Nat], \A u \in S : f[u] = 0
  PROVE  Total(f) = 0
<1>1. Units(f) = {}
  BY UnitsAre
<1> QED BY <1>1, FS_EmptySet, Zenon DEF Total

\* Disjoint sets are counted separately.
LEMMA DisjointCount ==
  ASSUME NEW A, NEW B, IsFiniteSet(A), IsFiniteSet(B), A \cap B = {}
  PROVE  /\ IsFiniteSet(A \cup B)
         /\ Cardinality(A \cup B) = Cardinality(A) + Cardinality(B)
<1>1. Cardinality(A) \in Nat /\ Cardinality(B) \in Nat
  BY FS_CardinalityType, Zenon
<1>2. Cardinality(A \cap B) = 0
  BY FS_EmptySet, Zenon
<1>3. /\ IsFiniteSet(A \cup B)
      /\ Cardinality(A \cup B) = Cardinality(A) + Cardinality(B) - Cardinality(A \cap B)
  BY FS_Union, Zenon
<1> QED BY <1>1, <1>2, <1>3

\* When f and g differ at one place at most, their sums differ by as much.
LEMMA TotalStep ==
  ASSUME NEW S, IsFiniteSet(S), NEW f \in [S -> Nat], NEW g \in [S -> Nat],
         NEW t \in S, \A u \in S \ {t} : g[u] = f[u]
  PROVE  Total(g) = Total(f) - f[t] + g[t]
<1> DEFINE R == {p \in Units(f) : p[1] # t}
           F == {t} \X (1..f[t])
           G == {t} \X (1..g[t])
<1>1. Units(f) = R \cup F /\ Units(g) = R \cup G
  BY UnitsAre
<1>2. R \cap F = {} /\ R \cap G = {}
  BY Zenon
<1>3. IsFiniteSet(R) /\ Cardinality(R) \in Nat
  BY TotalType, FS_Subset, FS_CardinalityType, Zenon
<1>4. /\ IsFiniteSet(F) /\ Cardinality(F) = f[t]
      /\ IsFiniteSet(G) /\ Cardinality(G) = g[t]
  BY UnitsOfOne, Zenon
<1> HIDE DEF R, F, G
<1>5. Cardinality(R \cup F) = Cardinality(R) + f[t]
  BY <1>2, <1>3, <1>4, DisjointCount, Zenon
<1>6. Cardinality(R \cup G) = Cardinality(R) + g[t]
  BY <1>2, <1>3, <1>4, DisjointCount, Zenon
<1> QED BY <1>1, <1>3, <1>5, <1>6 DEF Total

\* No value exceeds the sum.
LEMMA TotalBound ==
  ASSUME NEW S, IsFiniteSet(S), NEW f \in [S -> Nat], NEW t \in S
  PROVE  f[t] <= Total(f)
<1> DEFINE g == [f EXCEPT ![t] = 0]
<1>1. g \in [S -> Nat] /\ g[t] = 0 /\ \A u \in S \ {t} : g[u] = f[u]
  BY Zenon
<1> HIDE DEF g
<1>2. Total(g) = Total(f) - f[t] + g[t]
  BY <1>1, TotalStep
<1>3. Total(g) \in Nat /\ Total(f) \in Nat
  BY <1>1, TotalType, Zenon
<1> QED BY <1>1, <1>2, <1>3

-----------------------------------------------------------------------------
(* The operators of Watches keep a watch a watch.                          *)

\* A change leaves the waiters, and what they have been told, alone.
LEMMA ChangedWatch ==
  ASSUME NEW Values, NEW Codes, NEW w \in WatchOf(Values, Codes),
         NEW t \in Threads, NEW v \in Values
  PROVE  /\ Changed(w, t, v) \in WatchOf(Values, Codes)
         /\ Changed(w, t, v).value = v
         /\ Changed(w, t, v).final = w.final
         /\ Changed(w, t, v).waiting = w.waiting
         /\ Changed(w, t, v).outcome = w.outcome
         /\ Changed(w, t, v).notice[t] = IF v # w.value THEN v ELSE None
         /\ \A u \in Threads \ {t} : Changed(w, t, v).notice[u] = w.notice[u]
BY Zenon DEF WatchOf, Changed

\* Waking everybody empties the list of waiters and tells them all the same.
LEMMA WokenWatch ==
  ASSUME NEW Values, NEW Codes, NEW w \in WatchOf(Values, Codes),
         NEW r \in Values \cup Codes \cup {None}
  PROVE  /\ WokenAll(w, r) \in WatchOf(Values, Codes)
         /\ WokenAll(w, r).value = w.value
         /\ WokenAll(w, r).final = w.final
         /\ WokenAll(w, r).notice = w.notice
         /\ \A u \in Threads :
              /\ WokenAll(w, r).waiting[u] = None
              /\ WokenAll(w, r).outcome[u] = IF w.waiting[u] # None THEN r ELSE w.outcome[u]
BY Zenon DEF WatchOf, WokenAll

\* An announcement is over with the notice, and wakes with what it said.
LEMMA NotifiedWatch ==
  ASSUME NEW Values, NEW Codes, NEW w \in WatchOf(Values, Codes),
         NEW t \in Threads
  PROVE  /\ Notified(w, t) \in WatchOf(Values, Codes)
         /\ Notified(w, t).value = w.value
         /\ Notified(w, t).final = w.final
         /\ Notified(w, t).notice[t] = None
         /\ \A u \in Threads \ {t} : Notified(w, t).notice[u] = w.notice[u]
         /\ \A u \in Threads :
              /\ Notified(w, t).waiting[u] = None
              /\ Notified(w, t).outcome[u] = IF w.waiting[u] # None THEN w.notice[t] ELSE w.outcome[u]
<1>1. w.notice[t] \in Values \cup Codes \cup {None}
  BY Zenon DEF WatchOf
<1> DEFINE x == WokenAll(w, w.notice[t])
<1>2. /\ x \in WatchOf(Values, Codes)
      /\ x.value = w.value /\ x.final = w.final /\ x.notice = w.notice
      /\ \A u \in Threads :
           /\ x.waiting[u] = None
           /\ x.outcome[u] = IF w.waiting[u] # None THEN w.notice[t] ELSE w.outcome[u]
  BY <1>1, WokenWatch
<1>3. Notified(w, t) = [x EXCEPT !.notice[t] = None]
  BY Zenon DEF Notified
<1> HIDE DEF x
<1> QED BY <1>2, <1>3 DEF WatchOf

\* Closing leaves the value and the announcements under way alone; the first
\* close wakes everybody, a later one does nothing.
LEMMA ClosedWatch ==
  ASSUME NEW Values, NEW Codes, NEW w \in WatchOf(Values, Codes),
         NEW c \in Codes
  PROVE  /\ Closed(w, c) \in WatchOf(Values, Codes)
         /\ Closed(w, c).value = w.value
         /\ Closed(w, c).final = IF w.final = None THEN c ELSE w.final
         /\ Closed(w, c).notice = w.notice
         /\ \A u \in Threads :
              Closed(w, c).outcome[u] = IF w.final = None /\ w.waiting[u] # None
                                        THEN c ELSE w.outcome[u]
<1> DEFINE x == WokenAll(w, c)
<1>1. /\ x \in WatchOf(Values, Codes)
      /\ x.value = w.value /\ x.notice = w.notice
      /\ \A u \in Threads :
           x.outcome[u] = IF w.waiting[u] # None THEN c ELSE w.outcome[u]
  BY WokenWatch
<1>2. Closed(w, c) = IF w.final = None THEN [x EXCEPT !.final = c] ELSE w
  BY Zenon DEF Closed
<1> HIDE DEF x
<1> QED BY <1>1, <1>2 DEF WatchOf

\* Registering a handler tells nobody anything.
LEMMA RegisteredWatch ==
  ASSUME NEW Values, NEW Codes, NEW w \in WatchOf(Values, Codes),
         NEW t \in Threads
  PROVE  /\ Registered(w, t) \in WatchOf(Values, Codes)
         /\ Registered(w, t).value = w.value
         /\ Registered(w, t).final = w.final
         /\ Registered(w, t).notice = w.notice
         /\ Registered(w, t).outcome = w.outcome
         /\ Registered(w, t).waiting[t] = w.value
         /\ \A u \in Threads \ {t} : Registered(w, t).waiting[u] = w.waiting[u]
BY Zenon DEF WatchOf, Registered

\* A handler that has been called is forgotten.
LEMMA HandledWatch ==
  ASSUME NEW Values, NEW Codes, NEW w \in WatchOf(Values, Codes),
         NEW t \in Threads
  PROVE  /\ Handled(w, t) \in WatchOf(Values, Codes)
         /\ Handled(w, t).value = w.value
         /\ Handled(w, t).final = w.final
         /\ Handled(w, t).waiting = w.waiting
         /\ Handled(w, t).notice = w.notice
         /\ Handled(w, t).outcome[t] = None
         /\ \A u \in Threads \ {t} : Handled(w, t).outcome[u] = w.outcome[u]
BY Zenon DEF WatchOf, Handled

\* A new watch has no waiters and nothing to announce.
LEMMA NewWatchType ==
  ASSUME NEW Values, NEW Codes, NEW v \in Values
  PROVE  /\ NewWatch(v) \in WatchOf(Values, Codes)
         /\ NewWatch(v).value = v
         /\ NewWatch(v).final = None
BY Zenon DEF WatchOf, NewWatch
=============================================================================
