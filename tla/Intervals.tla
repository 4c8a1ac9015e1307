------------------------------ MODULE Intervals ------------------------------
(***************************************************************************)
(* BasicInterval and its traits (interval.hpp, interval_traits.hpp): the   *)
(* half-open Interval and the closed CInterval of integers.  A list of     *)
(* intervals stands for a set of points, from which ranges are taken away. *)
(***************************************************************************)
EXTENDS Integers, Sequences, FiniteSets, SequencesExt

CONSTANTS
  MaxPoint,          \* bounds run from 0 to this
  WordMax,           \* the largest value of the integer type
  MaxRemovals        \* bound on the ranges taken away

VARIABLES
  pieces,            \* the list of Intervals
  points,            \* the set it stands for
  last,              \* the range taken away last
  removals

intervalVars == <<pieces, points, last, removals>>

-----------------------------------------------------------------------------
HalfOpen(lo, up) == [lo |-> lo, up |-> up, closed |-> FALSE]
Closed(lo, up) == [lo |-> lo, up |-> up, closed |-> TRUE]

minimum(l, r) == IF r < l THEN r ELSE l
maximum(l, r) == IF l < r THEN r ELSE l

least_upper_bound(n) == (n + 1) % (WordMax + 1)

size_open(lo, up) == up - lo
size_closed(lo, up) == up - lo + 1
empty_open(lo, up) == ~(lo < up)
empty_closed(lo, up) == up < lo
upper_open(x, up) == x < up
upper_closed(x, up) == ~(up < x)

size(i) == IF i.closed THEN size_closed(i.lo, i.up) ELSE size_open(i.lo, i.up)
empty(i) == IF i.closed THEN empty_closed(i.lo, i.up) ELSE empty_open(i.lo, i.up)
lower_includes_x(lo, x) == ~(x < lo)
x_included_by_upper(i, x) == IF i.closed THEN upper_closed(x, i.up) ELSE upper_open(x, i.up)
adjacent_open(i, j) == ~(i.up < j.lo) /\ ~(j.up < i.lo)
adjacent_closed(i, j) ==
  lower_includes_x(i.lo, least_upper_bound(j.up)) /\ upper_closed(j.lo, least_upper_bound(i.up))

contains(i, x) == lower_includes_x(i.lo, x) /\ x_included_by_upper(i, x)
adjacent_to(i, j) == IF i.closed THEN adjacent_closed(i, j) ELSE adjacent_open(i, j)
union_with(i, j) == [i EXCEPT !.lo = minimum(i.lo, j.lo), !.up = maximum(i.up, j.up)]
overlaps(i, j) == ~empty([i EXCEPT !.lo = j.lo]) /\ ~empty([j EXCEPT !.lo = i.lo])
intersection_with(i, j) ==
  LET k == [i EXCEPT !.lo = maximum(i.lo, j.lo), !.up = minimum(i.up, j.up)] IN
  IF empty(k) THEN [i EXCEPT !.up = i.lo] ELSE k
\* Mutant: the part after the range is forgotten.
without_FrontOnly(i, j) == IF overlaps(i, j) THEN <<[i EXCEPT !.up = minimum(i.up, j.lo)]>> ELSE <<i>>
without(i, j) ==
  LET first == [i EXCEPT !.up = minimum(i.up, j.lo)]
      second == [i EXCEPT !.lo = maximum(i.lo, j.up)] IN
  IF empty(i) THEN <<>>
  ELSE IF adjacent_to(first, second) THEN <<i>>
  ELSE (IF empty(first) THEN <<>> ELSE <<first>>) \o (IF empty(second) THEN <<>> ELSE <<second>>)
shift_up(i, d) == [i EXCEPT !.lo = @ + d, !.up = @ + d]
shift_down(i, d) == [i EXCEPT !.lo = @ - d, !.up = @ - d]
push_back(i, d) == [i EXCEPT !.up = @ + d]
push_front(i, d) == [i EXCEPT !.lo = @ - d]
pop_back(i, d) == [i EXCEPT !.up = @ - d]
pop_front(i, d) == [i EXCEPT !.lo = @ + d]
LexicographicalOrder(i, j) == i.lo < j.lo \/ (i.lo = j.lo /\ i.up < j.up)
LinearOrder(i, j) == empty([i EXCEPT !.lo = j.lo])
BelowPoint(i, x) == ~x_included_by_upper(i, x)
AbovePoint(x, i) == ~lower_includes_x(i.lo, x)

-----------------------------------------------------------------------------
AllIntervals == {HalfOpen(lo, up) : lo, up \in 0 .. MaxPoint}

Without(list, j) == FlattenSeq([n \in DOMAIN list |-> without(list[n], j)])

\* A range is taken away; its bounds are in order.
TakeAway(j) ==
  /\ removals < MaxRemovals /\ j.lo <= j.up
  /\ pieces' = Without(pieces, j)
  /\ points' = {x \in points : ~contains(j, x)}
  /\ last' = j /\ removals' = removals + 1
\* A piece loses a point at one end, or grows by one that is in no other.
Resize(n, piece, set) ==
  /\ pieces' = IF empty(piece) THEN RemoveAt(pieces, n) ELSE [pieces EXCEPT ![n] = piece]
  /\ points' = set
  /\ UNCHANGED <<last, removals>>
PopFront(n) == Resize(n, pop_front(pieces[n], 1), points \ {pieces[n].lo})
PopBack(n) == Resize(n, pop_back(pieces[n], 1), points \ {pieces[n].up - 1})
PushBack(n) ==
  /\ pieces[n].up < MaxPoint /\ pieces[n].up \notin points
  /\ Resize(n, push_back(pieces[n], 1), points \cup {pieces[n].up})
PushFront(n) ==
  /\ pieces[n].lo > 0 /\ pieces[n].lo - 1 \notin points
  /\ Resize(n, push_front(pieces[n], 1), points \cup {pieces[n].lo - 1})

IntervalsInit ==
  /\ pieces = <<HalfOpen(0, MaxPoint)>>
  /\ points = 0 .. MaxPoint - 1
  /\ last \in AllIntervals
  /\ removals = 0
IntervalsStep ==
  \/ \E j \in AllIntervals : TakeAway(j)
  \/ \E n \in DOMAIN pieces : PopFront(n) \/ PopBack(n) \/ PushBack(n) \/ PushFront(n)

IntervalsSpec == IntervalsInit /\ [][IntervalsStep]_intervalVars

-----------------------------------------------------------------------------
SetOf(i) == {x \in 0 .. MaxPoint : i.lo <= x /\ (IF i.closed THEN x <= i.up ELSE x < i.up)}
Between(s, t) == {x \in 0 .. MaxPoint : (\E a \in s, b \in t : (a <= x /\ x <= b) \/ (b <= x /\ x <= a))}

\* What the operations say of two intervals that are not empty is what is true
\* of the sets.
SetLaws(i, j) ==
  LET s == SetOf(i)
      t == SetOf(j) IN
  /\ size(i) = Cardinality(s)
  /\ \A x \in 0 .. MaxPoint : contains(i, x) <=> x \in s
  /\ overlaps(i, j) <=> s \cap t # {}
  /\ adjacent_to(i, j) <=> Between(s, t) \subseteq s \cup t
  /\ SetOf(union_with(i, j)) = s \cup t \cup Between(s, t)
  /\ overlaps(i, j) => SetOf(intersection_with(i, j)) = s \cap t
  /\ ~i.closed => SetOf(intersection_with(i, j)) = s \cap t
  /\ LinearOrder(i, j) <=> \A x \in s, y \in t : x < y
  /\ \A x \in 0 .. MaxPoint : (BelowPoint(i, x) <=> \A y \in s : y < x) /\ (AbovePoint(x, i) <=> \A y \in s : x < y)
  /\ SetOf(shift_down(i, i.lo)) = {x - i.lo : x \in s} /\ shift_up(shift_down(i, i.lo), i.lo) = i
  /\ LexicographicalOrder(i, j) <=>
       \/ \E x \in s : \A y \in t : x < y
       \/ s \subseteq t /\ s # t /\ \A y \in t : \E x \in s : x <= y

\* However ranges are taken from a set of points and its ends cut off, the list of
\* intervals stands for exactly the points that are left, each in one interval,
\* in order; and comparing, joining and intersecting the pieces with the last
\* range, half-open or closed, agrees with the sets.
IntervalsAreSets ==
  /\ UNION {SetOf(pieces[n]) : n \in DOMAIN pieces} = points
  /\ \A m, n \in DOMAIN pieces : m < n => LinearOrder(pieces[m], pieces[n])
  /\ \A n \in DOMAIN pieces :
       /\ ~empty(pieces[n])
       /\ ~empty(last) => SetLaws(pieces[n], last) /\ SetLaws(last, pieces[n])
       /\ last.lo <= last.up =>
            LET i == Closed(pieces[n].lo, pieces[n].up - 1)
                j == Closed(last.lo, last.up) IN
            SetLaws(i, j) /\ SetLaws(j, i)
=============================================================================
