---------------------------------- MODULE Seq ----------------------------------
(***************************************************************************)
(* The lazy sequences of batteries/seq: objects with peek() and next(),    *)
(* stacked into pipelines with operator|, and the operations that consume  *)
(* one.  A pipeline is written as a term, [op |-> "take_n", of |-> t, ...];*)
(* Make builds the object the constructors build, Call(q, TRUE) is         *)
(* q.next() and Call(q, FALSE) is q.peek(), each giving the Optional that  *)
(* is returned and the object afterwards; ForEach is `q | for_each(fn)`,   *)
(* with the overloads that bypass next().  Denotation says what sequence a *)
(* term stands for, without objects.                                       *)
(*                                                                         *)
(* An Optional<T> is <<>> or <<x>>; items are small numbers.               *)
(***************************************************************************)
EXTENDS Integers, Sequences

LOCAL INSTANCE FiniteSets
LOCAL INSTANCE SequencesExt

CONSTANTS MaxItem,    \* items are 0 .. MaxItem
          MaxLen      \* length of the vectors a pipeline starts from

Nothing == <<>>

(***************************************************************************)
(* The functions a caller passes in; any would do.                         *)
(***************************************************************************)
Fn(x) == (x + 1) % (MaxItem + 1)
Pred(x) == x # 1
MaybeFn(x) == IF Pred(x) THEN <<Fn(x)>> ELSE Nothing
Combine(x, y) == 10 * x + y
FoldFn(state, x) == <<state + x, Combine(state, x)>>

OptMap(opt, F(_)) == IF opt = Nothing THEN Nothing ELSE <<F(opt[1])>>

RECURSIVE Call(_, _)

Through(q, c) == LET r == Call(q.seq, c) IN <<r[1], [q EXCEPT !.seq = r[2]]>>

(***************************************************************************)
(* Sources.                                                                *)
(***************************************************************************)
SubRangeSeq(q, c) ==
  IF q.items = <<>> THEN <<Nothing, q>>
  ELSE <<<<Head(q.items)>>, IF c THEN [q EXCEPT !.items = Tail(@)] ELSE q>>

SingleItem(q, c) == <<q.item, IF c THEN [q EXCEPT !.item = Nothing] ELSE q>>

Empty(q, c) == <<Nothing, q>>

(***************************************************************************)
(* Adaptors that only forward.                                             *)
(***************************************************************************)
BoxedSeq(q, c) == Through(q, c)
Attach(q, c) == Through(q, c)
Printable(q, c) == Through(q, c)

(***************************************************************************)
(* Adaptors of one sequence.                                               *)
(***************************************************************************)
CacheNext(q, c) ==
  LET r == IF q.cached = Nothing THEN Call(q.seq, TRUE) ELSE <<q.cached[1], q.seq>>
  IN  <<r[1], [q EXCEPT !.seq = r[2], !.cached = IF c THEN Nothing ELSE <<r[1]>>]>>

\* Mutant: peek() counts as well.
TakeN_CountsPeeks(q, c) ==
  IF q.n = 0 THEN <<Nothing, q>>
  ELSE LET r == Through(q, c) IN <<r[1], [r[2] EXCEPT !.n = @ - 1]>>
TakeN(q, c) ==
  IF q.n = 0 THEN <<Nothing, q>>
  ELSE LET r == Through(q, c) IN <<r[1], [r[2] EXCEPT !.n = IF c THEN @ - 1 ELSE @]>>

TakeWhile(q, c) ==
  LET v == Through(q, FALSE)
  IN  IF v[1] = Nothing \/ ~Pred(v[1][1]) THEN <<Nothing, v[2]>>
      ELSE <<v[1], IF c THEN Through(v[2], TRUE)[2] ELSE v[2]>>

RECURSIVE Filter(_, _)
Filter(q, c) ==
  LET r == Through(q, c)
  IN  IF r[1] = Nothing \/ Pred(r[1][1]) THEN r
      ELSE Filter(IF c THEN r[2] ELSE Through(r[2], TRUE)[2], c)

Map(q, c) == LET r == Through(q, c) IN <<OptMap(r[1], Fn), r[2]>>

Deref(q, c) == LET r == Through(q, c) IN <<OptMap(r[1], LAMBDA x : x[1]), r[2]>>

RECURSIVE FilterMap(_, _)
FilterMap(q, c) ==
  LET r == Through(q, c)
      v == OptMap(r[1], MaybeFn)
  IN  IF v = Nothing THEN r
      ELSE IF v[1] # Nothing THEN <<v[1], r[2]>>
      ELSE FilterMap(IF c THEN r[2] ELSE Through(r[2], TRUE)[2], c)

MapFold(q, c) ==
  LET r == Through(q, c)
  IN  IF r[1] = Nothing THEN r
      ELSE LET tr == FoldFn(q.state, r[1][1])
           IN  <<<<tr[2]>>, [r[2] EXCEPT !.state = IF c THEN tr[1] ELSE @]>>

\* rolling(f, init): map_fold with the new state as the item.
Rolling(q, c) ==
  LET r == Through(q, c)
  IN  IF r[1] = Nothing THEN r
      ELSE <<<<q.state + r[1][1]>>, [r[2] EXCEPT !.state = IF c THEN @ + r[1][1] ELSE @]>>

\* map_adjacent: the object holds one item back.  Its peek() is not
\* instantiable for the items used here, so only next() is called.
MapAdjacent(q, c) ==
  IF q.item = Nothing THEN <<Nothing, q>>
  ELSE LET r == Through(q, TRUE)
       IN  <<OptMap(r[1], LAMBDA y : Combine(q.item[1], y)), [r[2] EXCEPT !.item = r[1]]>>

\* inspect_adjacent: the item held back is the next one; fn sees every
\* neighbouring pair (pairs is what it saw).
InspectAdjacent(q, c) ==
  IF ~c THEN <<q.item, q>>
  ELSE LET r == Through(q, TRUE)
       IN  <<q.item, [r[2] EXCEPT !.item = r[1],
                                  !.pairs = IF q.item # Nothing /\ r[1] # Nothing
                                            THEN Append(@, <<q.item[1], r[1][1]>>) ELSE @]>>

\* Items of the source are Optionals.  peek() dereferences the source's
\* peek() whether or not there is one: callers stop at the first empty item.
Fuse(q, c) ==
  IF q.fused THEN <<Nothing, q>>
  ELSE LET r == Through(q, c)
           item == IF r[1] = Nothing THEN Nothing ELSE r[1][1]
       IN  <<item, [r[2] EXCEPT !.fused = c /\ item = Nothing]>>

\* Items of the source are StatusOr<T>: <<x>>, or <<>> for an error.
StatusOk(q, c) ==
  LET r == Through(q, c)
  IN  IF r[1] = Nothing THEN r
      ELSE <<r[1][1], [r[2] EXCEPT !.ok = @ /\ r[1][1] # Nothing]>>

\* Flatten::impl: the inner sequence is an object of its own, replaced by the
\* next one of the outer sequence when it has nothing left.
RECURSIVE Flatten(_, _)
Flatten(q, c) ==
  IF q.inner = Nothing THEN <<Nothing, q>>
  ELSE LET v == Call(q.inner[1], c)
           r == Through([q EXCEPT !.inner = <<v[2]>>], TRUE)
       IN  IF v[1] # Nothing THEN <<v[1], [q EXCEPT !.inner = <<v[2]>>]>>
           ELSE Flatten([r[2] EXCEPT !.inner = r[1]], c)

(***************************************************************************)
(* Adaptors of several sequences.                                          *)
(***************************************************************************)
Chain(q, c) ==
  LET one == Call(q.seq1[1], c)
      two == Call(q.seq, c)
  IN  IF q.seq1 # Nothing /\ (one[1] # Nothing \/ ~c)
      THEN <<one[1], [q EXCEPT !.seq1 = <<one[2]>>]>>
      ELSE <<two[1], [q EXCEPT !.seq1 = Nothing, !.seq = two[2]]>>

\* Chain<TakeN<Outer&>, Chain<Inner, Outer&>>: both references are to one
\* outer sequence.  part counts the chains that are past their first half.
RECURSIVE Splice(_, _)
Splice(q, c) ==
  LET inner == Call(q.inner, c)
      take == IF q.n = 0 THEN <<Nothing, q>>
              ELSE LET r == Through(q, c) IN <<r[1], [r[2] EXCEPT !.n = IF c THEN @ - 1 ELSE @]>>
      here == CASE q.part = 0 -> take
                [] q.part = 1 -> <<inner[1], [q EXCEPT !.inner = inner[2]]>>
                [] OTHER      -> Through(q, c)
  IN  IF here[1] # Nothing \/ ~c \/ q.part = 2 THEN here
      ELSE Splice([here[2] EXCEPT !.part = @ + 1], c)

MapPairwise(q, c) ==
  LET l == Call(q.left, c)
      r == Call(q.right, c)
  IN  IF l[1] = Nothing THEN <<Nothing, [q EXCEPT !.left = l[2]]>>
      ELSE <<OptMap(r[1], LAMBDA y : Combine(l[1][1], y)), [q EXCEPT !.left = l[2], !.right = r[2]]>>

MergeBy(q, c) ==
  LET l == Call(q.left, FALSE)
      r == Call(q.right, FALSE)
      useRight == r[1] # Nothing /\ (l[1] = Nothing \/ r[1][1] < l[1][1])
      seen == [q EXCEPT !.left = l[2], !.right = r[2]]
  IN  IF ~c \/ (l[1] = Nothing /\ r[1] = Nothing)
      THEN <<IF useRight THEN r[1] ELSE l[1], seen>>
      ELSE IF useRight THEN LET n == Call(r[2], TRUE) IN <<n[1], [seen EXCEPT !.right = n[2]]>>
           ELSE LET n == Call(l[2], TRUE) IN <<n[1], [seen EXCEPT !.left = n[2]]>>

\* The heap holds the indices of the cached sequences that have an item; its
\* front is one whose item is least.
KMergeFront(q) ==
  CHOOSE i \in q.heap : \A j \in q.heap : Call(q.seqs[i], FALSE)[1][1] <= Call(q.seqs[j], FALSE)[1][1]
KMergeBy(q, c) ==
  IF q.heap = {} THEN <<Nothing, q>>
  ELSE LET i == KMergeFront(q)
           r == Call(q.seqs[i], c)
           p == Call(r[2], FALSE)
       IN  IF ~c THEN <<r[1], [q EXCEPT !.seqs[i] = r[2]]>>
           ELSE <<r[1], [q EXCEPT !.seqs[i] = p[2],
                                  !.heap = IF p[1] = Nothing THEN @ \ {i} ELSE @]>>

Call(q, c) ==
  CASE q.op = "vec"              -> SubRangeSeq(q, c)
    [] q.op = "single_item"      -> SingleItem(q, c)
    [] q.op = "empty"            -> Empty(q, c)
    [] q.op = "boxed"            -> BoxedSeq(q, c)
    [] q.op = "attach"           -> Attach(q, c)
    [] q.op = "printable"        -> Printable(q, c)
    [] q.op = "cache_next"       -> CacheNext(q, c)
    [] q.op = "take_n"           -> TakeN(q, c)
    [] q.op = "take_while"       -> TakeWhile(q, c)
    [] q.op = "filter"           -> Filter(q, c)
    [] q.op = "map"              -> Map(q, c)
    [] q.op = "deref"            -> Deref(q, c)
    [] q.op = "filter_map"       -> FilterMap(q, c)
    [] q.op = "map_fold"         -> MapFold(q, c)
    [] q.op = "rolling"          -> Rolling(q, c)
    [] q.op = "map_adjacent"     -> MapAdjacent(q, c)
    [] q.op = "inspect_adjacent" -> InspectAdjacent(q, c)
    [] q.op = "fuse"             -> Fuse(q, c)
    [] q.op = "status_ok"        -> StatusOk(q, c)
    [] q.op = "flatten"          -> Flatten(q, c)
    [] q.op = "chain"            -> Chain(q, c)
    [] q.op = "splice"           -> Splice(q, c)
    [] q.op = "map_pairwise"     -> MapPairwise(q, c)
    [] q.op = "merge_by"         -> MergeBy(q, c)
    [] q.op = "kmerge_by"        -> KMergeBy(q, c)

(***************************************************************************)
(* Terms and the objects their constructors build.                         *)
(***************************************************************************)
Vec(s) == [op |-> "vec", items |-> s]
On(op, t) == [op |-> op, of |-> t]

\* Constructors that already take an item: Flatten, MapAdjacent and
\* InspectAdjacent call next() once, KMergeBy peeks at every sequence.
Holding(q) == LET r == Call(q.seq, TRUE) IN [q EXCEPT !.seq = r[2], !.item = r[1]]
FirstInner(q) == LET r == Call(q.seq, TRUE) IN [q EXCEPT !.seq = r[2], !.inner = r[1]]
FilledHeap(q) ==
  LET r == [i \in DOMAIN q.seqs |-> Call(q.seqs[i], FALSE)]
  IN  [q EXCEPT !.seqs = [i \in DOMAIN r |-> r[i][2]], !.heap = {i \in DOMAIN r : r[i][1] # Nothing}]

RECURSIVE Make(_)
Make(t) ==
  LET op == t.op
  IN  CASE op = "vec"         -> t
        [] op = "single_item" -> [op |-> op, item |-> <<t.item>>]
        [] op = "empty"       -> t
        [] op = "cache_next"  -> [op |-> op, seq |-> Make(t.of), cached |-> Nothing]
        [] op = "take_n"      -> [op |-> op, seq |-> Make(t.of), n |-> t.n]
        [] op \in {"map_fold", "rolling"} -> [op |-> op, seq |-> Make(t.of), state |-> 0]
        [] op = "map_adjacent" -> Holding([op |-> op, seq |-> Make(t.of), item |-> Nothing])
        [] op = "inspect_adjacent" ->
             Holding([op |-> op, seq |-> Make(t.of), item |-> Nothing, pairs |-> <<>>])
        [] op = "fuse"        -> [op |-> op, seq |-> Make(t.of), fused |-> FALSE]
        [] op = "status_ok"   -> [op |-> op, seq |-> Make(t.of), ok |-> TRUE]
        [] op = "flatten"     -> FirstInner([op |-> op, inner |-> Nothing,
                                   seq |-> Vec([i \in DOMAIN t.of |-> Make(t.of[i])])])
        [] op = "chain"       -> [op |-> op, seq1 |-> <<Make(t.left)>>, seq |-> Make(t.right)]
        [] op = "splice"      -> [op |-> op, seq |-> Make(t.left), n |-> t.n, part |-> 0,
                                  inner |-> Make(t.right)]
        [] op \in {"map_pairwise", "merge_by"} ->
             [op |-> op, left |-> Make(t.left), right |-> Make(t.right)]
        [] op = "kmerge_by"   -> FilledHeap([op |-> op, heap |-> {},
                                   seqs |-> [i \in DOMAIN t.of |-> Make(On("cache_next", t.of[i]))]])
        [] OTHER              -> [op |-> op, seq |-> Make(t.of)]

(***************************************************************************)
(* seq | for_each(fn): the items fn is called with when it never breaks.   *)
(* The generic loop calls next(); vectors, map, filter, filter_map,        *)
(* flatten and merge_by have overloads that do not.                        *)
(***************************************************************************)
RECURSIVE ForEach(_)

ForEachNext(q) ==
  LET r == Call(q, TRUE) IN IF r[1] = Nothing THEN <<>> ELSE r[1] \o ForEach(r[2])

ForEachFilter(q) == SelectSeq(ForEach(q.seq), Pred)
ForEachMap(q) == [i \in DOMAIN ForEach(q.seq) |-> Fn(ForEach(q.seq)[i])]
ForEachFilterMap(q) == LET s == SelectSeq(ForEach(q.seq), Pred) IN [i \in DOMAIN s |-> Fn(s[i])]
ForEachFlatten(q) ==
  (IF q.inner = Nothing THEN <<>> ELSE ForEach(q.inner[1]))
    \o FlattenSeq([i \in DOMAIN q.seq.items |-> ForEach(q.seq.items[i])])

\* The left items are collected first and dealt out before the first right
\* item that is smaller.
RECURSIVE DealOut(_, _)
DealOut(left, right) ==
  IF right = <<>> \/ left = <<>> THEN left \o right
  ELSE IF Head(right) < Head(left) THEN <<Head(right)>> \o DealOut(left, Tail(right))
       ELSE <<Head(left)>> \o DealOut(Tail(left), right)
ForEachMerge(q) == DealOut(ForEach(q.left), ForEach(q.right))

ForEach(q) ==
  CASE q.op = "vec"        -> q.items
    [] q.op = "filter"     -> ForEachFilter(q)
    [] q.op = "map"        -> ForEachMap(q)
    [] q.op = "filter_map" -> ForEachFilterMap(q)
    [] q.op = "flatten"    -> ForEachFlatten(q)
    [] q.op = "merge_by"   -> ForEachMerge(q)
    [] OTHER               -> ForEachNext(q)

(***************************************************************************)
(* Operations that consume a sequence.                                     *)
(***************************************************************************)
Collect(q) == ForEach(q)
Count(q) == IF q.op = "vec" THEN Len(q.items) ELSE Len(ForEach(q))
Plus == [p \in Int \X Int |-> p[1] + p[2]]
Times == [p \in Int \X Int |-> p[1] * p[2]]
Reduce(q, init, fn) == FoldLeft(LAMBDA a, b : fn[<<a, b>>], init, ForEach(q))
InnerReduce(q, fn) == LET r == Call(q, TRUE) IN OptMap(r[1], LAMBDA x : Reduce(r[2], x, fn))
SumOf(q) == Reduce(q, 0, Plus)
ProductOf(q) == Reduce(q, 1, Times)
\* An item that is 0 is false; the loop breaks at the first that decides.
AllTrue(q) == SelectSeq(ForEach(q), LAMBDA x : x = 0) = <<>>
AnyTrue(q) == SelectSeq(ForEach(q), LAMBDA x : x # 0) # <<>>
First(q) == Call(q, FALSE)[1]
RECURSIVE LastFrom(_, _)
LastFrom(q, prev) == LET r == Call(q, TRUE) IN IF r[1] = Nothing THEN prev ELSE LastFrom(r[2], r[1])
LastItem(q) == LastFrom(q, Nothing)
\* is_sorted: map_adjacent with <=, then all_true.
IsSortedBy(q) ==
  LET pairs == ForEach(Holding([op |-> "map_adjacent", seq |-> q, item |-> Nothing]))
  IN  \A i \in DOMAIN pairs : pairs[i] \div 10 <= pairs[i] % 10

(***************************************************************************)
(* What a term stands for.                                                 *)
(***************************************************************************)
MinOf(a, b) == IF a < b THEN a ELSE b
Prefix(s, n) == SubSeq(s, 1, MinOf(n, Len(s)))
\* The items before the first one without property P.
While(s, P(_)) ==
  Prefix(s, CHOOSE n \in 0 .. Len(s) : /\ \A i \in 1 .. n : P(s[i])
                                       /\ n = Len(s) \/ ~P(s[n + 1]))
Total(s) == FoldLeft(LAMBDA a, b : a + b, 0, s)
\* A stable merge of sorted sequences: where each item goes.
Merged(l, r) ==
  LET before(x) == {j \in DOMAIN r : r[j] < x}
      upto(x) == {i \in DOMAIN l : l[i] <= x}
      at == [k \in 1 .. Len(l) + Len(r) |->
               {l[i] : i \in {i \in DOMAIN l : i + Cardinality(before(l[i])) = k}} \cup
               {r[j] : j \in {j \in DOMAIN r : j + Cardinality(upto(r[j])) = k}}]
  IN  [k \in DOMAIN at |-> CHOOSE x \in at[k] : TRUE]

RECURSIVE Denotation(_)
Denotation(t) ==
  LET op == t.op
      s == Denotation(t.of)
      l == Denotation(t.left)
      r == Denotation(t.right)
  IN  CASE op = "vec"          -> t.items
        [] op = "single_item"  -> <<t.item>>
        [] op = "empty"        -> <<>>
        [] op = "take_n"       -> Prefix(s, t.n)
        [] op = "take_while"   -> While(s, Pred)
        [] op = "filter"       -> SelectSeq(s, Pred)
        [] op = "map"          -> [i \in DOMAIN s |-> Fn(s[i])]
        [] op = "deref"        -> [i \in DOMAIN s |-> s[i][1]]
        [] op = "filter_map"   -> LET k == SelectSeq(s, Pred) IN [i \in DOMAIN k |-> Fn(k[i])]
        [] op = "map_fold"     -> [i \in DOMAIN s |-> Combine(Total(Prefix(s, i - 1)), s[i])]
        [] op = "rolling"      -> [i \in DOMAIN s |-> Total(Prefix(s, i))]
        [] op = "map_adjacent" -> [i \in 1 .. Len(s) - 1 |-> Combine(s[i], s[i + 1])]
        [] op \in {"fuse", "status_ok"} ->
             LET k == While(s, LAMBDA x : x # Nothing) IN [i \in DOMAIN k |-> k[i][1]]
        [] op = "flatten"      -> FlattenSeq([i \in DOMAIN t.of |-> Denotation(t.of[i])])
        [] op = "chain"        -> l \o r
        [] op = "splice"       -> Prefix(l, t.n) \o r \o SubSeq(l, t.n + 1, Len(l))
        [] op = "map_pairwise" -> [i \in 1 .. MinOf(Len(l), Len(r)) |-> Combine(l[i], r[i])]
        [] op = "merge_by"     -> Merged(l, r)
        [] op = "kmerge_by"    -> SortSeq(FlattenSeq([i \in DOMAIN t.of |-> Denotation(t.of[i])]), <)
        [] OTHER               -> s

(***************************************************************************)
(* The pipelines that are tried.                                           *)
(***************************************************************************)
Vecs(n) == {Vec(s) : s \in UNION {[1 .. k -> 0 .. MaxItem] : k \in 0 .. n}}
Sorted(n) == {v \in Vecs(n) : \A i \in 1 .. Len(v.items) - 1 : v.items[i] <= v.items[i + 1]}
OptVecs(n) == {Vec(s) : s \in UNION {[1 .. k -> {Nothing, <<0>>, <<1>>}] : k \in 0 .. n}}

Forwarding == {"boxed", "attach", "printable", "cache_next"}
OneToOne == {"map", "map_fold", "rolling", "inspect_adjacent"}
Dropping == {"take_while", "filter", "filter_map"}
Unary(ts) ==
  {On(op, t) : op \in Forwarding \cup OneToOne \cup Dropping, t \in ts} \cup
  {[op |-> "take_n", of |-> t, n |-> k] : t \in ts, k \in 0 .. 2}
Binary(op, ls, rs) == {[op |-> op, left |-> l, right |-> r] : l \in ls, r \in rs}

Sources == Vecs(MaxLen) \cup {[op |-> "empty"]} \cup {[op |-> "single_item", item |-> x] : x \in 0 .. MaxItem}
SortedObjects(n) == Sorted(n) \cup {On("cache_next", v) : v \in Sorted(n)}

Pipelines ==
  Sources \cup Unary(Sources) \cup Unary(Unary(Vecs(2)))
  \cup {On("map_adjacent", t) : t \in Sources \cup Unary(Vecs(2))}
  \cup {On(op, v) : op \in {"fuse", "status_ok"}, v \in OptVecs(MaxLen)}
  \cup {On("deref", v) : v \in {u \in OptVecs(2) : Nothing \notin Range(u.items)}}
  \cup {[op |-> "flatten", of |-> s] : s \in UNION {[1 .. k -> Unary(Vecs(1))] : k \in 0 .. 2}}
  \cup Binary("chain", Unary(Vecs(1)), Vecs(1)) \cup Binary("map_pairwise", Unary(Vecs(2)), Vecs(2))
  \cup {[op |-> "splice", left |-> v, right |-> w, n |-> k] : v \in Vecs(2), w \in Vecs(1), k \in 0 .. 3}
  \cup Binary("merge_by", SortedObjects(2), SortedObjects(2))
  \cup {[op |-> "kmerge_by", of |-> s] : s \in UNION {[1 .. k -> Sorted(2)] : k \in 0 .. 3}}

(***************************************************************************)
(* A program that calls peek() and next() on one pipeline until next()     *)
(* has returned None.                                                      *)
(***************************************************************************)
VARIABLES given, seq, out, peeked, ended

seqVars == <<given, seq, out, peeked, ended>>

SeqInit ==
  /\ given \in Pipelines
  /\ seq = Make(given)
  /\ out = <<>>
  /\ peeked = Nothing     \* <<what peek() returned>> since the last next()
  /\ ended = FALSE

\* Fuse::peek() may only be called while the source has an item.
CanPeek == seq.op # "map_adjacent" /\ (seq.op = "fuse" => seq.fused \/ seq.seq.items # <<>>)

SeqPeek ==
  /\ ~ended /\ CanPeek
  /\ LET r == Call(seq, FALSE) IN seq' = r[2] /\ peeked' = <<r[1]>>
  /\ UNCHANGED <<given, out, ended>>

SeqNext ==
  /\ ~ended
  /\ LET r == Call(seq, TRUE)
     IN  seq' = r[2] /\ out' = out \o r[1] /\ ended' = (r[1] = Nothing)
  /\ peeked' = Nothing
  /\ UNCHANGED given

SeqSpec == SeqInit /\ [][SeqPeek \/ SeqNext]_seqVars

(***************************************************************************)
(* Whatever peeks came before, the items next() has returned and the items *)
(* a loop would still get are together what the pipeline stands for.       *)
(***************************************************************************)
YieldsDenotation ==
  /\ out \o (IF ended THEN <<>> ELSE ForEach(seq)) = Denotation(given)
  /\ seq.op = "inspect_adjacent" =>
       seq.pairs = [i \in 1 .. MinOf(Len(out), Len(Denotation(given)) - 1) |->
                      <<Denotation(given)[i], Denotation(given)[i + 1]>>]
  /\ seq.op = "status_ok" /\ ended => (seq.ok <=> Len(out) = Len(given.of.items))

(***************************************************************************)
(* peek() tells what next() will return, and changes nothing that shows;   *)
(* only a chain (or splice) that has still to find that a half other than  *)
(* its last has run out answers None while there are more items.           *)
(***************************************************************************)
BeforeLastHalf(q) == (q.op = "chain" /\ q.seq1 # Nothing) \/ (q.op = "splice" /\ q.part < 2)
PeekTellsNext ==
  peeked # Nothing /\ ~(peeked[1] = Nothing /\ BeforeLastHalf(seq)) =>
    Call(seq, TRUE)[1] = peeked[1]

(***************************************************************************)
(* The consuming operations agree with the items that are left.            *)
(***************************************************************************)
ConsumersAgree ==
  LET rest == ForEachNext(seq)
  IN  ~ended =>
        /\ Count(seq) = Len(rest) /\ Collect(seq) = rest
        /\ seq.op \notin {"deref"} =>
             /\ SumOf(seq) = Total(rest)
             /\ ProductOf(seq) = FoldLeft(LAMBDA a, b : a * b, 1, rest)
             /\ AllTrue(seq) <=> \A i \in DOMAIN rest : rest[i] # 0
             /\ AnyTrue(seq) <=> \E i \in DOMAIN rest : rest[i] # 0
        /\ LastItem(seq) = IF rest = <<>> THEN Nothing ELSE <<rest[Len(rest)]>>
        /\ InnerReduce(seq, Plus) = IF rest = <<>> THEN Nothing ELSE <<Total(rest)>>
        /\ (\A i \in DOMAIN rest : rest[i] < 10) =>
             (IsSortedBy(seq) <=> \A i \in 1 .. Len(rest) - 1 : rest[i] <= rest[i + 1])

-----------------------------------------------------------------------------
(***************************************************************************)
(* seq::group_by: a sequence of sub-sequences, one for each run of equal   *)
(* items, that share one source.  The SubGroup handed out last is attached:*)
(* it reads through the GroupBy, which points back at it (sub_group_).     *)
(* Moving on, destroying either side, copying and peeking detach: the      *)
(* SubGroup gets a private GroupBy with a copy of the source.              *)
(*                                                                         *)
(* The place a GroupBy is at, next_item_ and what seq_ still has, is one   *)
(* sequence of items.                                                      *)
(***************************************************************************)

CONSTANTS SubGroups,    \* the SubGroup objects of the program
          MaxGroupItems \* length of the source

VARIABLES source,       \* what the GroupBy was built from
          groupBy,      \* [at, sub, alive]: sub is sub_group_ ("none": nullptr)
          subGroup,     \* [state, at, run, got] of every SubGroup object
          runsDone      \* how many runs the GroupBy has left behind

groupVars == <<source, groupBy, subGroup, runsDone>>

None == "none"

GroupEq(a, b) == a = b

\* sub_group_next() takes the first item; the run ends with it unless the
\* one after it is equal.
RunEnds(at) == Len(at) = 1 \/ ~GroupEq(at[1], at[2])

\* SubGroup | consume().
RECURSIVE Consumed(_)
Consumed(at) == IF RunEnds(at) THEN Tail(at) ELSE Consumed(Tail(at))

\* The states of a SubGroup object: not constructed, group_by_ = nullptr,
\* group_by_ = the GroupBy, group_by_ = private_group_by_.
Unused == [state |-> "unused", at |-> <<>>, run |-> 0, got |-> <<>>]

GroupInit ==
  /\ source \in UNION {[1 .. n -> {0, 1}] : n \in 0 .. MaxGroupItems}
  /\ groupBy = [at |-> source, sub |-> None, alive |-> TRUE]
  /\ subGroup = [h \in SubGroups |-> Unused]
  /\ runsDone = 0

\* GroupBy::detach: a private copy for the attached SubGroup; the GroupBy
\* moves to the next run unless skip_advance.
Detached(h) == [subGroup[h] EXCEPT !.at = groupBy.at, !.state = "private"]
DetachSub == IF groupBy.sub = None THEN subGroup ELSE [subGroup EXCEPT ![groupBy.sub] = Detached(groupBy.sub)]
\* Mutant: the GroupBy stays in the run it detaches from.
MovedOn_Behind == IF groupBy.sub = None THEN groupBy ELSE [groupBy EXCEPT !.sub = None]
MovedOn == IF groupBy.sub = None THEN groupBy ELSE [groupBy EXCEPT !.at = Consumed(@), !.sub = None]
RunsAfter == IF groupBy.sub = None THEN runsDone ELSE runsDone + 1

\* GroupBy::next().
GroupNext(h) ==
  /\ groupBy.alive /\ subGroup[h].state = "unused"
  /\ runsDone' = RunsAfter
  /\ groupBy' = [MovedOn EXCEPT !.sub = IF MovedOn.at = <<>> THEN None ELSE h]
  /\ subGroup' = IF MovedOn.at = <<>> THEN DetachSub
                 ELSE [DetachSub EXCEPT ![h] = [Unused EXCEPT !.state = "attached", !.run = RunsAfter + 1]]
  /\ UNCHANGED source

\* GroupBy::peek(): a SubGroup with a private copy, of the run after the
\* attached one if there is one (the copy constructor moves its copy on).
GroupPeek(h) ==
  /\ groupBy.alive /\ subGroup[h].state = "unused" /\ MovedOn.at # <<>>
  /\ subGroup' = [subGroup EXCEPT ![h] = [Unused EXCEPT !.state = "private", !.at = MovedOn.at, !.run = RunsAfter + 1]]
  /\ UNCHANGED <<source, groupBy, runsDone>>

\* Copying a GroupBy (the copy moves past the attached run) and letting the
\* copy take the original's place.
GroupCopy ==
  /\ groupBy.alive
  /\ groupBy' = MovedOn /\ runsDone' = RunsAfter /\ subGroup' = DetachSub
  /\ UNCHANGED source

\* ~GroupBy.
GroupDestroy ==
  /\ groupBy.alive
  /\ groupBy' = [groupBy EXCEPT !.alive = FALSE, !.sub = None] /\ subGroup' = DetachSub
  /\ UNCHANGED <<source, runsDone>>

Active(h) == subGroup[h].state \in {"attached", "private"}
\* *group_by_ of an active SubGroup.
Of(h) == IF subGroup[h].state = "attached" THEN groupBy.at ELSE subGroup[h].at

\* SubGroup::next() and GroupBy::sub_group_next().
SubNext(h) ==
  /\ Active(h)
  /\ LET attached == subGroup[h].state = "attached"
         ends == RunEnds(Of(h))
     IN  /\ subGroup' = [subGroup EXCEPT ![h].got = Append(@, Head(Of(h))),
                                         ![h].state = IF ends THEN "over" ELSE @,
                                         ![h].at = IF ends \/ attached THEN <<>> ELSE Tail(@)]
         /\ groupBy' = IF attached THEN [groupBy EXCEPT !.at = Tail(@), !.sub = IF ends THEN None ELSE @]
                       ELSE groupBy
         /\ runsDone' = IF attached /\ ends THEN runsDone + 1 ELSE runsDone
  /\ UNCHANGED source

\* SubGroup's copy constructor: always private.
SubCopy(h, k) ==
  /\ Active(h) /\ subGroup[k].state = "unused"
  /\ subGroup' = [subGroup EXCEPT ![k] = [subGroup[h] EXCEPT !.at = Of(h), !.state = "private"]]
  /\ UNCHANGED <<source, groupBy, runsDone>>

\* SubGroup's move constructor: the GroupBy points at the new object.
SubMove(h, k) ==
  /\ Active(h) /\ subGroup[k].state = "unused"
  /\ subGroup' = [subGroup EXCEPT ![k] = subGroup[h], ![h] = Unused]
  /\ groupBy' = IF subGroup[h].state = "attached" THEN [groupBy EXCEPT !.sub = k] ELSE groupBy
  /\ UNCHANGED <<source, runsDone>>

\* ~SubGroup: an attached one takes the GroupBy past its run.
SubDestroy(h) ==
  /\ subGroup[h].state # "unused"
  /\ subGroup' = [subGroup EXCEPT ![h] = Unused]
  /\ groupBy' = IF subGroup[h].state = "attached" THEN MovedOn ELSE groupBy
  /\ runsDone' = IF subGroup[h].state = "attached" THEN RunsAfter ELSE runsDone
  /\ UNCHANGED source

GroupStep ==
  \/ \E h \in SubGroups : GroupNext(h) \/ GroupPeek(h) \/ SubNext(h) \/ SubDestroy(h)
  \/ \E h, k \in SubGroups : SubCopy(h, k) \/ SubMove(h, k)
  \/ GroupCopy \/ GroupDestroy

(***************************************************************************)
(* The runs of the source, and what is left of one at a place.             *)
(***************************************************************************)
Starts == {i \in DOMAIN source : i = 1 \/ source[i] # source[i - 1]}
Runs ==
  LET at == SetToSortSeq(Starts, <)
  IN  [r \in DOMAIN at |-> SubSeq(source, at[r], IF r = Len(at) THEN Len(source) ELSE at[r + 1] - 1)]
RunsFrom(r) == FlattenSeq(SubSeq(Runs, r, Len(Runs)))

(***************************************************************************)
(* Every SubGroup reads exactly the run it was handed out for, in whatever *)
(* order its siblings, its copies and the GroupBy are advanced, moved or   *)
(* destroyed; the GroupBy goes through the runs in order.  sub_group_ and  *)
(* group_by_ point at each other.                                          *)
(***************************************************************************)
GroupsAreRuns ==
  /\ \A h \in SubGroups :
       /\ Active(h) => subGroup[h].got \o Of(h) = RunsFrom(subGroup[h].run)
                       /\ Len(subGroup[h].got) < Len(Runs[subGroup[h].run])
       /\ subGroup[h].state = "over" => subGroup[h].got = Runs[subGroup[h].run]
       /\ subGroup[h].state = "attached" <=> groupBy.sub = h
  /\ groupBy.alive /\ groupBy.sub = None => groupBy.at = RunsFrom(runsDone + 1)
=============================================================================
