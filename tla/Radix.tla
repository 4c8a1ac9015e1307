------------------------------- MODULE Radix -------------------------------
(***************************************************************************)
(* batt::RadixQueue (radix_queue.hpp): a FIFO queue of integers, each of a *)
(* radix of its own, coded as the digits of mixed-radix numbers.  The      *)
(* model checkers record the choices of a step in it.  A segment is a word *)
(* of WordMax + 1 values; the segments are a ring of RingSize.             *)
(***************************************************************************)
EXTENDS Integers, Sequences

CONSTANTS
  WordMax,      \* std::numeric_limits<u64>::max(), scaled down
  RingSize,     \* kQueueSize
  MaxRadix,     \* bound on the radix of an item
  MaxItems      \* bound on the items in the queue

VARIABLES
  ring,         \* front_, back_ and queue_
  items,        \* the items pushed and not yet popped: <<radix, value>>
  popped,       \* what the last pop returned and what it should have returned
  radixPanic    \* a BATT_CHECK has failed

radixVars == <<ring, items, popped, radixPanic>>

Segment(radix, value) == [radix |-> radix, value |-> value]

RadixInit ==
  /\ ring = [front |-> 0, back |-> 0,
             queue |-> [i \in 0..(RingSize - 1) |-> Segment(1, 0)]]
  /\ items = <<>>
  /\ popped = <<0, 0>>
  /\ radixPanic = FALSE

QueueSize(r) ==
  (IF r.front <= r.back THEN r.back + 1 ELSE RingSize + r.back + 1) - r.front
RingFull(r) == r.front = (r.back + 1) % RingSize
RingEmpty(r) == QueueSize(r) = 1 /\ r.queue[r.front].radix = 1

\* Does another digit fit in the last segment?
WouldOverflow_Late(s, radix) == s.radix > WordMax
WouldOverflow(s, radix) == WordMax \div s.radix < radix

\* push_back: a new segment.
WithNewBack(r) ==
  LET b == (r.back + 1) % RingSize IN
  [r EXCEPT !.back = b, !.queue[b] = Segment(1, 0)]

\* The arithmetic is that of a word.
Word(n) == n % (WordMax + 1)
WithDigit(r, radix, value) ==
  LET s == r.queue[r.back] IN
  [r EXCEPT !.queue[r.back] =
     Segment(Word(s.radix * radix), Word(s.value + value * s.radix))]

RadixPush(radix, value) ==
  LET overflow == WouldOverflow(ring.queue[ring.back], radix) IN
  /\ value < radix
  /\ Len(items) < MaxItems
  /\ ~ radixPanic
  /\ IF overflow /\ RingFull(ring)
       THEN radixPanic' = TRUE /\ UNCHANGED <<ring, items>>
       ELSE /\ ring' = WithDigit(IF overflow THEN WithNewBack(ring) ELSE ring, radix, value)
            /\ items' = Append(items, <<radix, value>>)
            /\ UNCHANGED radixPanic
  /\ UNCHANGED popped

\* pop, with the radix the item was pushed with.
RadixPop ==
  LET radix == Head(items)[1]
      s == ring.queue[ring.front]
      t == Segment(s.radix \div radix, s.value \div radix)
      r == [ring EXCEPT !.queue[ring.front] = t] IN
  /\ items # <<>>
  /\ ~ radixPanic
  /\ popped' = <<s.value % radix, Head(items)[2]>>
  /\ items' = Tail(items)
  /\ radixPanic' = (radix > s.radix \/ t.value >= t.radix)
  /\ ring' = IF t.radix = 1 /\ QueueSize(r) > 1
               THEN [r EXCEPT !.front = (@ + 1) % RingSize] ELSE r

RadixClear ==
  /\ ~ radixPanic
  /\ ring' = [ring EXCEPT !.front = 0, !.back = 0, !.queue[0] = Segment(1, 0)]
  /\ items' = <<>>
  /\ UNCHANGED <<popped, radixPanic>>

RadixStep ==
  \/ \E radix \in 1..MaxRadix, value \in 0..(MaxRadix - 1) : RadixPush(radix, value)
  \/ RadixPop
  \/ RadixClear

-----------------------------------------------------------------------------
\* The product of the radices of the items waiting.
RECURSIVE Weight(_)
Weight(s) == IF s = <<>> THEN 1 ELSE Head(s)[1] * Weight(Tail(s))

\* Items come out in the order and with the values they went in, across
\* segments and around the ring; the queue is empty exactly when no item
\* with a choice is left; and only a push on a full ring fails.
RadixRoundTrip ==
  /\ popped[1] = popped[2]
  /\ RingEmpty(ring) <=> Weight(items) = 1
  /\ radixPanic => RingFull(ring)
=============================================================================
