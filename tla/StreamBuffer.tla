---------------------------- MODULE StreamBuffer ----------------------------
(***************************************************************************)
(* batt::StreamBuffer (async/stream_buffer*.hpp, .ipp): a ring of bytes    *)
(* between one writer and one reader.  commit_pos_ and consume_pos_ count  *)
(* the bytes written and read since the beginning; both are watches (see   *)
(* Watches).  Each side owns one of them, and waits for the other in       *)
(* pre_transfer, which then hands out buffers that refer to the ring.      *)
(*                                                                         *)
(* The n-th byte of the stream is the number n.  The cells 0..capacity-1   *)
(* of the memory are the ring, the ones above it are tmp_buffer_.          *)
(***************************************************************************)
EXTENDS Integers, SequencesExt, FiniteSetsExt, Watches

CONSTANTS
  Writer, Reader,
  capacity,                   \* capacity_
  MaxBytes,                   \* how many bytes are written in all
  kClosed, kEndOfStream       \* StatusCode

ASSUME StreamConstants ==
  /\ Threads = {Writer, Reader} /\ Writer # Reader
  /\ capacity \in Nat \ {0} /\ MaxBytes \in Nat
  /\ kClosed # kEndOfStream /\ None \notin {kClosed, kEndOfStream}

VARIABLES
  commit_pos, consume_pos,    \* commit_pos_, consume_pos_
  memory,                     \* buffer_, followed by tmp_buffer_
  pc,                         \* where each side is
  call                        \* the call it executes, with arguments and locals

vars == <<commit_pos, consume_pos, memory, pc, call>>
positions == <<commit_pos, consume_pos>>

Ring == 0..(capacity - 1)
Tmp == capacity..(2 * capacity - 1)

Operations == {"none", "prepare_exactly", "prepare_at_least",
               "async_prepare_at_least", "write_all", "async_write_some",
               "close", "fetch_at_least"}
Labels == {"idle", "load", "test", "await", "attach", "blocked", "again",
           "buffers", "fill", "commit", "notify", "eos", "hold", "close"}

\* count: min_count or exact_count; left: the bytes still to be written;
\* seen: the position the wait goes by, then the number of bytes filled in;
\* buffers: the result, a sequence of parts of the memory.
CallOf(op, n, rest) ==
  [op |-> op, count |-> n, left |-> rest, seen |-> 0, buffers |-> <<>>]
NoCall == CallOf("none", 0, 0)

Buffers == [begin : Ring \cup Tmp, size : 0..capacity]

TypeOK ==
  /\ commit_pos \in WatchOf(0..MaxBytes, {kClosed, kEndOfStream})
  /\ consume_pos \in WatchOf(0..MaxBytes, {kClosed, kEndOfStream})
  /\ memory \in [Ring \cup Tmp -> 0..MaxBytes]
  /\ pc \in [Threads -> Labels]
  /\ call \in [Threads ->
       [op : Operations, count : 0..capacity, left : 0..MaxBytes,
        seen : 0..MaxBytes, buffers : BoundedSeq(Buffers, 2)]]

Init ==
  /\ commit_pos = NewWatch(0)
  /\ consume_pos = NewWatch(0)
  /\ memory = [a \in Ring \cup Tmp |-> 0]
  /\ pc = [t \in Threads |-> "idle"]
  /\ call = [t \in Threads |-> NoCall]

Goto(t, l) == pc' = [pc EXCEPT ![t] = l] /\ UNCHANGED call
GotoWith(t, l, c) == pc' = [pc EXCEPT ![t] = l] /\ call' = [call EXCEPT ![t] = c]
Return(t) == GotoWith(t, "idle", NoCall)
Learn(t, n, l) == GotoWith(t, l, [call[t] EXCEPT !.seen = n])

size == commit_pos.value - consume_pos.value
space == capacity - size

-----------------------------------------------------------------------------
(* pre_transfer, by the writer (fixed_pos is commit_pos_, moving_pos is    *)
(* consume_pos_) or by the reader (the other way round).                   *)

fixed_pos(t) == IF t = Writer THEN commit_pos ELSE consume_pos
moving_pos(t) == IF t = Writer THEN consume_pos ELSE commit_pos

\* The new state of moving_pos is w.
MovingBecomes(t, w) ==
  IF t = Writer THEN consume_pos' = w /\ UNCHANGED commit_pos
                ELSE commit_pos' = w /\ UNCHANGED consume_pos

min_delta_KeepsOneFree(t) ==
  IF t = Writer THEN call[t].count - capacity + 1 ELSE call[t].count
min_delta_OneShort(t) ==
  IF t = Writer THEN call[t].count - capacity - 1 ELSE call[t].count
min_delta_OneMore(t) ==
  IF t = Writer THEN call[t].count - capacity ELSE call[t].count + 1
min_delta(t) ==
  IF t = Writer THEN call[t].count - capacity ELSE call[t].count
min_target(t) == fixed_pos(t).value + min_delta(t)

IsAsync(t) == call[t].op \in {"async_prepare_at_least", "async_write_some"}

\* A count above the capacity is kInvalidArgument and changes nothing.
Begin(t, op, n, rest) ==
  /\ pc[t] = "idle"
  /\ n <= capacity
  /\ GotoWith(t, "load", CallOf(op, n, rest))
  /\ UNCHANGED <<positions, memory>>

\* await_true, or the first look without waiting, reads the position.
Load(t) ==
  /\ pc[t] = "load"
  /\ Learn(t, moving_pos(t).value, "test")
  /\ UNCHANGED <<positions, memory>>

Test(t) ==
  /\ pc[t] = "test"
  /\ Goto(t, IF call[t].seen >= min_target(t) THEN "buffers" ELSE "await")
  /\ UNCHANGED <<positions, memory>>

\* The outcome r of the wait.  An asynchronous call begins anew after a
\* change and fails with broken_pipe otherwise; a blocking one tests the
\* position it is told, and looks again if the stream has ended.
Resume(t, r) ==
  IF r = kEndOfStream /\ ~IsAsync(t) THEN Goto(t, "again")
  ELSE IF r \in {kClosed, kEndOfStream} THEN Return(t)
  ELSE Learn(t, r, IF IsAsync(t) THEN "load" ELSE "test")

Await(t) ==
  LET r == FirstLook(moving_pos(t), call[t].seen) IN
  /\ pc[t] = "await"
  /\ IF r # None THEN Resume(t, r) ELSE Goto(t, "attach")
  /\ UNCHANGED <<positions, memory>>

Attach(t) ==
  LET r == SecondLook(moving_pos(t), call[t].seen) IN
  /\ pc[t] = "attach"
  /\ IF r # None
       THEN Resume(t, r) /\ UNCHANGED positions
       ELSE MovingBecomes(t, Registered(moving_pos(t), t)) /\ Goto(t, "blocked")
  /\ UNCHANGED memory

Wake(t) ==
  /\ pc[t] = "blocked"
  /\ moving_pos(t).outcome[t] # None
  /\ Resume(t, moving_pos(t).outcome[t])
  /\ MovingBecomes(t, Handled(moving_pos(t), t))
  /\ UNCHANGED memory

\* The stream has ended: is there enough in it all the same?
EnoughAtEnd_Never(t) == FALSE
EnoughAtEnd(t) == moving_pos(t).value >= min_target(t)

Again(t) ==
  /\ pc[t] = "again"
  /\ Goto(t, IF EnoughAtEnd(t) THEN "buffers" ELSE "eos")
  /\ UNCHANGED <<positions, memory>>

\* get_buffers: the part of the ring from offset on, in two pieces if it
\* goes past the end.
get_buffers_EndsEarly(offset, n) ==
  LET first == offset % capacity
      first_to_end == capacity - first - 1
  IN IF n <= first_to_end
       THEN <<[begin |-> first, size |-> n]>>
       ELSE <<[begin |-> first, size |-> first_to_end],
              [begin |-> 0, size |-> n - first_to_end]>>
get_buffers(offset, n) ==
  LET first == offset % capacity
      first_to_end == capacity - first
  IN IF n <= first_to_end
       THEN <<[begin |-> first, size |-> n]>>
       ELSE <<[begin |-> first, size |-> first_to_end],
              [begin |-> 0, size |-> n - first_to_end]>>

\* get_max_count
max_count(t) ==
  IF t = Reader THEN size
  ELSE IF call[t].op = "prepare_exactly" THEN call[t].count ELSE space

\* The cells that a sequence of buffers stands for, in order.
Cells(b) == [i \in 1..b.size |-> b.begin + i - 1]
CellsOf(buffers) == FlattenSeq([i \in DOMAIN buffers |-> Cells(buffers[i])])

-----------------------------------------------------------------------------
(* The writer, which does not write after it has closed its side.          *)

prepare(op, n) ==
  /\ op \in {"prepare_exactly", "prepare_at_least", "async_prepare_at_least"}
  /\ commit_pos.final = None
  /\ Begin(Writer, op, n, 0)

\* write_all and async_write_some prepare at least one byte.
write(op, n) ==
  /\ op \in {"write_all", "async_write_some"}
  /\ commit_pos.final = None
  /\ n \in 1..(MaxBytes - commit_pos.value)
  /\ Begin(Writer, op, 1, n)

Prepared ==
  /\ pc[Writer] = "buffers"
  /\ GotoWith(Writer, "fill",
       [call[Writer] EXCEPT !.seen = 0,
          !.buffers = get_buffers(commit_pos.value, max_count(Writer))])
  /\ UNCHANGED <<positions, memory>>

\* The next n bytes are copied to the prepared buffers: as many as fit, or as
\* the caller of prepare likes.
Fill(n) ==
  LET cells == CellsOf(call[Writer].buffers) IN
  /\ pc[Writer] = "fill"
  /\ n <= Len(cells) /\ commit_pos.value + n <= MaxBytes
  /\ call[Writer].op \in {"write_all", "async_write_some"} =>
       n = Min({Len(cells), call[Writer].left})
  /\ memory' = [a \in DOMAIN memory |->
                  IF \E i \in 1..n : cells[i] = a
                    THEN commit_pos.value + (CHOOSE i \in 1..n : cells[i] = a)
                    ELSE memory[a]]
  /\ GotoWith(Writer, "commit", [call[Writer] EXCEPT !.seen = n])
  /\ UNCHANGED positions

\* commit: fetch_add, and the notification of the watch.
commit ==
  LET n == call[Writer].seen IN
  /\ pc[Writer] = "commit"
  /\ commit_pos' = Changed(commit_pos, Writer, commit_pos.value + n)
  /\ IF n > 0
       THEN GotoWith(Writer, "notify",
              [call[Writer] EXCEPT !.left = Max({0, @ - n}), !.seen = 0,
                                   !.buffers = <<>>])
       ELSE Return(Writer)
  /\ UNCHANGED <<consume_pos, memory>>

\* write_all goes on until everything is written.
NextRound(c) == c.op = "write_all" /\ c.left > 0

CommitNotify ==
  /\ pc[Writer] = "notify"
  /\ commit_pos' = Notified(commit_pos, Writer)
  /\ IF NextRound(call[Writer]) THEN Goto(Writer, "load") ELSE Return(Writer)
  /\ UNCHANGED <<consume_pos, memory>>

close_for_write ==
  /\ pc[Writer] = "idle"
  /\ commit_pos.final = None
  /\ commit_pos' = Closed(commit_pos, kEndOfStream)
  /\ UNCHANGED <<consume_pos, memory, pc, call>>

\* close: close_for_read, then close_for_write.
close ==
  /\ pc[Writer] = "idle"
  /\ commit_pos.final = None
  /\ consume_pos' = Closed(consume_pos, kClosed)
  /\ GotoWith(Writer, "close", CallOf("close", 0, 0))
  /\ UNCHANGED <<commit_pos, memory>>

CloseWrite ==
  /\ pc[Writer] = "close"
  /\ commit_pos' = Closed(commit_pos, kEndOfStream)
  /\ Return(Writer)
  /\ UNCHANGED <<consume_pos, memory>>

-----------------------------------------------------------------------------
(* The reader.                                                             *)

fetch_at_least(n) == Begin(Reader, "fetch_at_least", n, 0)

\* The first buffer is made to hold at least min_count bytes: they are copied
\* to tmp_buffer_, and the second buffer keeps the rest.
TooShort_Never(bs, n) == FALSE
TooShort(bs, n) == Len(bs) > 1 /\ bs[1].size < n

Fetched ==
  LET bs == get_buffers(consume_pos.value, max_count(Reader))
      n == call[Reader].count
      cells == CellsOf(bs)
      used == n - bs[1].size
      front == [begin |-> capacity, size |-> n]
      back == [begin |-> bs[2].begin + used, size |-> bs[2].size - used]
  IN
  /\ pc[Reader] = "buffers"
  /\ IF TooShort(bs, n)
       THEN /\ memory' = [a \in DOMAIN memory |->
                            IF a \in capacity..(capacity + n - 1)
                              THEN memory[cells[a - capacity + 1]]
                              ELSE memory[a]]
            /\ GotoWith(Reader, "hold",
                 [call[Reader] EXCEPT !.seen = 0,
                    !.buffers = IF back.size = 0 THEN <<front>> ELSE <<front, back>>])
       ELSE /\ GotoWith(Reader, "hold",
                 [call[Reader] EXCEPT !.seen = 0, !.buffers = bs])
            /\ UNCHANGED memory
  /\ UNCHANGED positions

\* The caller has used the buffers; consume: fetch_add, and the notification.
consume(n) ==
  /\ pc[Reader] = "hold"
  /\ n <= Len(CellsOf(call[Reader].buffers))
  /\ consume_pos' = Changed(consume_pos, Reader, consume_pos.value + n)
  /\ IF n > 0
       THEN GotoWith(Reader, "notify", [call[Reader] EXCEPT !.buffers = <<>>])
       ELSE Return(Reader)
  /\ UNCHANGED <<commit_pos, memory>>

ConsumeNotify ==
  /\ pc[Reader] = "notify"
  /\ consume_pos' = Notified(consume_pos, Reader)
  /\ Return(Reader)
  /\ UNCHANGED <<commit_pos, memory>>

\* fetch_at_least returns kEndOfStream.
EndReturn ==
  /\ pc[Reader] = "eos"
  /\ Return(Reader)
  /\ UNCHANGED <<positions, memory>>

close_for_read ==
  /\ pc[Reader] = "idle"
  /\ consume_pos.final = None
  /\ consume_pos' = Closed(consume_pos, kClosed)
  /\ UNCHANGED <<commit_pos, memory, pc, call>>

-----------------------------------------------------------------------------
Start ==
  \/ \E op \in Operations, n \in 0..capacity : prepare(op, n)
  \/ \E op \in Operations, n \in 1..MaxBytes : write(op, n)
  \/ \E n \in 0..capacity : fetch_at_least(n)
  \/ close_for_write \/ close \/ close_for_read

\* What a side does once it has begun; the caller of prepare or fetch gets
\* round to using the buffers.
Continue(t) ==
  \/ Load(t) \/ Test(t) \/ Await(t) \/ Attach(t) \/ Wake(t) \/ Again(t)
  \/ t = Writer /\ (\/ Prepared \/ commit \/ CommitNotify \/ CloseWrite
                    \/ \E n \in 0..MaxBytes : Fill(n))
  \/ t = Reader /\ (\/ Fetched \/ ConsumeNotify \/ EndReturn
                    \/ \E n \in 0..MaxBytes : consume(n))

Next == Start \/ \E t \in Threads : Continue(t)

Spec == Init /\ [][Next]_vars
FairSpec == Spec /\ \A t \in Threads : WF_vars(Continue(t))

-----------------------------------------------------------------------------
(* Properties.                                                             *)

\* The data of the buffers that a side holds.
DataOf(t) ==
  LET cells == CellsOf(call[t].buffers) IN [i \in DOMAIN cells |-> memory[cells[i]]]

\* What fetch_at_least returns is the next part of the stream, byte for byte
\* and up to date, wherever it wraps, whatever part of it was copied to
\* tmp_buffer_, and however much the writer writes meanwhile.
ReadsTheStream ==
  pc[Reader] = "hold" =>
    \A i \in DOMAIN DataOf(Reader) : DataOf(Reader)[i] = consume_pos.value + i

\* "Guarantee that the first buffer contains at least min_count bytes."
FirstBufferHolds ==
  pc[Reader] = "hold" => call[Reader].buffers[1].size >= call[Reader].count

\* The writer is never given cells that hold bytes not consumed yet: the
\* plain memory accesses of the two sides do not overlap.
NoOverlap ==
  pc[Writer] \in {"fill", "commit"} =>
    \A i \in consume_pos.value..(commit_pos.value - 1) :
      i % capacity \notin Range(CellsOf(call[Writer].buffers))

\* The state is well-formed: the positions are never more than the capacity
\* apart, and the buffers handed out do not overlap.
StreamBufferInv == TypeOK /\ size \in 0..capacity /\ NoOverlap

\* The end of the stream is reported only when the bytes committed before it
\* do not satisfy the request.
NoEarlyEnd ==
  pc[Reader] = "eos" =>
    commit_pos.final = kEndOfStream /\ size < call[Reader].count

\* The reader is given the stream, all of it, and enough of it at a time, in
\* memory that the writer does not touch.
StreamKept == StreamBufferInv /\ ReadsTheStream /\ FirstBufferHolds /\ NoEarlyEnd

Waiting(t) == pc[t] \in {"load", "test", "await", "attach", "blocked", "again"}

\* A reader gets its answer once there is enough data or the writer has
\* closed its side.
ReaderReleased ==
  (Waiting(Reader) /\ (size >= call[Reader].count \/ commit_pos.final # None))
  ~> ~Waiting(Reader)

\* A writer gets its answer once there is enough space or the reader has
\* closed its side.
WriterReleased ==
  (Waiting(Writer) /\ (space >= call[Writer].count \/ consume_pos.final # None))
  ~> ~Waiting(Writer)

\* Neither side waits for what is there, or for a side that has closed.
SidesReleased == ReaderReleased /\ WriterReleased
=============================================================================
