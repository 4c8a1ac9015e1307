------------------------------ MODULE Channel ------------------------------
(***************************************************************************)
(* batt::Channel<T> (async/channel.hpp): hands objects from one writer to  *)
(* one reader by reference.  write publishes a pointer and raises          *)
(* write_count_, then waits until read_count_ has caught up; read waits    *)
(* until write_count_ is ahead of read_count_ and returns the object;      *)
(* consume gives it back by raising read_count_.  The counts are watches   *)
(* (see Watches), so a wakeup may belong to a change that is already past. *)
(*                                                                         *)
(* The objects are the numbers of the writes; 0 is the null pointer.  The  *)
(* writer and the reader each use the blocking or the async_ form of their *)
(* call; close_for_read and close_for_write may come from anywhere.        *)
(***************************************************************************)
EXTENDS Integers, Watches

CONSTANTS
  Writer, Reader,
  MaxWrites,        \* how many writes there are
  kClosed           \* StatusCode

ASSUME ChannelConstants ==
  /\ Threads = {Writer, Reader} /\ Writer # Reader /\ MaxWrites \in Nat
  /\ None # kClosed /\ {None, kClosed} \cap (0..MaxWrites) = {}

VARIABLES
  read_count, write_count,    \* read_count_, write_count_
  value,                      \* value_
  pc,                         \* where the writer and the reader are
  mode,                       \* which form of the call each executes
  seen,                       \* the count each compares with
  target                      \* target in write and async_write

vars == <<read_count, write_count, value, pc, mode, seen, target>>

Modes == {"none", "blocking", "async", "destroy"}

\* A failed BATT_CHECK ends in a panic: panic_active is the one on
\* is_active(), panic_target the one on last_seen + 1 in async_write,
\* panic_count the one on the count that a wait returned; crash is the use of
\* a null value_.  gone: the channel has been destroyed.
Panics == {"panic_active", "panic_target", "panic_count", "crash"}
Labels == {"idle", "value", "raise", "notify", "load", "test", "await",
           "attach", "blocked", "done", "failed", "deref", "hold", "release",
           "gone"} \cup Panics

TypeOK ==
  /\ read_count \in WatchOf(0..MaxWrites, {kClosed})
  /\ write_count \in WatchOf(0..MaxWrites, {kClosed})
  /\ value \in 0..MaxWrites
  /\ pc \in [Threads -> Labels]
  /\ mode \in [Threads -> Modes]
  /\ seen \in [Threads -> 0..MaxWrites]
  /\ target \in 0..MaxWrites

Init ==
  /\ read_count = NewWatch(0)
  /\ write_count = NewWatch(0)
  /\ value = 0
  /\ pc = [t \in Threads |-> "idle"]
  /\ mode = [t \in Threads |-> "none"]
  /\ seen = [t \in Threads |-> 0]
  /\ target = 0

Goto(t, l) == pc' = [pc EXCEPT ![t] = l]
Return(t, l) == Goto(t, l) /\ mode' = [mode EXCEPT ![t] = "none"]
Learn(t, n, l) == Goto(t, l) /\ seen' = [seen EXCEPT ![t] = n]

\* is_active
IsActive_TwoAhead == write_count.value - read_count.value > 1
IsActive == write_count.value - read_count.value > 0

\* fetch_add(1)
Raised_Not(w, t) == [w EXCEPT !.value = @ + 1]
Raised(w, t) == Changed(w, t, w.value + 1)

-----------------------------------------------------------------------------
(* The writer: write and async_write.                                      *)

\* BATT_CHECK(!is_active()), then the test for closed.
WriteBegin(m) ==
  /\ pc[Writer] = "idle"
  /\ write_count.value < MaxWrites
  /\ IF IsActive THEN Goto(Writer, "panic_active") /\ UNCHANGED mode
     ELSE IF write_count.final # None THEN UNCHANGED <<pc, mode>>
     ELSE Goto(Writer, "value") /\ mode' = [mode EXCEPT ![Writer] = m]
  /\ UNCHANGED <<read_count, write_count, value, seen, target>>

\* value_ = &value; async_write also looks at the read count here.
WriteValue ==
  /\ pc[Writer] = "value"
  /\ value' = write_count.value + 1
  /\ Learn(Writer, read_count.value, "raise")
  /\ UNCHANGED <<read_count, write_count, mode, target>>

\* write_count_.fetch_add(1), and its notification.
WriteRaise ==
  /\ pc[Writer] = "raise"
  /\ write_count' = Raised(write_count, Writer)
  /\ target' = write_count.value + 1
  /\ Goto(Writer, "notify")
  /\ UNCHANGED <<read_count, value, mode, seen>>

\* After it, BATT_CHECK_EQ(last_seen + 1, target) in async_write.
WriteNotify ==
  /\ pc[Writer] = "notify"
  /\ write_count' = Notified(write_count, Writer)
  /\ Goto(Writer, IF mode[Writer] # "async" THEN "load"
                  ELSE IF seen[Writer] + 1 = target THEN "await" ELSE "panic_target")
  /\ UNCHANGED <<read_count, value, mode, seen, target>>

\* write: await_equal(target) reads the count, tests it and waits again.
WriteLoad ==
  /\ pc[Writer] = "load"
  /\ Learn(Writer, read_count.value, "test")
  /\ UNCHANGED <<read_count, write_count, value, mode, target>>

WriteTest ==
  /\ pc[Writer] = "test"
  /\ IF seen[Writer] = target
       THEN Return(Writer, IF mode[Writer] = "destroy" THEN "gone" ELSE "done")
       ELSE Goto(Writer, "await") /\ UNCHANGED mode
  /\ UNCHANGED <<read_count, write_count, value, seen, target>>

\* The BATT_CHECK_EQ in the handler of async_write.
CountAccepted_Any(r) == TRUE
CountAccepted(r) == r = target

\* The outcome r of the wait.  write goes on with its loop, or returns the
\* error; the handler of async_write checks the count, clears value_ and
\* reports; the destructor ignores errors.
WriteResume(r) ==
  \/ /\ mode[Writer] = "async"
     /\ r = kClosed \/ CountAccepted(r)
     /\ value' = 0
     /\ Return(Writer, IF r = kClosed THEN "failed" ELSE "done")
     /\ UNCHANGED seen
  \/ /\ mode[Writer] = "async"
     /\ r # kClosed /\ ~CountAccepted(r)
     /\ Return(Writer, "panic_count")
     /\ UNCHANGED <<value, seen>>
  \/ /\ mode[Writer] \in {"blocking", "destroy"}
     /\ r = kClosed
     /\ Return(Writer, IF mode[Writer] = "destroy" THEN "gone" ELSE "failed")
     /\ UNCHANGED <<value, seen>>
  \/ /\ mode[Writer] \in {"blocking", "destroy"}
     /\ r # kClosed
     /\ Learn(Writer, r, "test")
     /\ UNCHANGED <<value, mode>>

WriteAwait ==
  LET r == FirstLook(read_count, seen[Writer]) IN
  /\ pc[Writer] = "await"
  /\ IF r # None THEN WriteResume(r)
                 ELSE Goto(Writer, "attach") /\ UNCHANGED <<mode, value, seen>>
  /\ UNCHANGED <<read_count, write_count, target>>

WriteAttach ==
  LET r == SecondLook(read_count, seen[Writer]) IN
  /\ pc[Writer] = "attach"
  /\ IF r # None
       THEN WriteResume(r) /\ UNCHANGED read_count
       ELSE /\ read_count' = Registered(read_count, Writer)
            /\ Goto(Writer, "blocked") /\ UNCHANGED <<mode, value, seen>>
  /\ UNCHANGED <<write_count, target>>

WriteWake ==
  /\ pc[Writer] = "blocked"
  /\ read_count.outcome[Writer] # None
  /\ WriteResume(read_count.outcome[Writer])
  /\ read_count' = Handled(read_count, Writer)
  /\ UNCHANGED <<write_count, target>>

\* The caller of write takes its object back, and may write the next one, or
\* try again after an error.
WriteReturn ==
  /\ pc[Writer] \in {"done", "failed"}
  /\ Goto(Writer, "idle")
  /\ UNCHANGED <<read_count, write_count, value, mode, seen, target>>

-----------------------------------------------------------------------------
(* The reader: read, async_read and consume.                               *)

\* async_read fails at once if the channel is closed for reading.  read
\* fetches only the read count, async_read both.
ReadBegin(m) ==
  /\ pc[Reader] = "idle"
  /\ m = "async" => read_count.final = None
  /\ mode' = [mode EXCEPT ![Reader] = m]
  /\ IF m = "blocking"
       THEN Learn(Reader, read_count.value, "await")
       ELSE Learn(Reader, write_count.value,
                  IF IsActive THEN "deref" ELSE "await")
  /\ UNCHANGED <<read_count, write_count, value, target>>

\* The outcome r of the wait for the write count.  async_read checks that the
\* count is ahead of the read count.
ReadResume(r) ==
  IF r = kClosed THEN Return(Reader, "idle")
  ELSE IF mode[Reader] = "async" /\ ~(r > read_count.value)
         THEN Return(Reader, "panic_count")
         ELSE Goto(Reader, "deref") /\ UNCHANGED mode

ReadAwait ==
  LET r == FirstLook(write_count, seen[Reader]) IN
  /\ pc[Reader] = "await"
  /\ IF r # None THEN ReadResume(r) ELSE Goto(Reader, "attach") /\ UNCHANGED mode
  /\ UNCHANGED <<read_count, write_count, value, seen, target>>

ReadAttach ==
  LET r == SecondLook(write_count, seen[Reader]) IN
  /\ pc[Reader] = "attach"
  /\ IF r # None
       THEN ReadResume(r) /\ UNCHANGED write_count
       ELSE /\ write_count' = Registered(write_count, Reader)
            /\ Goto(Reader, "blocked") /\ UNCHANGED mode
  /\ UNCHANGED <<read_count, value, seen, target>>

ReadWake ==
  /\ pc[Reader] = "blocked"
  /\ write_count.outcome[Reader] # None
  /\ ReadResume(write_count.outcome[Reader])
  /\ write_count' = Handled(write_count, Reader)
  /\ UNCHANGED <<read_count, value, seen, target>>

\* *this->value_: the reader has the object, unless the pointer is null.
ReadDeref ==
  /\ pc[Reader] = "deref"
  /\ Return(Reader, IF value = 0 THEN "crash" ELSE "hold")
  /\ seen' = [seen EXCEPT ![Reader] = value]
  /\ UNCHANGED <<read_count, write_count, value, target>>

\* consume: BATT_CHECK(is_active()), value_ = nullptr, then the read count is
\* raised and announced.
Cleared_Not(v) == v
Cleared(v) == 0

Consume ==
  /\ pc[Reader] = "hold"
  /\ IF IsActive THEN Goto(Reader, "release") /\ value' = Cleared(value)
                 ELSE Goto(Reader, "panic_active") /\ UNCHANGED value
  /\ UNCHANGED <<read_count, write_count, mode, seen, target>>

ConsumeRaise ==
  /\ pc[Reader] = "release"
  /\ read_count' = Raised(read_count, Reader)
  /\ Goto(Reader, "notify")
  /\ UNCHANGED <<write_count, value, mode, seen, target>>

ConsumeNotify ==
  /\ pc[Reader] = "notify"
  /\ read_count' = Notified(read_count, Reader)
  /\ Goto(Reader, "idle")
  /\ UNCHANGED <<write_count, value, mode, seen, target>>

-----------------------------------------------------------------------------
close_for_read ==
  /\ read_count.final = None
  /\ read_count' = Closed(read_count, kClosed)
  /\ UNCHANGED <<write_count, value, pc, mode, seen, target>>

close_for_write ==
  /\ write_count.final = None
  /\ write_count' = Closed(write_count, kClosed)
  /\ UNCHANGED <<read_count, value, pc, mode, seen, target>>

\* ~Channel, by the writer: close_for_write, then await_equal on the read count.
Destroy ==
  /\ pc[Writer] = "idle"
  /\ write_count' = Closed(write_count, kClosed)
  /\ mode' = [mode EXCEPT ![Writer] = "destroy"]
  /\ target' = write_count.value
  /\ Goto(Writer, "load")
  /\ UNCHANGED <<read_count, value, seen>>

WriterStep ==
  \/ WriteValue \/ WriteRaise \/ WriteNotify \/ WriteLoad \/ WriteTest
  \/ WriteAwait \/ WriteAttach \/ WriteWake \/ WriteReturn

ReaderStep ==
  \/ ReadAwait \/ ReadAttach \/ ReadWake \/ ReadDeref
  \/ ConsumeRaise \/ ConsumeNotify

Next ==
  \/ \E m \in {"blocking", "async"} : WriteBegin(m) \/ ReadBegin(m)
  \/ WriterStep \/ ReaderStep \/ Consume
  \/ close_for_read \/ close_for_write \/ Destroy

Spec == Init /\ [][Next]_vars

\* A call that has begun keeps going.
FairSpec == Spec /\ WF_vars(WriterStep) /\ WF_vars(ReaderStep)

-----------------------------------------------------------------------------
(* Properties.                                                             *)

\* At most one object is under way.
OneInFlight == write_count.value - read_count.value \in 0..1

\* The reader gets every object once and in order: what it holds is the
\* object after the last one it has consumed.
ReadsInOrder == pc[Reader] = "hold" => seen[Reader] = read_count.value + 1

\* The labels of a write whose object is on offer.
Offering == {"notify", "load", "test", "await", "attach", "blocked", "panic_count"}

\* The object of the write or async_write that has not returned.
Lent == IF pc[Writer] = "raise" THEN write_count.value + 1
        ELSE IF pc[Writer] \in Offering THEN target ELSE 0

\* The object the reader holds is alive, until the reading side is closed: its
\* writer has not returned from the write.
ObjectLives ==
  pc[Reader] = "hold" /\ read_count.final = None => Lent = seen[Reader]

\* "The referred object will stay valid until Channel::consume is called": not
\* after close_for_read, which ends the write though its object is being read.
ObjectStays == pc[Reader] = "hold" => Lent = seen[Reader]

\* A successful write has been consumed.
WriteMeansConsumed == pc[Writer] = "done" => read_count.value = target

\* The writer and the reader take turns: a new object is only offered when the
\* last one has been given back, and only what was offered is given back.  The
\* count that async_write reads before it raises the other is one short of its
\* target.
TakeTurns ==
  /\ pc[Writer] \in {"value", "raise"} =>
       write_count.value = read_count.value /\ write_count.value < MaxWrites
  /\ pc[Writer] \in Offering \cup {"done"} => target = write_count.value
  /\ pc[Reader] = "release" =>
       write_count.value = read_count.value + 1 /\ value = 0
  /\ pc[Writer] = "raise" => seen[Writer] = write_count.value
  /\ pc[Writer] = "notify" => seen[Writer] + 1 = target
  /\ pc[Writer] # "panic_target"

\* Whatever the writer has heard of the read count was once so, however late
\* it hears of it, and it is only told of a close that has happened.
HeardIsPast ==
  /\ seen[Writer] <= read_count.value
  /\ \A t \in Threads : read_count.notice[t] \in (0..read_count.value) \cup {None}
  /\ read_count.outcome[Writer] \in (0..read_count.value) \cup {None, kClosed}
  /\ read_count.outcome[Writer] = kClosed => read_count.final # None

\* The pointer is null, or the next object to be read, which is lent while the
\* reading side is open.
PointsToNext ==
  /\ value \in {0, read_count.value + 1}
  /\ value # 0 /\ read_count.final = None => Lent = value
  /\ pc[Reader] = "hold" /\ read_count.final = None => value = seen[Reader]

\* The inductive invariant: the state of a channel is well-formed, its counts
\* are one apart at most, and the objects go to and fro as above, whatever
\* fails or is closed in between.
ChannelInv ==
  /\ TypeOK /\ OneInFlight
  /\ TakeTurns /\ HeardIsPast /\ PointsToNext /\ ReadsInOrder /\ WriteMeansConsumed

\* An object is handed over once, in order, and alive unless the reading side is
\* closed; it is given back before its write succeeds.
HandsOver == ChannelInv /\ ObjectLives

\* Nobody waits for what has happened: a writer whose object is consumed, a
\* reader with an object to read, and anybody whose side is closed, goes on.
WriterOwed == pc[Writer] = "blocked" /\ (read_count.value = target \/ read_count.final # None)
ReaderOwed == pc[Reader] = "blocked" /\ (IsActive \/ write_count.final # None)
NobodyStranded ==
  /\ WriterOwed ~> pc[Writer] # "blocked"
  /\ ReaderOwed ~> pc[Reader] # "blocked"

\* "Wait for an object to be written to the Channel, then return a reference
\* to that object" (read): while the channel is open for reading it does not
\* return a null reference.
ReadDoc == read_count.final = None => pc[Reader] # "crash"
=============================================================================
