--------------------------- MODULE ChannelProofs ---------------------------
(* The inductive invariant of Channel and what follows from it, for any    *)
(* number of writes.                                                       *)
EXTENDS Channel, WatchFacts

Watch == WatchOf(0..MaxWrites, {kClosed})

\* The counts and what is announced of them are in range.
LEMMA CountTypes ==
  ASSUME NEW w \in Watch
  PROVE  /\ w.value \in 0..MaxWrites /\ w.final \in {kClosed, None}
         /\ \A t \in Threads : w.outcome[t] \in (0..MaxWrites) \cup {kClosed, None}
         /\ \A t \in Threads : w.notice[t] \in (0..MaxWrites) \cup {None}
BY Zenon DEF Watch, WatchOf

\* The two looks of a waiter find a count or the close, or nothing.
LEMMA LooksFind ==
  ASSUME NEW w \in Watch, NEW n \in 0..MaxWrites
  PROVE  /\ FirstLook(w, n) # None => FirstLook(w, n) = w.value
         /\ SecondLook(w, n) # None =>
              \/ SecondLook(w, n) = w.value
              \/ SecondLook(w, n) = kClosed /\ w.final # None
BY CountTypes, Zenon DEF FirstLook, SecondLook

-----------------------------------------------------------------------------
(* The writer.                                                             *)

\* What is left of the invariant when the counts stay as they are.
LEMMA WriterLocal ==
  ASSUME ChannelInv,
         \/ \E m \in {"blocking", "async"} : WriteBegin(m)
         \/ WriteValue \/ WriteLoad \/ WriteTest \/ WriteReturn
  PROVE  ChannelInv'
<1>0. /\ Writer \in Threads /\ Reader \in Threads /\ Writer # Reader /\ MaxWrites \in Nat
      /\ UNCHANGED <<read_count, write_count>>
  BY ChannelConstants, Zenon DEF WriteBegin, WriteValue, WriteLoad, WriteTest, WriteReturn
<1>1. /\ read_count.value \in 0..MaxWrites /\ write_count.value \in 0..MaxWrites
      /\ read_count.final \in {kClosed, None}
  BY CountTypes, Zenon DEF ChannelInv, TypeOK, Watch
<1> USE <1>0, <1>1
<1> USE DEF ChannelInv, TypeOK, OneInFlight, TakeTurns, HeardIsPast, PointsToNext,
            ReadsInOrder, WriteMeansConsumed, Lent, Offering
<1>2. CASE \E m \in {"blocking", "async"} : WriteBegin(m)
  <2>1. /\ pc[Writer] = "idle" /\ UNCHANGED <<value, seen, target>>
        /\ \/ pc' = [pc EXCEPT ![Writer] = "panic_active"] /\ UNCHANGED mode
           \/ UNCHANGED <<pc, mode>>
           \/ /\ write_count.value < MaxWrites /\ ~IsActive
              /\ pc' = [pc EXCEPT ![Writer] = "value"]
              /\ \E m \in Modes : mode' = [mode EXCEPT ![Writer] = m]
    BY <1>2, Zenon DEF WriteBegin, Goto, Modes
  <2>2. ~IsActive => write_count.value = read_count.value
    BY DEF IsActive
  <2>3. TypeOK'
    BY <2>1 DEF Labels, Panics
  <2> QED BY <2>1, <2>2, <2>3, ZenonT(30)
<1>3. CASE WriteValue
  BY <1>3, SMTT(30) DEF WriteValue, Learn, Goto, Labels
<1>4. CASE WriteLoad
  BY <1>4 DEF WriteLoad, Learn, Goto, Labels
<1>5. CASE WriteTest
  <2>1. /\ pc[Writer] = "test" /\ UNCHANGED <<value, seen, target>>
        /\ \/ /\ seen[Writer] = target /\ mode' = [mode EXCEPT ![Writer] = "none"]
              /\ pc' = [pc EXCEPT ![Writer] = "gone"] \/ pc' = [pc EXCEPT ![Writer] = "done"]
           \/ pc' = [pc EXCEPT ![Writer] = "await"] /\ UNCHANGED mode
    BY <1>5, Zenon DEF WriteTest, Return, Goto
  <2>2. TypeOK'
    BY <2>1 DEF Labels, Modes
  <2> QED BY <2>1, <2>2, SMTT(30)
<1>6. CASE WriteReturn
  BY <1>6 DEF WriteReturn, Goto, Labels
<1> QED BY <1>2, <1>3, <1>4, <1>5, <1>6, Zenon

\* The end of a wait of the writer, with a count that was once so or with the
\* close.
LEMMA ResumeKeeps ==
  ASSUME ChannelInv, pc[Writer] \in {"await", "attach", "blocked"},
         NEW r \in (0..read_count.value) \cup {kClosed},
         r = kClosed => read_count.final # None,
         WriteResume(r), UNCHANGED <<write_count, target>>,
         read_count' \in Watch, read_count'.value = read_count.value,
         read_count'.final = read_count.final, read_count'.notice = read_count.notice,
         read_count'.outcome[Writer] \in {read_count.outcome[Writer], None}
  PROVE  ChannelInv'
<1>0. /\ Writer \in Threads /\ Reader \in Threads /\ Writer # Reader /\ MaxWrites \in Nat
      /\ None # kClosed /\ kClosed \notin 0..MaxWrites
  BY ChannelConstants, Zenon
<1>1. /\ read_count.value \in 0..MaxWrites /\ write_count.value \in 0..MaxWrites
      /\ read_count.final \in {kClosed, None}
  BY CountTypes, Zenon DEF ChannelInv, TypeOK, Watch
<1>2. /\ TypeOK'
      /\ pc'[Reader] = pc[Reader] /\ seen'[Reader] = seen[Reader]
      /\ seen'[Writer] \in {seen[Writer], r}
      /\ \/ /\ pc'[Writer] = "done" /\ value' = 0 /\ r = target
         \/ pc'[Writer] \in {"failed", "gone"} /\ r = kClosed /\ value' \in {0, value}
         \/ pc'[Writer] \in {"panic_count", "test"} /\ value' = value
      /\ pc'[Writer] = "test" => r # kClosed
      /\ pc'[Writer] # "test" => seen' = seen
  <2> USE <1>0, <1>1 DEF ChannelInv, TypeOK, Return, Learn, Goto, Labels, Modes, Panics, Watch
  <2>1. CASE /\ mode[Writer] = "async" /\ (r = kClosed \/ CountAccepted(r))
             /\ value' = 0 /\ Return(Writer, IF r = kClosed THEN "failed" ELSE "done")
             /\ UNCHANGED seen
    <3>1. CASE r = kClosed
      BY <2>1, <3>1
    <3>2. CASE r # kClosed
      BY <2>1, <3>2 DEF CountAccepted
    <3> QED BY <3>1, <3>2, Zenon
  <2>2. CASE Return(Writer, "panic_count") /\ UNCHANGED <<value, seen>>
    BY <2>2, Zenon
  <2>3. CASE /\ r = kClosed
             /\ Return(Writer, IF mode[Writer] = "destroy" THEN "gone" ELSE "failed")
             /\ UNCHANGED <<value, seen>>
    BY <2>3, Zenon
  <2>4. CASE r # kClosed /\ Learn(Writer, r, "test") /\ UNCHANGED <<value, mode>>
    BY <2>4
  <2> QED BY <2>1, <2>2, <2>3, <2>4 DEF WriteResume
<1> USE <1>0, <1>1, <1>2
<1> USE DEF ChannelInv, OneInFlight, TakeTurns, HeardIsPast, PointsToNext,
            ReadsInOrder, WriteMeansConsumed, Lent, Offering
<1>3. OneInFlight' /\ TakeTurns'
  BY Zenon
<1>4. HeardIsPast'
  OBVIOUS
<1>5. WriteMeansConsumed' /\ ReadsInOrder'
  OBVIOUS
<1>6. PointsToNext'
  OBVIOUS
<1> QED BY <1>3, <1>4, <1>5, <1>6, Zenon

\* The writer waits for the read count: it looks, registers, and is woken.
LEMMA WriterWaits ==
  ASSUME ChannelInv, WriteAwait \/ WriteAttach \/ WriteWake
  PROVE  ChannelInv'
<1>0. /\ Writer \in Threads /\ Reader \in Threads /\ Writer # Reader /\ MaxWrites \in Nat
      /\ None # kClosed /\ {None, kClosed} \cap (0..MaxWrites) = {}
  BY ChannelConstants, Zenon
<1>1. /\ read_count \in Watch /\ seen[Writer] \in 0..MaxWrites
      /\ read_count.value \in 0..MaxWrites /\ write_count.value \in 0..MaxWrites
      /\ read_count.final \in {kClosed, None}
  BY <1>0, CountTypes, Zenon DEF ChannelInv, TypeOK, Watch
<1> DEFINE Past(r) == /\ r \in (0..read_count.value) \cup {kClosed}
                      /\ r = kClosed => read_count.final # None
\* Registered, or about to be.
<1>2. ASSUME pc[Writer] \in {"await", "attach"}, pc' = [pc EXCEPT ![Writer] = "attach"]
                                                 \/ pc' = [pc EXCEPT ![Writer] = "blocked"],
             UNCHANGED <<mode, value, seen, write_count, target>>,
             read_count' \in Watch, read_count'.value = read_count.value,
             read_count'.final = read_count.final, read_count'.notice = read_count.notice,
             read_count'.outcome = read_count.outcome
      PROVE  ChannelInv'
  BY <1>0, <1>1, <1>2 DEF ChannelInv, TypeOK, OneInFlight, TakeTurns, HeardIsPast, PointsToNext,
     ReadsInOrder, WriteMeansConsumed, Lent, Offering, Watch, Labels
<1>3. CASE WriteAwait
  <2> DEFINE r == FirstLook(read_count, seen[Writer])
  <2>1. r # None => r = read_count.value
    BY <1>1, LooksFind, Zenon
  <2>2. r # None => Past(r)
    BY <1>0, <1>1, <2>1
  <2>3. /\ pc[Writer] = "await" /\ UNCHANGED <<read_count, write_count, target>>
        /\ \/ r # None /\ WriteResume(r)
           \/ Goto(Writer, "attach") /\ UNCHANGED <<mode, value, seen>>
    BY <1>3, Zenon DEF WriteAwait
  <2> HIDE DEF r
  <2> QED BY <1>1, <1>2, <2>2, <2>3, ResumeKeeps, Zenon DEF Goto
<1>4. CASE WriteAttach
  <2> DEFINE r == SecondLook(read_count, seen[Writer])
  <2>1. r # None => r = read_count.value \/ (r = kClosed /\ read_count.final # None)
    BY <1>1, LooksFind, Zenon
  <2>2. r # None => Past(r)
    BY <1>0, <1>1, <2>1
  <2>3. /\ pc[Writer] = "attach" /\ UNCHANGED <<write_count, target>>
        /\ \/ r # None /\ WriteResume(r) /\ UNCHANGED read_count
           \/ /\ read_count' = Registered(read_count, Writer)
              /\ Goto(Writer, "blocked") /\ UNCHANGED <<mode, value, seen>>
    BY <1>4, Zenon DEF WriteAttach
  <2> HIDE DEF r
  <2>4. CASE r # None /\ WriteResume(r) /\ UNCHANGED read_count
    BY <1>1, <2>2, <2>3, <2>4, ResumeKeeps, Zenon
  <2>5. CASE /\ read_count' = Registered(read_count, Writer)
             /\ Goto(Writer, "blocked") /\ UNCHANGED <<mode, value, seen>>
    <3>1. /\ read_count' \in Watch /\ read_count'.value = read_count.value
          /\ read_count'.final = read_count.final /\ read_count'.notice = read_count.notice
          /\ read_count'.outcome = read_count.outcome
      BY <1>0, <1>1, <2>5, RegisteredWatch DEF Watch
    <3> QED BY <1>2, <2>3, <2>5, <3>1, Zenon DEF Goto
  <2> QED BY <2>3, <2>4, <2>5, Zenon
<1>5. CASE WriteWake
  <2> DEFINE r == read_count.outcome[Writer]
  <2>1. /\ r # None /\ WriteResume(r) /\ pc[Writer] = "blocked"
        /\ read_count' = Handled(read_count, Writer) /\ UNCHANGED <<write_count, target>>
    BY <1>5, Zenon DEF WriteWake
  <2>2. Past(r)
    BY <2>1, Zenon DEF ChannelInv, HeardIsPast
  <2>3. /\ read_count' \in Watch /\ read_count'.value = read_count.value
        /\ read_count'.final = read_count.final /\ read_count'.notice = read_count.notice
        /\ read_count'.outcome[Writer] = None
    BY <1>0, <1>1, <2>1, HandledWatch DEF Watch
  <2> HIDE DEF r
  <2> QED BY <2>1, <2>2, <2>3, ResumeKeeps, Zenon
<1> QED BY <1>3, <1>4, <1>5, Zenon

\* The write count is raised and announced, and the channel is closed for
\* writing or destroyed.
LEMMA WriteCountMoves ==
  ASSUME ChannelInv, WriteRaise \/ WriteNotify \/ close_for_write \/ Destroy
  PROVE  ChannelInv'
<1>0. /\ Writer \in Threads /\ Reader \in Threads /\ Writer # Reader /\ MaxWrites \in Nat
      /\ UNCHANGED <<read_count, value, seen>>
  BY ChannelConstants, Zenon DEF WriteRaise, WriteNotify, close_for_write, Destroy
<1>1. /\ write_count \in Watch
      /\ read_count.value \in 0..MaxWrites /\ write_count.value \in 0..MaxWrites
      /\ read_count.final \in {kClosed, None}
  BY <1>0, CountTypes, Zenon DEF ChannelInv, TypeOK, Watch
<1>2. CASE WriteRaise
  <2>1. write_count.value + 1 \in 0..MaxWrites
    BY <1>0, <1>1, <1>2 DEF WriteRaise, ChannelInv, TakeTurns
  <2>2. write_count' \in Watch /\ write_count'.value = write_count.value + 1
    BY <1>0, <1>1, <1>2, <2>1, ChangedWatch DEF WriteRaise, Raised, Watch
  <2> QED BY <1>0, <1>1, <1>2, <2>1, <2>2
    DEF WriteRaise, Goto, ChannelInv, TypeOK, OneInFlight, TakeTurns, HeardIsPast, PointsToNext,
        ReadsInOrder, WriteMeansConsumed, Lent, Offering, Watch, Labels
<1>3. CASE WriteNotify
  <2>1. write_count' \in Watch /\ write_count'.value = write_count.value
    BY <1>0, <1>1, <1>3, NotifiedWatch DEF WriteNotify, Watch
  <2>2. /\ pc[Writer] = "notify" /\ UNCHANGED <<mode, target>>
        /\ seen[Writer] + 1 = target
        /\ pc' = [pc EXCEPT ![Writer] = "await"] \/ pc' = [pc EXCEPT ![Writer] = "load"]
    BY <1>3, Zenon DEF WriteNotify, Goto, ChannelInv, TakeTurns
  <2> QED BY <1>0, <1>1, <2>1, <2>2, ZenonT(30)
    DEF ChannelInv, TypeOK, OneInFlight, TakeTurns, HeardIsPast, PointsToNext,
        ReadsInOrder, WriteMeansConsumed, Lent, Offering, Watch, Labels
<1>4. CASE close_for_write \/ Destroy
  <2>1. write_count' \in Watch /\ write_count'.value = write_count.value
    BY <1>0, <1>1, <1>4, ClosedWatch DEF close_for_write, Destroy, Watch
  <2>2. CASE close_for_write
    BY <1>0, <1>1, <2>1, <2>2, Zenon
    DEF close_for_write, ChannelInv, TypeOK, OneInFlight, TakeTurns, HeardIsPast, PointsToNext,
        ReadsInOrder, WriteMeansConsumed, Lent, Offering, Watch
  <2>3. CASE Destroy
    BY <1>0, <1>1, <2>1, <2>3
    DEF Destroy, Goto, ChannelInv, TypeOK, OneInFlight, TakeTurns, HeardIsPast, PointsToNext,
        ReadsInOrder, WriteMeansConsumed, Lent, Offering, Watch, Labels, Modes
  <2> QED BY <1>4, <2>2, <2>3, Zenon
<1> QED BY <1>2, <1>3, <1>4, Zenon

-----------------------------------------------------------------------------
(* The reader.                                                             *)

\* The reader begins, waits for the write count, gets the object and starts
\* to give it back; the read count stays as it is.
LEMMA ReaderLocal ==
  ASSUME ChannelInv,
         \/ \E m \in {"blocking", "async"} : ReadBegin(m)
         \/ ReadAwait \/ ReadAttach \/ ReadWake \/ ReadDeref \/ Consume
  PROVE  ChannelInv'
<1>0. /\ Writer \in Threads /\ Reader \in Threads /\ Writer # Reader /\ MaxWrites \in Nat
      /\ UNCHANGED <<read_count, target>>
  BY ChannelConstants, Zenon DEF ReadBegin, ReadAwait, ReadAttach, ReadWake, ReadDeref, Consume
<1>1. /\ write_count \in Watch
      /\ read_count.value \in 0..MaxWrites /\ write_count.value \in 0..MaxWrites
      /\ read_count.final \in {kClosed, None}
  BY <1>0, CountTypes, Zenon DEF ChannelInv, TypeOK, Watch
\* A step of the reader that ends neither with an object nor giving it back.
<1>2. ASSUME UNCHANGED value, write_count' \in Watch, write_count'.value = write_count.value,
             NEW l \in Labels \ {"hold", "release"}, pc' = [pc EXCEPT ![Reader] = l],
             NEW m \in Modes, mode' = [mode EXCEPT ![Reader] = m] \/ mode' = mode,
             NEW n \in 0..MaxWrites, seen' = [seen EXCEPT ![Reader] = n] \/ seen' = seen
      PROVE  ChannelInv'
  BY <1>0, <1>1, <1>2, ZenonT(30)
  DEF ChannelInv, TypeOK, OneInFlight, TakeTurns, HeardIsPast, PointsToNext,
      ReadsInOrder, WriteMeansConsumed, Lent, Offering, Watch
<1>3. ASSUME NEW m \in {"blocking", "async"}, ReadBegin(m)
      PROVE  ChannelInv'
  <2>1. /\ UNCHANGED <<value, write_count>>
        /\ \E l \in {"await", "deref"} : pc' = [pc EXCEPT ![Reader] = l]
        /\ mode' = [mode EXCEPT ![Reader] = m]
        /\ \E n \in 0..MaxWrites : seen' = [seen EXCEPT ![Reader] = n]
    BY <1>1, <1>3, Zenon DEF ReadBegin, Learn, Goto
  <2> QED BY <1>1, <1>2, <2>1, Zenon DEF Labels, Modes
<1>4. ASSUME NEW r, ReadResume(r)
      PROVE  /\ \E l \in {"idle", "panic_count", "deref"} : pc' = [pc EXCEPT ![Reader] = l]
             /\ mode' = [mode EXCEPT ![Reader] = "none"] \/ mode' = mode
  BY <1>4, Zenon DEF ReadResume, Return, Goto
<1>5. CASE ReadAwait \/ ReadAttach \/ ReadWake
  <2>1. write_count' \in Watch /\ write_count'.value = write_count.value
    <3>1. \/ write_count' = write_count
          \/ write_count' = Registered(write_count, Reader)
          \/ write_count' = Handled(write_count, Reader)
      BY <1>5, Zenon DEF ReadAwait, ReadAttach, ReadWake
    <3>2. Registered(write_count, Reader) \in Watch
          /\ Registered(write_count, Reader).value = write_count.value
      BY <1>0, <1>1, RegisteredWatch DEF Watch
    <3>3. Handled(write_count, Reader) \in Watch
          /\ Handled(write_count, Reader).value = write_count.value
      BY <1>0, <1>1, HandledWatch DEF Watch
    <3> QED BY <1>1, <3>1, <3>2, <3>3, Zenon
  <2>2. /\ UNCHANGED <<value, seen>>
        /\ \/ \E r : ReadResume(r)
           \/ UNCHANGED mode /\ \E l \in {"attach", "blocked"} : pc' = [pc EXCEPT ![Reader] = l]
    BY <1>5, Zenon DEF ReadAwait, ReadAttach, ReadWake, Goto
  <2>3. /\ \E l \in {"idle", "panic_count", "deref", "attach", "blocked"} :
             pc' = [pc EXCEPT ![Reader] = l]
        /\ mode' = [mode EXCEPT ![Reader] = "none"] \/ mode' = mode
    BY <1>4, <2>2, Zenon
  <2> QED BY <1>1, <1>2, <2>1, <2>2, <2>3, Zenon DEF Labels, Modes, Panics
<1>6. CASE ReadDeref
  BY <1>0, <1>1, <1>6, ZenonT(30)
  DEF ReadDeref, Return, Goto, ChannelInv, TypeOK, OneInFlight, TakeTurns, HeardIsPast,
      PointsToNext, ReadsInOrder, WriteMeansConsumed, Lent, Offering, Labels, Modes, Panics
<1>7. CASE Consume
  BY <1>0, <1>1, <1>7, SMTT(30)
  DEF Consume, Cleared, IsActive, Goto, ChannelInv, TypeOK, OneInFlight, TakeTurns, HeardIsPast,
      PointsToNext, ReadsInOrder, WriteMeansConsumed, Lent, Offering, Labels, Panics
<1> QED BY <1>3, <1>5, <1>6, <1>7, Zenon

\* The read count is raised and announced, and the channel is closed for
\* reading.
LEMMA ReadCountMoves ==
  ASSUME ChannelInv, ConsumeRaise \/ ConsumeNotify \/ close_for_read
  PROVE  ChannelInv'
<1>0. /\ Writer \in Threads /\ Reader \in Threads /\ Writer # Reader /\ MaxWrites \in Nat
      /\ None # kClosed /\ {None, kClosed} \cap (0..MaxWrites) = {}
      /\ UNCHANGED <<write_count, value, mode, seen, target>>
  BY ChannelConstants, Zenon DEF ConsumeRaise, ConsumeNotify, close_for_read
<1>1. /\ read_count \in Watch
      /\ read_count.value \in 0..MaxWrites /\ write_count.value \in 0..MaxWrites
      /\ read_count.final \in {kClosed, None}
  BY <1>0, CountTypes, Zenon DEF ChannelInv, TypeOK, Watch
<1>2. CASE ConsumeRaise
  <2> DEFINE n == read_count.value + 1
  <2>1. pc[Reader] = "release" /\ n \in 0..MaxWrites /\ n # read_count.value
        /\ read_count' = Changed(read_count, Reader, n) /\ pc' = [pc EXCEPT ![Reader] = "notify"]
    BY <1>0, <1>1, <1>2 DEF ConsumeRaise, Raised, Goto, ChannelInv, TakeTurns
  <2>2. /\ read_count' \in Watch /\ read_count'.value = n
        /\ read_count'.final = read_count.final /\ read_count'.outcome = read_count.outcome
        /\ read_count'.notice[Reader] = n /\ read_count'.notice[Writer] = read_count.notice[Writer]
    <3> HIDE DEF n
    <3> QED BY <1>0, <1>1, <2>1, ChangedWatch, SMTT(30) DEF Watch
  <2>3. HeardIsPast'
    BY <1>0, <1>1, <2>1, <2>2, ChannelConstants, SMTT(30) DEF ChannelInv, HeardIsPast, TypeOK
  <2> QED BY <1>0, <1>1, <2>1, <2>2, <2>3, SMTT(30)
    DEF ChannelInv, TypeOK, OneInFlight, TakeTurns, PointsToNext,
        ReadsInOrder, WriteMeansConsumed, Lent, Offering, Watch, Labels
<1>3. CASE ConsumeNotify
  <2>1. pc[Reader] = "notify" /\ pc' = [pc EXCEPT ![Reader] = "idle"]
    BY <1>3, Zenon DEF ConsumeNotify, Goto
  <2>2. /\ read_count' \in Watch /\ read_count'.value = read_count.value
        /\ read_count'.final = read_count.final /\ read_count'.notice[Reader] = None
        /\ read_count'.notice[Writer] = read_count.notice[Writer]
        /\ read_count'.outcome[Writer] \in {read_count.notice[Reader], read_count.outcome[Writer]}
    BY <1>0, <1>1, <1>3, NotifiedWatch DEF ConsumeNotify, Watch
  <2>3. HeardIsPast'
    BY <1>0, <1>1, <2>1, <2>2, ChannelConstants DEF ChannelInv, HeardIsPast
  <2> QED BY <1>0, <1>1, <2>1, <2>2, <2>3, Zenon
    DEF ChannelInv, TypeOK, OneInFlight, TakeTurns, PointsToNext,
        ReadsInOrder, WriteMeansConsumed, Lent, Offering, Watch, Labels
<1>4. CASE close_for_read
  <2>1. /\ read_count' \in Watch /\ read_count'.value = read_count.value
        /\ read_count'.final = kClosed /\ read_count'.notice = read_count.notice
        /\ read_count'.outcome[Writer] \in {kClosed, read_count.outcome[Writer]}
        /\ UNCHANGED pc
    BY <1>0, <1>1, <1>4, ClosedWatch DEF close_for_read, Watch
  <2> QED BY <1>0, <1>1, <2>1, Zenon
    DEF ChannelInv, TypeOK, OneInFlight, TakeTurns, HeardIsPast, PointsToNext,
        ReadsInOrder, WriteMeansConsumed, Lent, Offering, Watch
<1> QED BY <1>2, <1>3, <1>4, Zenon

-----------------------------------------------------------------------------
\* The invariant holds when the channel is constructed.
LEMMA InitChannel == Init => ChannelInv
<1> SUFFICES ASSUME Init PROVE ChannelInv
  BY Zenon
<1>1. Writer \in Threads /\ Reader \in Threads /\ 0 \in 0..MaxWrites
  BY ChannelConstants
<1>2. /\ read_count \in Watch /\ read_count.value = 0 /\ read_count.final = None
      /\ write_count \in Watch /\ write_count.value = 0
  BY <1>1, NewWatchType, Zenon DEF Init, Watch
<1>3. \A t \in Threads : read_count.notice[t] = None /\ read_count.outcome[t] = None
  BY Zenon DEF Init, NewWatch
<1> QED BY <1>1, <1>2, <1>3, ChannelConstants
  DEF Init, ChannelInv, TypeOK, OneInFlight, TakeTurns, HeardIsPast, PointsToNext,
      ReadsInOrder, WriteMeansConsumed, Lent, Offering, Watch, Labels, Modes

\* A channel hands every object over once and in order, alive until the reading
\* side is closed, and a write that succeeds has been consumed, for any number
\* of writes, in either form, and wherever either side is closed.
THEOREM ChannelSafe == Spec => []HandsOver
<1>1. ChannelInv /\ [Next]_vars => ChannelInv'
  <2>1. ASSUME ChannelInv, UNCHANGED vars
        PROVE  ChannelInv'
    BY <2>1
    DEF vars, ChannelInv, TypeOK, OneInFlight, TakeTurns, HeardIsPast, PointsToNext,
        ReadsInOrder, WriteMeansConsumed, Lent, Offering
  <2> QED BY <2>1, WriterLocal, WriterWaits, WriteCountMoves, ReaderLocal, ReadCountMoves, Zenon
    DEF Next, WriterStep, ReaderStep
<1>2. ChannelInv => ObjectLives
  <2> SUFFICES ASSUME ChannelInv, pc[Reader] = "hold", read_count.final = None
               PROVE  Lent = seen[Reader]
    BY Zenon DEF ObjectLives
  <2>1. read_count.value \in 0..MaxWrites
    BY CountTypes, Zenon DEF ChannelInv, TypeOK, Watch
  <2>2. value = seen[Reader] /\ seen[Reader] = read_count.value + 1
    BY Zenon DEF ChannelInv, PointsToNext, ReadsInOrder
  <2> QED BY <2>1, <2>2 DEF ChannelInv, PointsToNext
<1> QED BY <1>1, <1>2, InitChannel, PTL DEF Spec, HandsOver
=============================================================================
