----------------------------- MODULE MCAsync -----------------------------
(***************************************************************************)
(* Channel and the smaller components of batteries/async, on small         *)
(* instances.  A behaviour is one of one component, chosen at the start;   *)
(* the others stay as they are.  All but Channel and Pins share the       *)
(* variables s1 to s11, and so do the two components of a module that has  *)
(* two.                                                                    *)
(***************************************************************************)
EXTENDS Channel, Pins, Sequences

CONSTANTS
  PoolUser,   \* the thread that uses the worker pool
  NoValue     \* not a value of a watch

VARIABLES part, s1, s2, s3, s4, s5, s6, s7, s8, s9, s10, s11

shared == <<s1, s2, s3, s4, s5, s6, s7, s8, s9, s10, s11>>
asyncVars == <<vars, pinVars, part, shared>>

\* The variables after the first n, which a component of n variables leaves alone.
Rest8 == <<s9, s10, s11>>
Rest7 == <<s8, Rest8>>
Rest6 == <<s7, Rest7>>
Rest5 == <<s6, Rest6>>
Rest4 == <<s5, Rest5>>
Rest3 == <<s4, Rest4>>

Blank8 == s9 = <<>> /\ s10 = <<>> /\ s11 = <<>>
Blank7 == s8 = <<>> /\ Blank8
Blank6 == s7 = <<>> /\ Blank7
Blank5 == s6 = <<>> /\ Blank6
Blank4 == s5 = <<>> /\ Blank5
Blank3 == s4 = <<>> /\ Blank4

-----------------------------------------------------------------------------
LatchUser == <<"t", "u", "v">>
TheLatch == INSTANCE Latch WITH
  Threads <- {"t", "u", "v"}, None <- "none", latchState <- s1, latchValue <- s2, latchCall <- s3

WatchUser == <<"t", "u", "w">>
TheWatch == INSTANCE WatchLocked WITH
  Users <- {"t", "u", "w"}, MaxValue <- 1, MaxCalls <- 2,
  value <- s1, closed <- s2, observers <- s3, user <- s4

Pinner == <<"p", "q", "r">>

TheHandlers == INSTANCE Handlers WITH
  Handlers <- {"f", "g", "h"}, Uniques <- {"u", "v"}, NoHandler <- "null",
  in_use <- s1, memory <- s2, list <- s3, unique <- s4, calls <- s5, ended <- s6

TheWorkers == INSTANCE Workers WITH
  Clients <- {PoolUser}, MaxWorkers <- 2, MaxInput <- 4, MaxTasks <- 3, NoValue <- NoValue,
  poolSize <- s1, roundRobin <- s2, worker <- s3, client <- s4, context <- s5, sliced <- s6

\* Graphs for the parallel model checker: a diamond, a cycle, and a step with
\* two choices in it.
Plain(s) == [choices |-> <<>>, succ |-> [c \in {<<>>} |-> s]]
Pick(s, t) == [choices |-> <<2>>, succ |-> [c \in [1 .. 1 -> 0 .. 1] |-> IF c[1] = 0 THEN s ELSE t]]
PickTwice(s, t) ==
  [choices |-> <<2, 2>>, succ |-> [c \in [1 .. 2 -> 0 .. 1] |-> IF c[1] = c[2] THEN s ELSE t]]
MeshGraphs == {[s \in 0 .. 2 |-> CASE s = 0 -> Pick(1, 2) [] s = 1 -> Plain(2) [] OTHER -> Plain(2)],
               [s \in 0 .. 2 |-> CASE s = 0 -> PickTwice(1, 2) [] s = 1 -> Pick(0, 2) [] OTHER -> Plain(0)]}
MeshBranches == (0 .. 2) \X UNION {[1 .. n -> 0 .. 1] : n \in 0 .. 2}
\* Spread by state, by length of the delta, and everything on one shard.
MeshOwners == {[b \in MeshBranches |-> b[1] % 2],
               [b \in MeshBranches |-> (b[1] + Len(b[2])) % 2],
               [b \in MeshBranches |-> 0]}
TheMesh == INSTANCE Mesh WITH
  ShardCount <- 2, Graph <- MeshGraphs, Owners <- MeshOwners,
  graph <- s1, owner <- s2, bad <- s3, pending <- s4, recvq <- s5, closed <- s6,
  stalled <- s7, barrier <- s8, latches <- s9, aborted <- s10, shard <- s11

TheTime == INSTANCE FakeTime WITH
  FakeThreads <- {"a", "b"}, Timers <- {"p", "q"}, MaxFakeTime <- 3,
  fakeTime <- s1, timerQueue <- s2, ready <- s3, count <- s4, thread <- s5, expiry <- s6, ran <- s7,
  Handles <- {"p", "q", "r"}, Contexts <- {"c", "d"},
  handle <- s1, workCount <- s2, checkFailed <- s3

\* Ring buffers that wrap early, late and not at all; the first bytes of
\* them; and a header before them, of buffers so short that none is consumed in
\* two parts and a rest (consume_buffers_iter would lose its place).
Stream == INSTANCE Sources WITH
  Cases <- {}, MaxBytes <- 4, mode <- s1, source <- s2, whole <- s3, sink <- s4, reader <- s5
Bases == {Stream!Base(<<1, 2, 3>>, w, e) : w \in {0, 1, 2}, e \in BOOLEAN} \cup {Stream!Base(<<>>, 0, FALSE)}
Taken == {Stream!Take(b, n) : b \in Bases, n \in 0 .. 4}
Headers == {<<<<11, 12>>>>, <<<<11>>, <<12, 13>>>>, <<<<>>>>}
Prepended == {Stream!Prepend(f, b) : f \in Headers, b \in Bases \cup {Stream!Take(b, 2) : b \in Bases}}
TheSources == INSTANCE Sources WITH
  Cases <- ({"for_each"} \X ({Stream!NoData} \cup Bases \cup Taken \cup Prepended))
             \cup ({"write_to"} \X (Bases \cup {Stream!NoData} \cup {q \in Prepended : q.src \in Bases}))
             \cup ({"transfer"} \X Bases),
  MaxBytes <- 4, mode <- s1, source <- s2, whole <- s3, sink <- s4, reader <- s5

\* The random walks of the model checker: graphs with cycles, steps with one
\* choice, several, or a choice of one; a step that fails a check.
PickAlone(s, t) ==
  [choices |-> <<2, 1, 2>>, succ |-> [c \in [1 .. 3 -> 0 .. 1] |-> IF c[1] = c[3] THEN s ELSE t]]
WalkGraphs == {[s \in 0 .. 3 |-> CASE s = 0 -> Pick(1, 2) [] s = 1 -> PickAlone(2, 3) [] s = 2 -> Pick(0, 3) [] OTHER -> Plain(3)],
               [s \in 0 .. 2 |-> CASE s = 0 -> PickAlone(1, 2) [] s = 1 -> Pick(2, 1) [] OTHER -> Plain(0)]}
TheWalks == INSTANCE Walker WITH
  WalkerCount <- 2, Graphs <- WalkGraphs, StartingSeeds <- {3}, MaxSteps <- 4,
  Generators <- {[s \in 0 .. 5 |-> <<s % 2, (s \div 2) % 2, 1>>], [s \in 0 .. 5 |-> <<1, 0, s % 2>>]},
  graph <- s1, bad <- s2, draws <- s3, walker <- s4

WriterName == <<"t", "u">>
RuntimeUser == <<"t", "u">>
TheRuntime == INSTANCE Runtime WITH
  CpuCount <- 2, Callers <- {"t", "u"}, NoCaller <- "none", MaxTasks <- 3,
  halted <- s1, scheduler <- s2, roundRobin <- s3, io <- s4, pool <- s5, running <- s6, joinMutex <- s7, caller <- s8,
  Awaiters <- {"p"}, Writers <- {"t", "u"}, Objects <- {1, 2}, Slots <- {1, 2}, Tables <- {<<1, 1>>, <<1, 2>>}, Awaited <- [t \in {"p"} |-> 1],
  Nobody <- "none", NoCount <- NoValue, MaxChanges <- 2,
  slotOf <- s1, condition <- s2, counter <- s3, holder <- s4, awaiter <- s5, writer <- s6

TheProto == INSTANCE ProtoStreams WITH
  Capacity <- 3, MaxBytes <- 6, MaxSkips <- 1, ring <- s1, input <- s2, output <- s3

TheMetrics == INSTANCE Metrics WITH
  Objects <- {"m"}, KindOf <- [o \in {"m"} |-> "latency"], NameOf <- [o \in {"m"} |-> o], MaxUpdates <- 2, MaxRows <- 1,
  object <- s1, registry <- s2, mutex <- s3, dumper <- s4, stop <- s5,
  Updaters <- {"t", "u"}, Samples <- {-1, 1}, Lowest <- -2, Highest <- 2, MaxCalls <- 2,
  stats <- s1, latency <- s2, updater <- s3, measured <- s4

-----------------------------------------------------------------------------
AsyncInit ==
  /\ Init /\ PinInit
  /\ \/ part \in {"channel", "pins"} /\ s1 = <<>> /\ s2 = <<>> /\ s3 = <<>> /\ Blank3
     \/ part = "latch" /\ TheLatch!LatchInit /\ Blank3
     \/ part = "watch" /\ TheWatch!WatchInit /\ Blank4
     \/ part = "handlers" /\ TheHandlers!HandlersInit /\ Blank6
     \/ part = "workers" /\ TheWorkers!WorkInit /\ Blank6
     \/ part = "mesh" /\ TheMesh!MeshInit
     \/ part = "time" /\ TheTime!FakeInit /\ Blank7
     \/ part = "executor" /\ TheTime!ExecutorInit /\ Blank3
     \/ part = "sources" /\ TheSources!SourceInit /\ Blank5
     \/ part = "walks" /\ TheWalks!WalkInit /\ Blank4
     \/ part = "conditions" /\ TheRuntime!WeakInit /\ Blank6
     \/ part = "runtime" /\ TheRuntime!RuntimeInit /\ Blank8
     \/ part = "proto" /\ TheProto!ProtoInit /\ Blank3
     \/ part = "metrics" /\ TheMetrics!MetricsInit /\ Blank5
     \/ part = "collectors" /\ TheMetrics!CollectorsInit /\ Blank4

Others ==
  \/ part = "latch" /\ TheLatch!LatchStep /\ UNCHANGED Rest3
  \/ part = "watch" /\ TheWatch!WatchStep /\ UNCHANGED Rest4
  \/ part = "handlers" /\ TheHandlers!HandlersStep /\ UNCHANGED Rest6
  \/ part = "workers" /\ TheWorkers!WorkStep /\ UNCHANGED Rest6
  \/ part = "mesh" /\ TheMesh!MeshStep
  \/ part = "time" /\ TheTime!FakeStep /\ UNCHANGED Rest7
  \/ part = "executor" /\ TheTime!ExecutorStep /\ UNCHANGED Rest3
  \/ part = "sources" /\ TheSources!SourceStep /\ UNCHANGED Rest5
  \/ part = "walks" /\ TheWalks!WalkStep /\ UNCHANGED Rest4
  \/ part = "conditions" /\ TheRuntime!WeakStep /\ UNCHANGED Rest6
  \/ part = "runtime" /\ TheRuntime!RuntimeStep /\ UNCHANGED Rest8
  \/ part = "proto" /\ TheProto!ProtoStep /\ UNCHANGED Rest3
  \/ part = "metrics" /\ TheMetrics!MetricsStep /\ UNCHANGED Rest5
  \/ part = "collectors" /\ TheMetrics!CollectorsStep /\ UNCHANGED Rest4

AsyncNext ==
  /\ part' = part
  /\ \/ part = "channel" /\ Next /\ UNCHANGED <<pinVars, shared>>
     \/ part = "pins" /\ PinStep /\ UNCHANGED <<vars, shared>>
     \/ Others /\ UNCHANGED <<vars, pinVars>>

-----------------------------------------------------------------------------
(* Fairness: a thread that is in a call goes on.  A behaviour is one of    *)
(* one component, so that one action may stand for the n-th thread of each.*)

FairStep(n) ==
  /\ part' = part
  /\ \/ /\ part = "channel" /\ UNCHANGED <<pinVars, shared>>
        /\ (n = 1 /\ WriterStep) \/ (n = 2 /\ ReaderStep)
     \/ /\ part = "pins" /\ UNCHANGED <<vars, shared>>
        /\ (n = 1 /\ PinOwnerStep) \/ (n < 4 /\ PinReleasing(Pinner[n]))
     \/ /\ UNCHANGED <<vars, pinVars>>
        /\ \/ n < 4 /\ part = "latch" /\ TheLatch!LatchContinue(LatchUser[n]) /\ UNCHANGED Rest3
           \/ n < 4 /\ part = "watch" /\ TheWatch!InCall(WatchUser[n]) /\ UNCHANGED Rest4
           \/ n = 1 /\ part = "workers" /\ TheWorkers!ClientStep(PoolUser) /\ UNCHANGED Rest6
           \/ n \in 2 .. 3 /\ part = "workers" /\ TheWorkers!WorkerStep(n - 1) /\ UNCHANGED Rest6
           \/ n < 3 /\ part = "mesh" /\ TheMesh!ShardStep(n - 1)
           \/ n = 1 /\ part = "sources" /\ TheSources!ConsumerRound /\ UNCHANGED Rest5
           \/ n = 2 /\ part = "sources" /\ TheSources!ProduceEnd /\ UNCHANGED Rest5
           \/ n = 1 /\ part = "conditions" /\ TheRuntime!AwaiterStep("p") /\ UNCHANGED Rest6
           \/ n \in 2 .. 3 /\ part = "conditions" /\ TheRuntime!WriterGoesOn(WriterName[n - 1]) /\ UNCHANGED Rest6
           \/ n < 3 /\ part = "runtime" /\ TheRuntime!CallerGoesOn(RuntimeUser[n]) /\ UNCHANGED Rest8
           \/ n > 2 /\ part = "runtime" /\ TheRuntime!ThreadStep(n - 3) /\ UNCHANGED Rest8
           \/ n = 1 /\ part = "proto" /\ TheProto!InputGoesOn /\ UNCHANGED Rest3
           \/ n = 2 /\ part = "proto" /\ TheProto!OutputCall /\ UNCHANGED Rest3
           \/ n = 1 /\ part = "metrics" /\ TheMetrics!DumperStep /\ UNCHANGED Rest5

AsyncSpec ==
  /\ AsyncInit /\ [][AsyncNext]_asyncVars
  /\ \A n \in 1 .. 4 : WF_asyncVars(FairStep(n))

-----------------------------------------------------------------------------
\* Latch, Future and Promise: one set_value wins and every reader that gets a
\* value gets the winner's, through a stale kSetting too.
LatchAgrees == part = "latch" => TheLatch!LatchInv /\ TheLatch!LatchAgrees
\* Watch<T>: a thread that waits is in one list of handlers, once, and nobody
\* sleeps through a change or the close.
LockedWatchKeeps == part = "watch" => TheWatch!LockedWatchKeeps
\* UniqueHandler, HandlerList and HandlerMemory: each handler ends once, and the
\* storage is free when the handler in it runs.
HandlersEndOnce == part = "handlers" => TheHandlers!HandlersEndOnce
\* WorkContext, WorkerPool and slice_work: await_done returns when all the work
\* is done, each element once, and no worker will touch the context again.
\* Runtime::join returns when the threads of the pool are gone, each joined once.
DoneMeansDone ==
  /\ part = "workers" => TheWorkers!DoneMeansDone
  /\ part = "runtime" => TheRuntime!JoinedMeansGone
\* The parallel model checker: queues close only when no branch is left in any
\* place, and then every branch was explored, once, by its owner.  The random
\* walks: the seed that is reported leads to the state that was rejected.
MeshExplores ==
  /\ part = "mesh" => TheMesh!ClosedMeansDone /\ TheMesh!ExploresAll
  /\ part = "walks" => TheWalks!WalksReplay
\* The fake execution context: a fake sleep ends once, in time, and the work
\* count of a context is the number of executors that track it.
FakeContextKept ==
  /\ part = "time" => TheTime!SleepsEndOnce
  /\ part = "executor" => TheTime!WorkCounted
\* BufferSource: the consumers hand on every byte of the stream once, in order; so
\* do the protobuf streams over a StreamBuffer, backed up and skipped as they are.
DeliversOnce ==
  /\ part = "sources" => TheSources!DeliversOnce
  /\ part = "proto" => TheProto!StreamsAgree
\* Metrics: the dumper reads no metric that is gone and its last row has all that
\* came before halt; no update of a collector is lost, and no timer counts twice.
MetricsAgree ==
  /\ part = "metrics" => TheMetrics!MetricsAgree
  /\ part = "collectors" => TheMetrics!CollectorsAgree

\* Who waits for something that has happened or must happen, and what ends the
\* wait: the writer of an object that was consumed and the reader with an object
\* to read, or whose side is closed; the readers of a Latch that is set or
\* invalid; the destructor of an object nobody has pinned; the client of a pool,
\* unless halt has dropped some of its work; the shards of the model checker, if no
\* invariant is violated; the consumer of a stream
\* that ends; await_condition when the condition holds for good; Runtime::join after
\* halt; a call of the protobuf input stream; the dumper's thread after halt.
Owed(n) ==
  CASE part = "channel" -> (n = 1 /\ WriterOwed) \/ (n = 2 /\ ReaderOwed)
    [] part = "latch" -> TheLatch!LatchOwed(LatchUser[n])
    [] part = "pins" -> n = 1 /\ PinAwaited
    [] part = "workers" -> n = 1
    [] part = "mesh" -> n = 1 /\ TheMesh!NoneBad
    [] part = "sources" -> n = 1
    [] part = "conditions" -> n = 1 /\ TheRuntime!ConditionStays("p")
    [] part = "runtime" -> n < 3 /\ TheRuntime!JoinWaits(RuntimeUser[n])
    [] part = "proto" -> n = 1 /\ TheProto!InputWaits
    [] part = "metrics" -> n = 1 /\ TheMetrics!StopAsked
    [] OTHER -> FALSE
Served(n) ==
  CASE part = "channel" -> pc[IF n = 1 THEN Writer ELSE Reader] # "blocked"
    [] part = "latch" -> TheLatch!LatchAt(LatchUser[n], "done")
    [] part = "pins" -> PinDestroyed
    [] part = "workers" -> TheWorkers!ClientServed(PoolUser)
    [] part = "mesh" -> TheMesh!Ended
    [] part = "sources" -> TheSources!ReaderEnded
    [] part = "conditions" -> TheRuntime!AwaitReturned("p")
    [] part = "runtime" -> n < 3 /\ TheRuntime!JoinReturned(RuntimeUser[n])
    [] part = "proto" -> TheProto!InputReturned
    [] part = "metrics" -> TheMetrics!DumperGone
    [] OTHER -> TRUE
\* Nobody waits forever: Channel::read and write, Latch::await and async_get,
\* ~Pinnable, WorkContext::await_done, recv() of the model checker's shards, the
\* consumers of a BufferSource, Runtime::await_condition and join, Next and Skip of a
\* protobuf stream and MetricDumper::join come to an end.
WaitersReleased == \A n \in 1 .. 3 : Owed(n) ~> Served(n)
\* Watch<T>::await_true returns after a close, and when the value comes to
\* satisfy the predicate and stays so.
LockedWatchReleases ==
  \A n \in 1 .. 3 :
    <>[](part = "watch" => TheWatch!Wanted(WatchUser[n])) => []<>(part = "watch" => TheWatch!Ready(WatchUser[n]))
=============================================================================
