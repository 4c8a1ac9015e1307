------------------------------ MODULE MCData ------------------------------
(***************************************************************************)
(* The components of the library without threads of their own, and Status, *)
(* on small instances.  A behaviour is one of one component, chosen at the *)
(* start; the components share the variables s1 to s7.                     *)
(***************************************************************************)
EXTENDS Integers, Sequences

VARIABLES part, s1, s2, s3, s4, s5, s6, s7

\* The variables after the first n, which a component of n variables leaves alone.
Rest6 == <<s7>>
Rest5 == <<s6, Rest6>>
Rest4 == <<s5, Rest5>>
Rest3 == <<s4, Rest4>>
Rest2 == <<s3, Rest3>>

Blank6 == s7 = <<>>
Blank5 == s6 = <<>> /\ Blank6
Blank4 == s5 = <<>> /\ Blank5
Blank3 == s4 = <<>> /\ Blank4
Blank2 == s3 = <<>> /\ Blank3

-----------------------------------------------------------------------------
TheSeq == INSTANCE Seq WITH
  MaxItem <- 2, MaxLen <- 3, given <- s1, seq <- s2, out <- s3, peeked <- s4, ended <- s5,
  SubGroups <- {"g", "h", "k"}, MaxGroupItems <- 4,
  source <- s1, groupBy <- s2, subGroup <- s3, runsDone <- s4

TheAlgorithms == INSTANCE Parallel WITH MaxKey <- 1, MaxElements <- 4, job <- s1, units <- s2, dst <- s3

TheRadix == INSTANCE Radix WITH
  WordMax <- 7, RingSize <- 2, MaxRadix <- 3, MaxItems <- 4,
  ring <- s1, items <- s2, popped <- s3, radixPanic <- s4

TheParser == INSTANCE HttpParser WITH MaxHead <- 7, kind <- s1, head <- s2,
  Bodies <- UNION {[1 .. n -> {"a", "1", "LF"}] : n \in 1 .. 2} \cup {<<"LF", "a", "1">>, <<"a", "1", "LF">>},
  Base <- 2, MaxFetch <- 2,
  body <- s1, trailer <- s2, encoder <- s3, wire <- s4, decoder <- s5, reader <- s6

ThePacing == INSTANCE Pacing WITH
  WordMax <- 31, MaxBurst <- 3, MaxTime <- 6, Rates <- {<<1, 1>>, <<2, 1>>, <<1, 2>>, <<2, 3>>},
  Policies <- [max_attempts : 0 .. 4, initial_delay : 0 .. 3 \cup {12}, backoff_factor : {2, 3},
               backoff_divisor : {1, 2}, max_delay : {9, 20}],
  retry <- s1, limiter <- s2

TheStatus == INSTANCE StatusCodes WITH
  Callers <- {"t", "u"}, Categories <- {"A", "B"}, GroupSize <- 6, MaxCalls <- 2,
  CodesOf <- [A |-> <<3, 1>>, B |-> <<1, 2, 4>>],
  Asked <- [A |-> {1}, B |-> {2}, misc |-> {7}, system |-> {5}],
  nextIndex <- s1, group <- s2, registered <- s3, globalMap <- s4, mutex <- s5, threadMap <- s6, caller <- s7

\* The same with an error code, 3 of B, that its category has and its enum does not.
Unlisted == INSTANCE StatusCodes WITH
  Callers <- {"t", "u"}, Categories <- {"A", "B"}, GroupSize <- 6, MaxCalls <- 1,
  CodesOf <- [A |-> <<3, 1>>, B |-> <<1, 2, 4>>],
  Asked <- [A |-> {1}, B |-> {2, 3}, misc |-> {7}, system |-> {5}],
  nextIndex <- s1, group <- s2, registered <- s3, globalMap <- s4, mutex <- s5, threadMap <- s6, caller <- s7

TheHolders == INSTANCE Holders WITH
  Cells <- {"c", "d", "e"}, Small <- {"s", "t"}, Big <- {"B"}, kind <- s1, mem <- s2, meant <- s3

TheIntervals == INSTANCE Intervals WITH
  MaxPoint <- 5, WordMax <- 7, MaxRemovals <- 2, pieces <- s1, points <- s2, last <- s3, removals <- s4

TheUrls == INSTANCE Urls WITH
  Users <- {<<>>, <<"u">>}, Hosts <- {<<>>, <<"h">>, <<"h", ":", "h">>}, Ports <- {<<>>, <<"1", "2">>},
  Paths <- {<<>>, <<"/">>, <<"/", "p">>, <<"/", "@", ":">>}, Queries <- {<<>>, <<"q", "?", "/">>},
  Fragments <- {<<>>, <<"f", "#", "?">>}, parts <- s1, url <- s2, cut <- s3

-----------------------------------------------------------------------------
DataInit ==
  \/ part = "seq" /\ TheSeq!SeqInit /\ Blank5
  \/ part = "groups" /\ TheSeq!GroupInit /\ Blank4
  \/ part = "algorithms" /\ TheAlgorithms!AlgoInit /\ Blank3
  \/ part = "radix" /\ TheRadix!RadixInit /\ Blank4
  \/ part = "parser" /\ TheParser!HeadInit /\ Blank2
  \/ part = "chunks" /\ TheParser!ChunkedInit /\ Blank6
  \/ part = "pacing" /\ ThePacing!PacingInit /\ Blank2
  \/ part = "status" /\ TheStatus!StatusInit
  \/ part = "holders" /\ TheHolders!HoldersInit /\ Blank3
  \/ part = "intervals" /\ TheIntervals!IntervalsInit /\ Blank4
  \/ part = "urls" /\ TheUrls!UrlInit /\ Blank3

DataNext ==
  /\ part' = part
  /\ \/ part = "seq" /\ (TheSeq!SeqPeek \/ TheSeq!SeqNext) /\ UNCHANGED Rest5
     \/ part = "groups" /\ TheSeq!GroupStep /\ UNCHANGED Rest4
     \/ part = "algorithms" /\ TheAlgorithms!AlgoStep /\ UNCHANGED Rest3
     \/ part = "radix" /\ TheRadix!RadixStep /\ UNCHANGED Rest4
     \/ part = "parser" /\ TheParser!Arrive /\ UNCHANGED Rest2
     \/ part = "chunks" /\ TheParser!ChunkedStep /\ UNCHANGED Rest6
     \/ part = "pacing" /\ ThePacing!PacingStep /\ UNCHANGED Rest2
     \/ part = "status" /\ TheStatus!StatusStep
     \/ part = "holders" /\ TheHolders!HoldersStep /\ UNCHANGED Rest3
     \/ part = "intervals" /\ TheIntervals!IntervalsStep /\ UNCHANGED Rest4
     \/ part = "urls" /\ TheUrls!Cut /\ UNCHANGED Rest3

LookupSpec ==
  /\ part = "status" /\ Unlisted!StatusInit
  /\ [][part' = part /\ Unlisted!StatusStep]_<<part, Unlisted!statusVars>>
  /\ \A t \in {"t", "u"} : WF_Unlisted!statusVars(Unlisted!CallerStep(t))

-----------------------------------------------------------------------------
\* seq: whatever calls of peek, next, copy and move come in between, a pipeline
\* yields the items it stands for, peek tells the next one, the consumers agree
\* with the items left, and the SubGroups of group_by read the runs.
SeqAgrees ==
  /\ part = "seq" => TheSeq!YieldsDenotation /\ TheSeq!PeekTellsNext /\ TheSeq!ConsumersAgree
  /\ part = "groups" => TheSeq!GroupsAreRuns
\* The parallel algorithms: units that run at the same time write to different
\* places, and the result is that of the sequential algorithm.
ParallelAgrees == part = "algorithms" => TheAlgorithms!UnitsDisjoint /\ TheAlgorithms!SameAsSequential
\* RadixQueue: items come out in the order and with the values they went in.
\* Interval: the operations are those of the sets of points.
NumbersAgree ==
  /\ part = "radix" => TheRadix!RadixRoundTrip
  /\ part = "intervals" => TheIntervals!IntervalsAreSets
\* Message heads parse the same however they arrive, and a chunked body is
\* decoded to what was encoded, with nothing left of it in the stream.  A URL is
\* taken apart into the parts it was built of.
HttpReads ==
  /\ part = "urls" => TheUrls!TakenApart
  /\ part = "parser" => TheParser!ParsesTheSame
  /\ part = "chunks" => TheParser!DecodesTheBody
\* with_retry_policy tries as often as a policy with a maximum says and waits as
\* long, never above max_delay after the first delay, whether or not a product
\* of delays wraps; the rate limiter lets through no more than its rate and burst.
PacingKept == part = "pacing" => ThePacing!RetriesAsTold /\ ThePacing!RateIsKept
\* Status: a code leads back to the enum value it was made of, and to_status
\* gives an error code its own Status, whichever thread registers or asks first.
StatusesTell == part = "status" => TheStatus!StatusesTell /\ TheStatus!AnswersRight
\* Optional, StatusOr and TypeErasedStorage: every object is made and destroyed
\* once, and a variable holds what was put there last.
ObjectsKept == part = "holders" => TheHolders!ObjectsKept

\* "the registered batt::Status value if code is valid; batt::StatusCode::kUnknown
\* otherwise": status_from_error_category returns.
LookupReturns == Unlisted!LookupReturns
=============================================================================
