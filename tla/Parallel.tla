------------------------------ MODULE Parallel ------------------------------
(***************************************************************************)
(* The parallel algorithms of batteries/algo: parallel_merge,              *)
(* parallel_copy, parallel_transform, parallel_accumulate and              *)
(* parallel_running_total with its RunningTotal.                           *)
(*                                                                         *)
(* Each breaks its input into units of work that write to parts of a       *)
(* shared array.  The units run in any order here, and a unit may make     *)
(* more units: what module Workers says of a WorkContext is that all of    *)
(* them have run when the algorithm goes on.                               *)
(***************************************************************************)
EXTENDS Slicing, Sequences, FiniteSets

CONSTANTS
  MaxKey,       \* bound on the elements
  MaxElements   \* bound on the size of an input

VARIABLES
  job,     \* the call: algorithm, inputs and parameters
  units,   \* the units of work submitted and not yet run
  dst      \* the array they write to

algoVars == <<job, units, dst>>

\* What a new array holds: no value of any input.
Junk == -1
Unwritten(n) == [i \in 1..n |-> Junk]
Concat(f, g, from) ==
  [i \in DOMAIN f |-> IF i > from /\ i <= from + Len(g) THEN g[i - from] ELSE f[i]]

Inputs(n) == UNION {[1..k -> 0..MaxKey] : k \in 0..n}
Sorted(s) == \A i, j \in DOMAIN s : i < j => s[i] <= s[j]

-----------------------------------------------------------------------------
(* parallel_merge.  A unit is a call of parallel_merge_impl: a phase, a    *)
(* range of each source (first element, first element beyond) and where    *)
(* its output begins.  An element of the output is <<key, source, place>>, *)
(* so that equal keys can be told apart.                                   *)

MergeUnit(phase, r0, r1, d) == [phase |-> phase, r0 |-> r0, r1 |-> r1, d |-> d]
SizeOf(r) == r[2] - r[1]

\* std::merge: from the second source only what is smaller.
RECURSIVE Merged(_, _)
Merged(r0, r1) ==
  IF SizeOf(r0) = 0 THEN [i \in 1..SizeOf(r1) |-> <<job.src1[r1[1] + i - 1], 1, r1[1] + i - 1>>]
  ELSE IF SizeOf(r1) = 0 THEN [i \in 1..SizeOf(r0) |-> <<job.src0[r0[1] + i - 1], 0, r0[1] + i - 1>>]
  ELSE IF job.src1[r1[1]] < job.src0[r0[1]]
    THEN <<<<job.src1[r1[1]], 1, r1[1]>>>> \o Merged(r0, <<r1[1] + 1, r1[2]>>)
    ELSE <<<<job.src0[r0[1]], 0, r0[1]>>>> \o Merged(<<r0[1] + 1, r0[2]>>, r1)

\* std::lower_bound on a range of s.
LowerBound(s, r, key) ==
  CHOOSE i \in r[1]..r[2] :
    /\ \A j \in r[1]..(i - 1) : s[j] < key
    /\ i < r[2] => s[i] >= key

\* The first phase cuts the first source evenly and searches in the second,
\* the second phase the other way round.
FixedSource(phase) == IF phase = 1 THEN job.src0 ELSE job.src1
SearchSource(phase) == IF phase = 1 THEN job.src1 ELSE job.src0

\* The end of a shard that was to end at i: the whole group of equal keys at
\* its end belongs to it.
ShardEnd_CutsGroups(s, i, end) == i
ShardEnd(s, i, end) ==
  CHOOSE e \in i..end :
    /\ \A k \in i..(e - 1) : s[k - 1] >= s[k]
    /\ e < end => s[e - 1] < s[e]

TargetSize(n) ==
  MaxOf(CeilDiv(n, (job.max + 1) \div 2), (job.min + 1) \div 2)

\* The shards of parallel_merge_fanout, from the element at begin on.
RECURSIVE FixedShards(_, _, _, _)
FixedShards(s, begin, end, target) ==
  IF begin = end THEN <<>>
  ELSE LET e == ShardEnd(s, begin + MinOf(target, end - begin), end) IN
       <<<<begin, e>>>> \o FixedShards(s, e, end, target)

\* The work_fn of a shard f of the fixed range.
ShardUnit(u, fixed, search, f) ==
  LET S == SearchSource(u.phase)
      F == FixedSource(u.phase)
      b == IF f[1] = fixed[1] THEN search[1] ELSE LowerBound(S, search, F[f[1]])
      e == IF f[2] = fixed[2] THEN search[2] ELSE LowerBound(S, <<b, search[2]>>, F[f[2]])
      d == u.d + (f[1] - fixed[1]) + (b - search[1])
  IN IF u.phase = 1 THEN MergeUnit(2, f, <<b, e>>, d) ELSE MergeUnit(3, <<b, e>>, f, d)

\* parallel_merge_impl copies, merges or fans out.
MergeIsSequential(u) ==
  \/ SizeOf(u.r0) = 0 \/ SizeOf(u.r1) = 0
  \/ u.phase = 3 \/ SizeOf(u.r0) + SizeOf(u.r1) <= job.min

MergeFanout(u) ==
  LET fixed == IF u.phase = 1 THEN u.r0 ELSE u.r1
      search == IF u.phase = 1 THEN u.r1 ELSE u.r0
      shards == FixedShards(FixedSource(u.phase), fixed[1], fixed[2],
                            TargetSize(SizeOf(fixed)))
  IN {ShardUnit(u, fixed, search, shards[i]) : i \in DOMAIN shards}

StartMerge ==
  \E s0, s1 \in Inputs(MaxElements), min \in 0..2, max \in 1..3 :
    /\ Sorted(s0) /\ Sorted(s1)
    /\ job = [algo |-> "merge", src0 |-> s0, src1 |-> s1, min |-> min, max |-> max]
    /\ units = {MergeUnit(1, <<1, Len(s0) + 1>>, <<1, Len(s1) + 1>>, 0)}
    /\ dst = Unwritten(Len(s0) + Len(s1))

RunMerge ==
  \E u \in units :
    /\ job.algo = "merge"
    /\ IF MergeIsSequential(u)
         THEN /\ dst' = Concat(dst, Merged(u.r0, u.r1), u.d)
              /\ units' = units \ {u}
         ELSE /\ units' = (units \ {u}) \cup MergeFanout(u)
              /\ UNCHANGED dst
    /\ UNCHANGED job

-----------------------------------------------------------------------------
(* The algorithms on slices.                                               *)

\* The elements of a slice of the input.
SliceOf(u) == SubSeq(job.src, u.offset + 1, u.offset + u.size)
Transform(x) == x + 10
PlanOf(s, min, max) == Plan(Len(s), min, max)

\* parallel_copy and parallel_transform.
StartTransform ==
  \E s \in Inputs(MaxElements), min \in 1..2, max \in 1..3 :
    /\ job = [algo |-> "transform", src |-> s, min |-> min, max |-> max]
    /\ units = IF max = 1 THEN {[index |-> 0, offset |-> 0, size |-> Len(s)]}
               ELSE Slices(PlanOf(s, min, max))
    /\ dst = Unwritten(Len(s))

RunTransform ==
  \E u \in units :
    /\ job.algo = "transform"
    /\ dst' = Concat(dst, [i \in 1..u.size |-> Transform(SliceOf(u)[i])], u.offset)
    /\ units' = units \ {u}
    /\ UNCHANGED job

\* parallel_accumulate, with an operation that is associative but does not
\* commute: concatenation, so that an element is a sequence.
RECURSIVE Accumulate(_, _)
Accumulate(s, init) ==
  IF s = <<>> THEN init ELSE Accumulate(Tail(s), init \o Head(s))

AccumulateIsSequential(n, min, max) == max = 1 \/ n <= MaxOf(min, max)

\* The task results: the first starts from init, the others from identity.
TaskResults_AllInit(n, init) == [i \in 1..n |-> init]
TaskResults(n, init) == [i \in 1..n |-> IF i = 1 THEN init ELSE <<>>]

StartAccumulate ==
  \E s \in Inputs(MaxElements), min \in 1..2, max \in 1..3 :
    LET src == [i \in DOMAIN s |-> <<s[i]>>]
        plan == PlanOf(s, min, max) IN
    /\ job = [algo |-> "accumulate", src |-> src, min |-> min, max |-> max,
              whole |-> Accumulate(src, <<7>>)]
    /\ IF AccumulateIsSequential(Len(s), min, max)
         THEN units = {} /\ dst = <<Accumulate(src, <<7>>)>>
         ELSE units = Slices(plan) /\ dst = TaskResults(plan.tasks, <<7>>)

RunAccumulate ==
  \E u \in units :
    /\ job.algo = "accumulate"
    /\ dst' = [dst EXCEPT ![u.index + 1] = Accumulate(SliceOf(u), @)]
    /\ units' = units \ {u}
    /\ UNCHANGED job

\* The recursive call on the task results, after the last unit.
Recurse ==
  /\ job.algo = "accumulate" /\ units = {} /\ Len(dst) > 1
  /\ job' = [job EXCEPT !.src = Tail(dst)]
  /\ IF AccumulateIsSequential(Len(dst) - 1, job.min, job.max)
       THEN dst' = <<Accumulate(Tail(dst), Head(dst))>> /\ UNCHANGED units
       ELSE LET plan == PlanOf(Tail(dst), job.min, job.max) IN
            units' = Slices(plan) /\ dst' = TaskResults(plan.tasks, Head(dst))

-----------------------------------------------------------------------------
(* RunningTotal: parts of part_size + 1 values, each with a leading zero,  *)
(* then the summary, the running total of the last values of the parts.    *)

SegmentSize(p) == p.size + 1
SummaryAt(p) == SegmentSize(p) * p.tasks
RawSize(p) == SummaryAt(p) + p.tasks + 1

\* The constructor and reset: the leading zeros are all that is set.
NewRunningTotal(p) ==
  [i \in 1..RawSize(p) |->
     IF i <= SummaryAt(p) + 1 /\ (i - 1) % SegmentSize(p) = 0 THEN 0 ELSE Junk]

RECURSIVE Totals(_, _)
Totals(s, sum) ==
  IF s = <<>> THEN <<>> ELSE <<sum + Head(s)>> \o Totals(Tail(s), sum + Head(s))
SumOfAll(s) == LET t == Totals(s, 0) IN IF t = <<>> THEN 0 ELSE t[Len(t)]

\* operator[]: one past the last part reads the summary's leading zero.
TotalAt_Local(p, values, i) ==
  values[(i \div p.size) * SegmentSize(p) + (i % p.size) + 1]
TotalAt(p, values, i) ==
  values[SummaryAt(p) + i \div p.size + 1]
    + values[(i \div p.size) * SegmentSize(p) + (i % p.size) + 1]

\* The work function of a slice: the totals of its part, the last repeated
\* to the end of the part.
PartValues(p, u) ==
  LET t == <<0>> \o Totals(SliceOf(u), 0) IN
  [i \in 1..SegmentSize(p) |-> t[MinOf(i, Len(t))]]

Summary(p, values) == Totals([i \in 1..p.tasks |-> values[i * SegmentSize(p)]], 0)

StartRunningTotal ==
  \E s \in Inputs(MaxElements), min \in 1..2, max \in 1..3 :
    LET plan == PlanOf(s, min, max) IN
    /\ s # <<>>
    /\ job = [algo |-> "running_total", src |-> s, plan |-> plan, summed |-> FALSE]
    /\ units = Slices(plan)
    /\ dst = NewRunningTotal(plan)

RunTotals ==
  \E u \in units :
    /\ job.algo = "running_total"
    /\ dst' = Concat(dst, PartValues(job.plan, u), u.index * SegmentSize(job.plan))
    /\ units' = units \ {u}
    /\ UNCHANGED job

UpdateSummary ==
  /\ job.algo = "running_total" /\ units = {} /\ ~ job.summed
  /\ dst' = Concat(dst, Summary(job.plan, dst), SummaryAt(job.plan) + 1)
  /\ job' = [job EXCEPT !.summed = TRUE]
  /\ UNCHANGED units

-----------------------------------------------------------------------------
AlgoInit == StartMerge \/ StartTransform \/ StartAccumulate \/ StartRunningTotal
AlgoStep ==
  \/ RunMerge \/ RunTransform \/ RunAccumulate \/ Recurse \/ RunTotals
  \/ UpdateSummary

\* What a unit writes.
Writes(u) ==
  CASE job.algo = "merge" -> (u.d + 1)..(u.d + SizeOf(u.r0) + SizeOf(u.r1))
    [] job.algo = "transform" -> (u.offset + 1)..(u.offset + u.size)
    [] job.algo = "accumulate" -> {u.index + 1}
    [] job.algo = "running_total" ->
         {u.index * SegmentSize(job.plan) + i : i \in 1..SegmentSize(job.plan)}

Before(x, y) ==
  \/ x[1] < y[1]
  \/ x[1] = y[1] /\ (x[2] < y[2] \/ (x[2] = y[2] /\ x[3] < y[3]))

\* Units that may run at the same time write to different elements, inside
\* the array: the algorithms need no lock.
UnitsDisjoint ==
  /\ \A u \in units : Writes(u) \subseteq DOMAIN dst
  /\ \A u, v \in units : u # v => Writes(u) \cap Writes(v) = {}

\* When an algorithm is done its result is that of the sequential one: the
\* stable merge with equal keys of the first source first, the transformed
\* input, the accumulation in the order of the input, and at every index the
\* sum of the elements before it.
SameAsSequential ==
  units = {} =>
    CASE job.algo = "merge" ->
           /\ {dst[i] : i \in DOMAIN dst} =
                {<<job.src0[i], 0, i>> : i \in DOMAIN job.src0}
                  \cup {<<job.src1[i], 1, i>> : i \in DOMAIN job.src1}
           /\ \A i, j \in DOMAIN dst : i < j => Before(dst[i], dst[j])
      [] job.algo = "transform" -> dst = [i \in DOMAIN job.src |-> Transform(job.src[i])]
      [] job.algo = "accumulate" -> Len(dst) = 1 => dst[1] = job.whole
      [] job.algo = "running_total" ->
           job.summed => \A i \in 0..Len(job.src) :
             TotalAt(job.plan, dst, i) = SumOfAll(SubSeq(job.src, 1, i))
=============================================================================
