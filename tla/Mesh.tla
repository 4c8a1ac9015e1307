---------------------------------- MODULE Mesh ----------------------------------
(***************************************************************************)
(* batteries' own parallel model checker: StateMachineModel::check_model   *)
(* runs one ExhaustiveModelChecker per shard, on a thread each; the shards *)
(* send each other the branches of the state graph they come across        *)
(* (ParallelModelCheckState, "the mesh"), detect that all of them are out  *)
(* of work, and combine their results along a binary tree of latches.      *)
(*                                                                         *)
(* A branch is <<state, delta>>: a state and the choices to make in step(),*)
(* as far as they are decided; further choices are 0.  A batch is a        *)
(* sequence of branches.  What the receive queues do (Queue.tla) is taken  *)
(* as atomic here.                                                         *)
(***************************************************************************)
EXTENDS Integers, Sequences

LOCAL INSTANCE FiniteSets
LOCAL INSTANCE SequencesExt

CONSTANTS ShardCount,  \* max_concurrency()
          Graph,       \* the model under test: a set of [choices, succ] graphs
          Owners       \* the ways find_shard() may spread branches

Shards == 0 .. ShardCount - 1

VARIABLES
  graph,      \* the graph being explored: graph[s] = [choices, succ]
  owner,      \* find_shard(): branch -> shard
  bad,        \* the states that check_invariants() rejects
  pending,    \* total_pending_count
  recvq,      \* recv_queues: [shard -> sequence of batches]
  closed,     \* the receive queues that are closed
  stalled,    \* stalled[src][dst]: dst waits, src should not keep batches back
  barrier,    \* barrier_
  latches,    \* the shards whose result latch is set
  aborted,    \* a BATT_CHECK has failed: the process is gone
  shard       \* the checker of every shard

meshVars == <<graph, owner, bad, pending, recvq, closed, stalled, barrier, latches, aborted, shard>>

NoBatch == <<>>

\* What a shard's thread keeps to itself: queue_, send_queues[i], the visited
\* set of its model, local_consume_count, result_.ok; todo are the calls of
\* explore() still to make, pushing is a queue_push() between counting the
\* batch and pushing it, then is where the loop of flush_all returns to,
\* explored are the branches it has stepped through.
NewShard ==
  [pc |-> "start", queue |-> <<>>, send |-> [d \in Shards |-> <<>>], visited |-> {}, consumed |-> 0,
   ok |-> TRUE, failed |-> FALSE, todo |-> <<>>, pushing |-> NoBatch, then |-> "start", cursor |-> 0,
   explored |-> <<>>]

Zeros(n) == [i \in 1 .. n |-> 0]
Depth(s) == Len(graph[s].choices)
Padded(d, n) == d \o Zeros(n - Len(d))

\* step() from a branch: pick_int replays the delta and, past its end, takes 0
\* and hands every other value to explore().
Alternatives(b) ==
  FlattenSeq([k \in 1 .. Depth(b[1]) - Len(b[2]) |->
    LET at == Len(b[2]) + k
    IN  [v \in 1 .. graph[b[1]].choices[at] - 1 |-> <<b[1], Append(Padded(b[2], at - 1), v)>>]])
After(b) == graph[b[1]].succ[Padded(b[2], Depth(b[1]))]

MeshInit ==
  /\ graph \in Graph
  /\ owner \in Owners
  /\ bad \in {{}, {1}}
  /\ pending = 0 /\ recvq = [i \in Shards |-> <<>>] /\ closed = {}
  /\ stalled = [i \in Shards |-> [j \in Shards |-> FALSE]]
  /\ barrier = ShardCount /\ latches = {} /\ aborted = FALSE
  /\ shard = [i \in Shards |-> NewShard]

Given == <<graph, owner, bad>>
At(i, pc) == ~aborted /\ shard[i].pc = pc /\ shard[i].pushing = NoBatch
Goto(i, pc) == shard' = [shard EXCEPT ![i].pc = pc]
Flushing(sh, then) == [sh EXCEPT !.pc = "flush", !.then = then, !.cursor = 0]

(***************************************************************************)
(* The mesh.                                                               *)
(***************************************************************************)
\* send(): keep the branch back, unless the destination is stalled.
SendTo(i, d, b) ==
  LET batch == Append(shard[i].send[d], b)
  IN  IF stalled[i][d]
      THEN /\ shard' = [shard EXCEPT ![i].send[d] = <<>>, ![i].pushing = <<d, batch>>, ![i].todo = Tail(@)]
           /\ pending' = pending + 1
      ELSE /\ shard' = [shard EXCEPT ![i].send[d] = batch, ![i].todo = Tail(@)]
           /\ UNCHANGED pending

\* queue_push(): the second half; the batch is counted in pending already.
Push(i) ==
  /\ ~aborted /\ shard[i].pushing # NoBatch
  /\ LET d == shard[i].pushing[1]
     IN  /\ aborted' = (d \in closed)
         /\ recvq' = IF d \in closed THEN recvq ELSE [recvq EXCEPT ![d] = Append(@, shard[i].pushing[2])]
  /\ shard' = [shard EXCEPT ![i].pushing = NoBatch]
  /\ UNCHANGED <<Given, pending, closed, stalled, barrier, latches>>

\* flush_all(): one batch, or on to what comes after.
Flush(i) ==
  /\ At(i, "flush")
  /\ LET full == {d \in Shards : d >= shard[i].cursor /\ shard[i].send[d] # <<>>}
         d == CHOOSE x \in full : \A y \in full : x <= y
     IN  IF full = {} THEN Goto(i, shard[i].then) /\ UNCHANGED pending
         ELSE /\ pending' = pending + 1
              /\ shard' = [shard EXCEPT ![i].pushing = <<d, shard[i].send[d]>>, ![i].send[d] = <<>>,
                                        ![i].cursor = d + 1]
  /\ UNCHANGED <<Given, recvq, closed, stalled, barrier, latches, aborted>>

\* transfer_batch, then pop_next's removal of the states already visited.
RECURSIVE Fresh(_, _)
Fresh(batch, seen) ==
  IF batch = <<>> THEN <<>>
  ELSE LET b == Head(batch)
       IN  IF b[2] = <<>> /\ b[1] \in seen THEN Fresh(Tail(batch), seen)
           ELSE <<b>> \o Fresh(Tail(batch), IF b[2] = <<>> THEN seen \cup {b[1]} ELSE seen)
Transferred(sh, batch) ==
  [sh EXCEPT !.queue = Fresh(batch, sh.visited), !.consumed = @ + 1, !.pc = "pop",
             !.visited = @ \cup {b[1] : b \in {b \in Range(batch) : b[2] = <<>>}}]

\* recv(): a batch that is there already.
RecvTry(i) ==
  /\ At(i, "pop") /\ shard[i].queue = <<>> /\ recvq[i] # <<>>
  /\ shard' = [shard EXCEPT ![i] = Transferred(@, Head(recvq[i]))]
  /\ recvq' = [recvq EXCEPT ![i] = Tail(@)]
  /\ UNCHANGED <<Given, pending, closed, stalled, barrier, latches, aborted>>

\* Mutant: nothing is flushed before the batches are acknowledged.
RecvStall_NoFlush(i) ==
  /\ At(i, "pop") /\ shard[i].queue = <<>> /\ recvq[i] = <<>>
  /\ stalled' = [o \in Shards |-> [stalled[o] EXCEPT ![i] = TRUE]]
  /\ Goto(i, "ack")
  /\ UNCHANGED <<Given, pending, recvq, closed, barrier, latches, aborted>>
\* recv(): none; ask the others for theirs and flush one's own.
RecvStall(i) ==
  /\ At(i, "pop") /\ shard[i].queue = <<>> /\ recvq[i] = <<>>
  /\ stalled' = [o \in Shards |-> [stalled[o] EXCEPT ![i] = TRUE]]
  /\ shard' = [shard EXCEPT ![i] = Flushing(@, "ack")]
  /\ UNCHANGED <<Given, pending, recvq, closed, barrier, latches, aborted>>

\* recv(): everything received so far is done with.
RecvAck(i) ==
  /\ At(i, "ack")
  /\ pending' = pending - shard[i].consumed
  /\ shard' = [shard EXCEPT ![i].consumed = 0, ![i].cursor = 0,
                            ![i].pc = IF pending = shard[i].consumed THEN "close" ELSE "await"]
  /\ UNCHANGED <<Given, recvq, closed, stalled, barrier, latches, aborted>>

\* close_all(): one queue after the other; each must be empty, at once or when
\* it is looked at again after a sleep of 1200 ms ("slept").
CloseAll(i) ==
  /\ shard[i].pc \in {"close", "slept"} /\ At(i, shard[i].pc)
  /\ LET d == shard[i].cursor
     IN  IF recvq[d] # <<>> /\ At(i, "close")
         THEN Goto(i, "slept") /\ UNCHANGED <<closed, aborted>>
         ELSE /\ aborted' = (recvq[d] # <<>>)
              /\ closed' = closed \cup {d}
              /\ shard' = [shard EXCEPT ![i].cursor = d + 1, ![i].pc = IF d = ShardCount - 1 THEN "await" ELSE "close"]
  /\ UNCHANGED <<Given, pending, recvq, stalled, barrier, latches>>

Unstalled(i) == [o \in Shards |-> [stalled[o] EXCEPT ![i] = FALSE]]

\* recv(): await_next(), which returns a batch, or fails once closed.
RecvAwait(i) ==
  /\ At(i, "await") /\ (recvq[i] # <<>> \/ i \in closed)
  /\ stalled' = Unstalled(i)
  /\ IF recvq[i] # <<>>
     THEN /\ shard' = [shard EXCEPT ![i] = Transferred(@, Head(recvq[i]))]
          /\ recvq' = [recvq EXCEPT ![i] = Tail(@)]
     ELSE shard' = [shard EXCEPT ![i] = Flushing(@, "finished")] /\ UNCHANGED recvq
  /\ UNCHANGED <<Given, pending, closed, barrier, latches, aborted>>

\* finished(): the flush is done; close and drain one's own queue.
Finished(i) ==
  /\ At(i, "finished")
  /\ closed' = closed \cup {i} /\ recvq' = [recvq EXCEPT ![i] = <<>>]
  /\ Goto(i, "merge")
  /\ UNCHANGED <<Given, pending, stalled, barrier, latches, aborted>>

(***************************************************************************)
(* ExhaustiveModelChecker::run().                                          *)
(***************************************************************************)
\* The initial state goes to its owner, even if that is this shard.
Start(i) ==
  /\ At(i, "start")
  /\ shard' = [shard EXCEPT ![i] = Flushing([@ EXCEPT !.send[owner[<<0, <<>>>>]] = <<<<0, <<>>>>>>], "arrive")]
  /\ UNCHANGED <<Given, pending, recvq, closed, stalled, barrier, latches, aborted>>

\* wait_for_other_shards().
Arrive(i) ==
  /\ At(i, "arrive")
  /\ barrier' = barrier - 1 /\ Goto(i, "wait")
  /\ UNCHANGED <<Given, pending, recvq, closed, stalled, latches, aborted>>

Wait(i) ==
  /\ At(i, "wait") /\ barrier = 0
  /\ Goto(i, "check")
  /\ UNCHANGED <<Given, pending, recvq, closed, stalled, barrier, latches, aborted>>

\* BATT_CHECK_GT(total_pending_count->load(), 0).
CheckPending(i) ==
  /\ At(i, "check")
  /\ aborted' = (pending = 0)
  /\ Goto(i, "loop")
  /\ UNCHANGED <<Given, pending, recvq, closed, stalled, barrier, latches>>

\* enter_loop(): now and then, flush.
EnterLoop(i) ==
  /\ At(i, "loop")
  /\ \/ Goto(i, "pop")
     \/ ShardCount > 1 /\ shard' = [shard EXCEPT ![i] = Flushing(@, "pop")]
  /\ UNCHANGED <<Given, pending, recvq, closed, stalled, barrier, latches, aborted>>

\* pop_next() with a branch at hand, and the body of the loop up to the calls
\* of explore() it leads to: the other choices, then a state not seen before.
PopNext(i) ==
  /\ At(i, "pop") /\ shard[i].queue # <<>>
  /\ LET b == Head(shard[i].queue)
         to == After(b)
         new == to # b[1] /\ to \notin shard[i].visited
         fails == {b[1], to} \cap bad # {}
     IN  shard' = [shard EXCEPT ![i].queue = Tail(@), ![i].explored = Append(@, b), ![i].pc = "explore",
                     ![i].ok = ~fails, ![i].failed = fails,
                     ![i].todo = IF b[1] \in bad THEN <<>>
                                 ELSE Alternatives(b) \o (IF new /\ ~fails THEN <<<<to, <<>>>>>> ELSE <<>>),
                     ![i].visited = IF fails \/ to = b[1] THEN @ ELSE @ \cup {to}]
  /\ UNCHANGED <<Given, pending, recvq, closed, stalled, barrier, latches, aborted>>

\* explore(): into one's own queue or through the mesh.
Explore(i) ==
  /\ At(i, "explore")
  /\ IF shard[i].todo = <<>>
     THEN /\ shard' = [shard EXCEPT ![i] = IF @.failed THEN Flushing(@, "finished") ELSE [@ EXCEPT !.pc = "loop"]]
          /\ UNCHANGED pending
     ELSE LET b == Head(shard[i].todo)
          IN  IF owner[b] = i
              THEN shard' = [shard EXCEPT ![i].queue = Append(@, b), ![i].todo = Tail(@)] /\ UNCHANGED pending
              ELSE SendTo(i, owner[b], b)
  /\ UNCHANGED <<Given, recvq, closed, stalled, barrier, latches, aborted>>

(***************************************************************************)
(* check_model(): the results are combined along the bits of the index.    *)
(***************************************************************************)
MergeWith(i) == {i + 2 ^ k : k \in {k \in 0 .. ShardCount : i % 2 ^ (k + 1) = 0 /\ i + 2 ^ k < ShardCount}}

Merge(i) ==
  /\ At(i, "merge") /\ MergeWith(i) \subseteq latches
  /\ shard' = [shard EXCEPT ![i].pc = "done",
                 ![i].visited = UNION {shard[j].visited : j \in MergeWith(i) \cup {i}},
                 ![i].ok = \A j \in MergeWith(i) \cup {i} : shard[j].ok]
  /\ latches' = latches \cup {i}
  /\ UNCHANGED <<Given, pending, recvq, closed, stalled, barrier, aborted>>

ShardStep(i) ==
  \/ Push(i) \/ Flush(i) \/ RecvTry(i) \/ RecvStall(i) \/ RecvAck(i) \/ CloseAll(i) \/ RecvAwait(i)
  \/ Finished(i) \/ Start(i) \/ Arrive(i) \/ Wait(i) \/ CheckPending(i) \/ EnterLoop(i) \/ PopNext(i)
  \/ Explore(i) \/ Merge(i)

MeshStep == \E i \in Shards : ShardStep(i)

MeshSpec == MeshInit /\ [][MeshStep]_meshVars /\ \A i \in Shards : WF_meshVars(ShardStep(i))

(***************************************************************************)
(* What there is to explore.                                               *)
(***************************************************************************)
Deltas(s) == {<<>>} \cup {d \in UNION {[1 .. n -> 0 .. 1] : n \in 1 .. Depth(s)} : d[Len(d)] # 0}
RECURSIVE Closure(_)
Closure(S) ==
  LET T == S \cup UNION {{graph[s].succ[c] : c \in DOMAIN graph[s].succ} : s \in S}
  IN  IF T = S THEN S ELSE Closure(T)
Reachable == Closure({0})
Branches == UNION {{<<s, d>> : d \in Deltas(s)} : s \in Reachable}

Failure == \E i \in Shards : shard[i].failed
Done == \A i \in Shards : shard[i].pc = "done"
Sum(f(_)) == FoldLeft(LAMBDA acc, i : acc + f(i), 0, [i \in 1 .. ShardCount |-> i - 1])

(***************************************************************************)
(* total_pending_count is never less than the batches that are under way,  *)
(* queued, or received and not yet done with; so once a receive queue is   *)
(* closed no shard has a branch left, in any queue or in hand.             *)
(***************************************************************************)
ClosedMeansDone ==
  ~Failure /\ ~aborted =>
    /\ pending = Sum(LAMBDA i : Len(recvq[i]) + shard[i].consumed + (IF shard[i].pushing = NoBatch THEN 0 ELSE 1))
    /\ closed # {} => \A i \in Shards :
         /\ recvq[i] = <<>> /\ shard[i].queue = <<>> /\ shard[i].todo = <<>> /\ shard[i].pushing = NoBatch
         /\ \A d \in Shards : shard[i].send[d] = <<>>

(***************************************************************************)
(* When every shard is done, every branch was stepped through exactly once *)
(* by its owner, and shard 0 has collected every reachable state.          *)
(***************************************************************************)
ExploresAll ==
  Done =>
    /\ shard[0].ok /\ shard[0].visited = Reachable
    /\ \A i \in Shards : Range(shard[i].explored) = {b \in Branches : owner[b] = i}
    /\ Sum(LAMBDA i : Len(shard[i].explored)) = Cardinality(Branches)

(***************************************************************************)
(* With no invariant violated the shards all come to an end, unless a      *)
(* BATT_CHECK ended the process.                                           *)
(***************************************************************************)
NoneBad == bad = {}
Ended == Done \/ aborted
MeshTerminates == NoneBad ~> Ended

(***************************************************************************)
(* A shard's assertions hold: BATT_CHECK_GT(pending, 0) behind the barrier,*)
(* BATT_CHECK(success) in queue_push(), and the queues close_all() finds.  *)
(***************************************************************************)
NoCheckFails == ~aborted

================================================================================
