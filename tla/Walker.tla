------------------------------ MODULE Walker ------------------------------
(***************************************************************************)
(* StochasticModelChecker (stochastic_model_checker.hpp): instead of all   *)
(* branches, every shard follows random walks from the initial state, one  *)
(* per seed, until its time is up or an invariant fails; then the seed is  *)
(* the report.  Graphs are written as in Mesh.tla.                         *)
(***************************************************************************)
EXTENDS Naturals, Sequences

LOCAL INSTANCE SequencesExt

CONSTANTS
  WalkerCount,     \* n_shards_
  Graphs,          \* models under test: graph[s] = [choices, succ]; 0 is initial
  Generators,      \* what rng_ may draw: draws[seed][k], repeated from the start
  StartingSeeds,   \* what advanced_options().starting_seed may be, if it is given
  MaxSteps         \* bound on the steps of a shard

VARIABLES
  graph,
  bad,             \* the states check_invariants() rejects
  draws,
  walker           \* the checker of each shard

walkVars == <<graph, bad, draws, walker>>

-----------------------------------------------------------------------------
Walkers == 0 .. WalkerCount - 1
\* A branch is <<snapshot, delta>>.
\* starting_seed, if it is given, is the first seed of every shard.
NewWalker(i, given) ==
  [pc |-> "walk", seed |-> IF given = <<>> THEN i ELSE given[1], given |-> given, drawn |-> 0, current |-> 0,
   steps |-> 0, walked |-> 0,
   visited |-> {[state |-> 0, from |-> <<0, <<>>>>]}, count |-> 1, ok |-> TRUE, found |-> <<>>]
\* The invariants are not checked in the initial state.
WalkInit ==
  /\ graph \in Graphs /\ draws \in Generators
  /\ bad \in SUBSET DOMAIN graph
  /\ \E given \in {<<>>} \cup {<<s>> : s \in StartingSeeds} : walker = [i \in Walkers |-> NewWalker(i, given)]

Draw(seed, k) == draws[seed][(k % Len(draws[seed])) + 1]
\* The choices of one step(): pick_int draws, and adds to branch_delta_, only
\* where there is more than one value to choose from.
Picks(s, seed, drawn) ==
  LET radix == graph[s].choices
      Real(k) == SelectSeq(SubSeq(radix, 1, k), LAMBDA r : r > 1)
  IN  [k \in 1 .. Len(radix) |->
         IF radix[k] = 1 THEN 0 ELSE Draw(seed, drawn + Len(Real(k)) - 1) % radix[k]]
Delta(s, picks) == LET real == SelectSeq([k \in DOMAIN picks |-> <<graph[s].choices[k], picks[k]>>], LAMBDA p : p[1] > 1)
                   IN  [k \in DOMAIN real |-> real[k][2]]

\* visit(): the first branch that reached a state is kept.
Visit(w, state, branch) ==
  IF \E v \in w.visited : v.state = state
  THEN w
  ELSE [w EXCEPT !.visited = @ \cup {[state |-> state, from |-> branch]}, !.count = @ + 1]

\* The walk ended: go on from the initial state with a new seed.
\* Mutant: the generator starts over with the new seed, the state does not.
Restarted_Stays(w) == [w EXCEPT !.seed = @ + WalkerCount, !.drawn = 0, !.walked = 0]
Restarted(w) == [w EXCEPT !.current = 0, !.seed = @ + WalkerCount, !.drawn = 0, !.walked = 0]

\* One round of the loop of run().
WalkOn(i) ==
  LET w == walker[i]
      picks == Picks(w.current, w.seed, w.drawn)
      delta == Delta(w.current, picks)
      next == graph[w.current].succ[picks]
      stepped == [w EXCEPT !.steps = @ + 1, !.walked = @ + 1, !.drawn = @ + Len(delta)]
  IN  /\ w.pc = "walk" /\ w.steps < MaxSteps /\ w.seed \in DOMAIN draws
      /\ walker' = [walker EXCEPT ![i] =
           IF next \in bad THEN [stepped EXCEPT !.pc = "done", !.ok = FALSE, !.found = <<w.seed>>]
           ELSE LET seen == Visit(stepped, next, <<w.current, delta>>)
                IN  IF delta = <<>> /\ next # w.current THEN [seen EXCEPT !.pc = "check failed"]
                    ELSE IF delta = <<>> \/ next = w.current THEN Restarted(seen)
                    ELSE [seen EXCEPT !.current = next]]
      /\ UNCHANGED <<graph, bad, draws>>
\* The time is up.
TimeUp(i) ==
  /\ walker[i].pc = "walk"
  /\ walker' = [walker EXCEPT ![i].pc = "done"]
  /\ UNCHANGED <<graph, bad, draws>>

WalkStep == \E i \in Walkers : WalkOn(i) \/ TimeUp(i)
WalkSpec == WalkInit /\ [][WalkStep]_walkVars

\* combine_results, in the order of the shards.
combine_results(a, b) ==
  [ok |-> a.ok /\ b.ok, count |-> a.count + b.count, found |-> IF a.found # <<>> THEN a.found ELSE b.found]
Combined == FoldLeft(combine_results, walker[0], [i \in 1 .. WalkerCount - 1 |-> walker[i]])

-----------------------------------------------------------------------------
\* What a user gets from a seed: its walk, from the initial state.
WalkOfSeed(seed, n) ==
  LET at[k \in 0 .. n] ==
        IF k = 0 THEN [state |-> 0, drawn |-> 0]
        ELSE LET picks == Picks(at[k - 1].state, seed, at[k - 1].drawn)
             IN  [state |-> graph[at[k - 1].state].succ[picks],
                  drawn |-> at[k - 1].drawn + Len(Delta(at[k - 1].state, picks))]
  IN  at[n].state
\* A walk can be had again from its seed alone: a shard is where the walk of its
\* seed leads, and the seed that the combined result reports leads to a state that
\* the invariants reject.  No seed belongs to two shards, unless the options give the
\* first seed: then all shards walk the same.  Every state but the first is recorded
\* with a branch that leads to it.
WalksReplay ==
  /\ \A i \in Walkers : walker[i].pc = "walk" => walker[i].current = WalkOfSeed(walker[i].seed, walker[i].walked)
  /\ (\A i \in Walkers : walker[i].pc = "done") =>
       /\ Combined.ok <=> Combined.found = <<>>
       /\ ~Combined.ok => \E n \in 1 .. MaxSteps : WalkOfSeed(Combined.found[1], n) \in bad
  /\ \A i, j \in Walkers : i # j /\ walker[i].given = <<>> => walker[i].seed # walker[j].seed
  /\ \A i \in Walkers : \A v \in walker[i].visited :
       v.state # 0 => \E picks \in DOMAIN graph[v.from[1]].succ :
         Delta(v.from[1], picks) = v.from[2] /\ graph[v.from[1]].succ[picks] = v.state
=============================================================================
