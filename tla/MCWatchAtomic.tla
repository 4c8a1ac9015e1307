--------------------------- MODULE MCWatchAtomic ---------------------------
(* WatchAtomic on a one-bit value.                                         *)
EXTENDS WatchAtomic, TLC

MCValues == 0..1
\* fetch_add(1), wrapping, and set_value(1)
MCTransforms == {[v \in MCValues |-> (v + 1) % 2], [v \in MCValues |-> 1]}
FetchAddOnly == {[v \in MCValues |-> (v + 1) % 2]}
\* "take one if there is one", and clamp_min_value(1)
MCPartialTransforms == {[v \in MCValues |-> IF v = 0 THEN None ELSE v - 1],
                        [v \in MCValues |-> IF v < 1 THEN 1 ELSE v]}
TakeOne == {[v \in MCValues |-> IF v = 0 THEN None ELSE v - 1]}
AllCodes == StatusCodes
ThreadSymmetry == Permutations(Threads)
=============================================================================
