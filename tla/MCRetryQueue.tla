---------------------------- MODULE MCRetryQueue ----------------------------
(* Constant values for model-checking the retry queue. *)
EXTENDS RetryQueue, TLC

CONSTANTS j1, j2, w1, w2

TwoJobs == {j1, j2}
TwoWorkers == {w1, w2}
Alike == Permutations(TwoJobs) \cup Permutations(TwoWorkers)

(* 10 s, 30 s and 90 s. *)
Delays == [r \in 0..2 |-> 3 ^ r]
=============================================================================
