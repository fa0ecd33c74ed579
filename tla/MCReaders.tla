------------------------------ MODULE MCReaders ------------------------------
(* Constant values for model-checking the readers of the service. *)
EXTENDS Readers, TLC

CONSTANTS j1, j2, w1, a1

TwoJobs == {j1, j2}
OneWorker == {w1}
OneApi == {a1}

SameContent == [j \in Jobs |-> 1]

HarmlessFaults == {"crash", "stop", "refused", "db"}
Outages == {"noChannel", "lostInsert"}

NoExtra == {}

Alike == Permutations(TwoJobs)
=============================================================================
