---------------------------- MODULE MCScribeFlow ----------------------------
(* Constant values for model-checking the whole service. *)
EXTENDS ScribeFlow

CONSTANTS j1, j2, w1, w2, a1, a2

OneJob == {j1}
OneWorker == {w1}

(* Two processes on one volume: each purges what the other one received. *)
TwoApis == {a1, a2}

SameContent == [j \in Jobs |-> 1]

AllFaults == FaultKinds
AllApiFaults == ApiFaultKinds

NoExtra == {}
=============================================================================
