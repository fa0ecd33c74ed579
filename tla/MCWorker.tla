------------------------------ MODULE MCWorker ------------------------------
(* Constant values for model-checking the worker. *)
EXTENDS Worker

CONSTANTS j1, j2, w1, w2

OneJob == {j1}
TwoJobs == {j1, j2}
OneWorker == {w1}
TwoWorkers == {w1, w2}

NoFaults == {}
ProcessFaults == {"crash", "stop", "refused"}
LostCommits == {"commitLost"}
AllFaults == FaultKinds
AllButDb == FaultKinds \ {"db"}

NoExtra == {}
MalformedExtra == {Malformed}
CorruptExtra == {[job |-> j1, retries |-> Corrupt]}
=============================================================================
