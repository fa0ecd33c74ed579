SPECIFICATION Spec
CONSTANTS
    j1 = j1
    j2 = j2
    w1 = w1
    w2 = w2
    NoJob = NoJob
    Jobs <- OneJob
    Workers <- TwoWorkers
    MaxRetries = 3
    FullProgress = 1
    Faults <- NoFaults
    MaxFaults = 0
    Extra <- NoExtra
INVARIANT NoLostWork
CHECK_DEADLOCK FALSE
