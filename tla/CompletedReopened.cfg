SPECIFICATION Spec
CONSTANTS
    j1 = j1
    j2 = j2
    w1 = w1
    w2 = w2
    NoJob = NoJob
    Jobs <- OneJob
    Workers <- OneWorker
    MaxRetries = 3
    FullProgress = 1
    Faults <- LostCommits
    MaxFaults = 1
    Extra <- NoExtra
PROPERTY CompletedIsFinal
CHECK_DEADLOCK FALSE
