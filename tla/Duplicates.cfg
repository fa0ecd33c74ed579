SPECIFICATION ReadersSpec
CONSTANTS
    j1 = j1
    j2 = j2
    w1 = w1
    a1 = a1
    NoJob = NoJob
    Jobs <- TwoJobs
    Workers <- OneWorker
    Apis <- OneApi
    MaxRetries = 1
    FullProgress = 1
    Faults <- HarmlessFaults
    MaxFaults = 1
    ApiFaults <- Outages
    MaxApiFaults = 1
    Content <- SameContent
    Extra <- NoExtra
    Limit = 1
SYMMETRY Alike
INVARIANTS DuplicateIsCompleted WalkMissesOnlyUndone
CHECK_DEADLOCK FALSE
