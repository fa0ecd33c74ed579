SPECIFICATION FairSystemSpec
CONSTANTS
    j1 = j1
    j2 = j2
    w1 = w1
    w2 = w2
    a1 = a1
    a2 = a2
    NoJob = NoJob
    Jobs <- OneJob
    Workers <- OneWorker
    Apis <- TwoApis
    MaxRetries = 1
    FullProgress = 1
    Faults <- AllFaults
    MaxFaults = 2
    ApiFaults <- AllApiFaults
    MaxApiFaults = 2
    Content <- SameContent
    Extra <- NoExtra
INVARIANTS SystemTypeOK AcceptedIsDurable FileOutlivesRow UnavailableIsUndone
PROPERTY AcceptedSettles
CHECK_DEADLOCK FALSE
