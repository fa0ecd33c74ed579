SPECIFICATION Spec
CONSTANTS
    j1 = j1
    j2 = j2
    w1 = w1
    w2 = w2
    NoJob = NoJob
    Jobs <- OneJob
    Workers <- OneWorker
    MaxRetries = 2
    FullProgress = 2
    Faults <- AllFaults
    MaxFaults = 2
    Extra <- CorruptExtra
INVARIANTS TypeOK ResultCoherent NoLostWork NoWedgedWorker
CHECK_DEADLOCK FALSE
