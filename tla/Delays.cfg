SPECIFICATION Spec
CONSTANTS
    j1 = j1
    j2 = j2
    w1 = w1
    w2 = w2
    NoJob = NoJob
    Jobs <- TwoJobs
    Workers <- TwoWorkers
    MaxRetries = 3
    Ttl <- Delays
    MaxCrashes = 1
SYMMETRY Alike
INVARIANT WaitBounded
PROPERTIES BackedOff ImplementsBags
CHECK_DEADLOCK FALSE
