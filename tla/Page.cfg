SPECIFICATION FairSpec
CONSTANTS
    j1 = j1
    j2 = j2
    None = None
    Jobs <- TwoJobs
    MaxPolls = 1
    MaxRetries = 1
    MaxFailures = 1
INVARIANTS ClientTypeOK ShownIsLatest OneOutcomeShown
PROPERTIES EventuallyTrue BusyEnds
CHECK_DEADLOCK FALSE
