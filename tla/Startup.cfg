SPECIFICATION FairSpec
CONSTANTS
    StartupRetryMax = 3
    MaxLosses = 2
INVARIANTS StartupTypeOK NothingRefused Routed ReleasedInOrder
PROPERTIES StopHonoured
CHECK_DEADLOCK FALSE
