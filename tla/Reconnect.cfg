SPECIFICATION FairApiSpec
CONSTANTS
    Startup = startup
    None = None
    Tasks = {startup, t1, t2, t3}
    Connections = {c1, c2, c3, c4}
    StartupRetryMax = 2
    BrokerFaults <- AllBrokerFaults
    MaxBrokerFaults = 3
    Environments <- SomeEnvironments
    DbRetryMax = 2
    MaxDbFaults = 2
INVARIANTS ApiTypeOK ConnectedIsTrue NeverAbandoned ReconnectsBounded
PROPERTIES EventuallyConnected PublishAnswered
CHECK_DEADLOCK FALSE
