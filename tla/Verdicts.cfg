\* A start-up limit of one second and a third.
SPECIFICATION FairSpec
CONSTANTS
    Timeout = 9
    QueryTimeout = 4
    TCPTimeout = 1
    Second = 3
    StartupTimeout = 4
    NoName = "none"
    EndpointLists <- Lists
INVARIANTS
    TypeOK
    HealthyIsEarned
    BlameHasCause
    TimeoutIsEarned
    StartupIsMeasured
PROPERTIES
    EveryRunReports
    RunEnds
