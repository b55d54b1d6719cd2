\* Two checkers, one of which may hang. After the exit nothing happens.
SPECIFICATION FairSpec
CONSTANTS
    Checkers = {c1, c2}
    Hanging = {c2}
INVARIANTS
    TypeOK
    ExitOneHasCause
    SignalReachesRuns
    StartWaitsForRuns
PROPERTIES
    EveryCheckerRuns
    SignalEndsProcess
CHECK_DEADLOCK FALSE
