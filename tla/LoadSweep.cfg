\* A sweep over levels of one and two callers, one call of it in detail.
CONSTANTS
    Scripts <- MCScripts
    Frame = 1
    ReplyTimeout = 1
    MaxQueue = 1
    Grace = 1
    Chunks <- MCChunks
    MaxChunks = 2
    MaxLate = 1
    MaxClock = 18
    Modes <- MCModes
    Deployments <- MCDeployments
    Levels <- MCLevels
    Beyond <- MCBeyond
    BreakFrom = 1
    MaxCalls = 3
    SpendLimit = 2
    Latencies <- MCLatencies
SPECIFICATION Spec
INVARIANTS
    TurnsAccounted
    DelaysAreTrue
    VerdictsAreSound
PROPERTIES
    EveryCallIsOver
CHECK_DEADLOCK FALSE
