\* Two self-hosted calls sharing a pool of two: shares and bills.
CONSTANTS
    a = a
    b = b
    Calls = {a, b}
    SelfHosted = {a, b}
    Ceiling = 2
    Unit = 2
    Preemptive = TRUE
    MaxClock = 2
    MaxTurns = 1
    MaxAudio = 1
    Readings <- MCReadings
    NoTime = NoTime
SPECIFICATION Spec
INVARIANTS
    UsageBilledOnce
    ShareConservation
    NoShareBelowFloor
    ExcessOnlyFromRewinds
CHECK_DEADLOCK FALSE
