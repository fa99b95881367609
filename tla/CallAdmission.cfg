\* Two self-hosted calls and an API call on a pool of one: admission,
\* refusal and the return of slots.
CONSTANTS
    a = a
    b = b
    d = d
    Calls = {a, b, d}
    SelfHosted = {a, b}
    Ceiling = 1
    Unit = 1
    Preemptive = TRUE
    MaxClock = 1
    MaxTurns = 0
    MaxAudio = 0
    Readings <- MCReadings
    NoTime = NoTime
SPECIFICATION FairSpec
INVARIANTS
    AdmissionExact
PROPERTIES
    EndingGivesSlotBack
CHECK_DEADLOCK FALSE
