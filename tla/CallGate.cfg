\* Two calls, metered or self-hosted, and a description, in four deployments.
CONSTANTS
    a = a
    b = b
    d = d
    NoEngine = NoEngine
    Calls = {a, b}
    Descriptions = {d}
    Callers = {a, b, d}
    Kinds = {"tts"}
    Reports <- MCReports
    Ttl = 2
    ProbeLimit = 1
    MaxClock = 2
    MaxDeploys = 1
    MaxLoops = 2
    Requests <- MCRequests
    Deployments <- MCDeployments
    SpendLimit = 1
    CostPerCall = 2
    Entries <- MCEntries
SPECIFICATION GateSpec
INVARIANTS
    AdmittedWithinPolicy
    EvidenceIsFresh
PROPERTIES
    ProbesAreApart
    EveryoneIsAnswered
CHECK_DEADLOCK FALSE
