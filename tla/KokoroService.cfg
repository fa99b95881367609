\* Three requests on one worker: slots, threads, streams that fail or are left.
CONSTANTS
    r1 = r1
    r2 = r2
    r3 = r3
    Requests = {r1, r2, r3}
    Workers = 1
    MaxSegments = 2
    Voices <- MCVoices
    Deployments <- MCDeployments
SPECIFICATION Spec
INVARIANTS
    SlotsSafe
    AnswersFaithful
PROPERTIES
    EveryRequestEnds
CHECK_DEADLOCK FALSE
