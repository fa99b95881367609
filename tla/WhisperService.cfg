\* Two calls, two workers, every engine.
CONSTANTS
    s1 = s1
    s2 = s2
    Sockets = {s1, s2}
    Workers = 2
    MaxUtterance = 1
    Engines = {"buffered", "local", "remote"}
    MaxFlushes <- MCFlushes
    MaxFrames <- MCFrames
SPECIFICATION Spec
INVARIANTS
    SlotsSafe
    AnswersFaithful
    NobodyStuck
PROPERTIES
    NothingTakenBack
CHECK_DEADLOCK FALSE
