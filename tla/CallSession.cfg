\* A call from greeting to hang-up: where the words are and how it ends.
CONSTANTS
    MaxWords = 4
    BargeInFrames = 2
    GapFrames = 1
    Environments <- MCEnvironments
SPECIFICATION FairSpec
INVARIANTS
    WordsKept
    NoTurnDuringHangUp
    CompletedCleanly
PROPERTIES
    LeavingEndsCall
CHECK_DEADLOCK FALSE
