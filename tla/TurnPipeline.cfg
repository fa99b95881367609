\* Three sentences of up to two chunks through the lookahead of two.
CONSTANTS
    MaxSentences = 3
    MaxChunks = 2
    Lookahead = 2
SPECIFICATION FairSpec
INVARIANTS
    HeardAsWritten
    LookaheadBounded
    RequestedIsBilled
PROPERTIES
    QuietAfterRecord
    TurnEnds
CHECK_DEADLOCK FALSE
