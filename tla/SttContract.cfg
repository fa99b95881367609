\* A stream whose server may be late, silent or gone.
CONSTANTS
    MaxFlushes = 2
    MaxWords = 2
    Late = TRUE
    Overlap = TRUE
    Drops = TRUE
SPECIFICATION SttSpec
INVARIANTS
    FlushesAnswered
PROPERTIES
    ImplementsContract
CHECK_DEADLOCK FALSE
