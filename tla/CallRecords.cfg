\* Two calls of one pipeline or of two, with a report at any time.
CONSTANTS
    a = a
    b = b
    Calls = {a, b}
    KindsOf <- MCKindsOf
    Segments <- MCSegments
    LastSegment <- MCLastSegment
    Cards <- MCCards
    MaxTurns = 1
    Limit = 2
    MaxBreaks = 1
SPECIFICATION Spec
INVARIANTS
    ReportsAreTrue
PROPERTIES
    ImplementsStore
    CompletedIsFinal
CHECK_DEADLOCK FALSE
