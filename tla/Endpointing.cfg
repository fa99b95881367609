\* The three detectors against the port's promise.
CONSTANTS
    MinWait = 1
    DefaultWait = 2
    MaxWait = 4
    SilenceWait = 3
    Onset = 1
    Ceiling = 4
    VadOnset = 2
    VadReset = 2
    MaxGap = 2
    Horizon = 4
SPECIFICATION DetectorSpec
INVARIANTS
    NothingStale
PROPERTIES
    ImplementsPort
