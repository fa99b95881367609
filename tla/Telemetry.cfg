\* One call of five events, small queues, and every fault once.
CONSTANTS
    Ended = 5
    QueueSize = 2
    Replay = 2
    StreamSize = 3
    MaxTimeouts = 1
    MaxRestarts = 1
    MaxDrops = 1
SPECIFICATION Spec
INVARIANTS
    EventsOnce
    PanelFaithful
PROPERTIES
    EndIsReached
CHECK_DEADLOCK FALSE
