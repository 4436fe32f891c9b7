SPECIFICATION FairSpec
CONSTANTS
    Kinds = {"query", "load", "kitty", "reset", "upload"}
    MaxItems = 3
    MaxEvents = 2
    EventBatch = 1
    MaxWaiting = 2
    MaxQueued = 2
    QueueBound = 1
    MaxViews = 2
INVARIANTS
    TypeOK
    InOrderUnlessDecoding
    InFlightCounted
    WaitingHasDeadline
PROPERTIES
    ResetForgets
    EveryRequestSettled
CHECK_DEADLOCK FALSE
