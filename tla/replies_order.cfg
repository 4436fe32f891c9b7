SPECIFICATION Spec
CONSTANTS
    Kinds = {"query", "load", "upload"}
    MaxItems = 3
    MaxEvents = 2
    EventBatch = 2
    MaxWaiting = 2
    MaxQueued = 2
    QueueBound = 1
    MaxViews = 1
INVARIANT InOrder
CHECK_DEADLOCK FALSE
