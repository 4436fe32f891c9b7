SPECIFICATION FairSpec
CONSTANTS
    r1 = r1
    r2 = r2
    Requests = {r1, r2}
    Waited = {r1, r2}
    QueueBound = 1
    NotesBound = 1
    MaxBlocks = 1
    MaxNotes = 1
    MaxLost = 1
    NoRequest = NoRequest
INVARIANTS
    TypeOK
    AnswersTrue
    LossIsRefreshed
PROPERTIES
    RequestsAnswered
    ExitIsTold
    ThreadsEnd
CHECK_DEADLOCK FALSE
