SPECIFICATION FairSpec
CONSTANTS
    Panes = {p1, p2}
    Clients = {c1, c2}
    Ops = {"create", "close", "attach", "recover"}
    MaxAttempts = 2
    Mortal = {p1}
    Faults = {"leave", "late", "refresh", "stuck", "stop"}
INVARIANTS
    DrainedProgramsEnd
PROPERTIES
    ShutdownEnds
    GivenUpCreatesEnd
CHECK_DEADLOCK FALSE
