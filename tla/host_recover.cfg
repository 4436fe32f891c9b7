SPECIFICATION Spec
CONSTANTS
    Panes = {p1, p2}
    Clients = {c1, c2}
    Ops = {"create", "recover"}
    MaxAttempts = 2
    Mortal = {}
    Faults = {}
INVARIANT LivePanesListed
CHECK_DEADLOCK FALSE
