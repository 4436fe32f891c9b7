SPECIFICATION Spec
CONSTANTS
    Panes = {p1, p2}
    Clients = {c1, c2, c3}
    Ops = {"create", "split", "close", "attach"}
    MaxAttempts = 2
    Mortal = {p1, p2}
    Faults = {"leave", "late", "refresh", "lost", "stuck"}
SYMMETRY Symmetry
INVARIANTS TypeOK NoOrphan
PROPERTIES LayoutEdits
CHECK_DEADLOCK FALSE
