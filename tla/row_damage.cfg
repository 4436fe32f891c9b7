\* Frames of two small sizes, with every content, that move by up to two lines.
SPECIFICATION Spec
CONSTANTS
    Cells = {0, 1}
    Sizes <- MCSizes
    MaxPendingScrolls = 2
    MaxMove = 2
    MaxGeneration = 3
INVARIANTS
    TypeOK
    ShownIsScreen
    DrawnIsShown
CHECK_DEADLOCK FALSE
