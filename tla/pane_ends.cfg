SPECIFICATION FairSpec
CONSTANTS
    Views = {v1}
    QueueSize = 2
    MaxScreen = 0
    MaxTitle = 0
    MaxAsks = 1
    Inputs = {"Resync", "Close", "Stop", "Detach", "Panic", "Hook", "Timeout"}
INVARIANTS TypeOK NobodyForgotten ExitToldOnce EndIsTold ShutdownIsNoExit
PROPERTIES EndReachesViews
CHECK_DEADLOCK FALSE
