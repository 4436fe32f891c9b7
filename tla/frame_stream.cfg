\* One subscription of a view that is hidden and shown again, whose stream is
\* lost and whose terminal at times shows a state that does not fit.
SPECIFICATION FairSpec
CONSTANTS
    image1 = image1
    image2 = image2
    Nothing = Nothing
    Images <- MCImages
    Screens <- MCScreens
    CacheBudget = 1
    Unhealthy = 2
    MaxGeneration = 2
    MaxToggles = 2
    MaxFaults = 2
    MaxPipe = 3
CHECK_DEADLOCK FALSE
INVARIANTS
    TypeOK
    FramesFit
    CachesAgree
    HiddenGetsNoFrames
PROPERTIES
    CatchesUp
