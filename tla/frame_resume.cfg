\* A view that is hidden and shown again while its stream is lost.
SPECIFICATION Spec
CONSTANTS
    image1 = image1
    image2 = image2
    Nothing = Nothing
    Images <- MCImages
    Screens <- MCScreens
    CacheBudget = 1
    Unhealthy = 2
    MaxGeneration = 2
    MaxToggles = 2
    MaxFaults = 1
    MaxPipe = 3
CHECK_DEADLOCK FALSE
INVARIANTS
    ShownIsResumed
