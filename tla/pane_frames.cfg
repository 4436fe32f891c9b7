SPECIFICATION FairSpec
CONSTANTS
    Views = {v1}
    QueueSize = 1
    MaxScreen = 1
    MaxTitle = 2
    MaxAsks = 2
    Inputs = {"Hide", "Viewport", "Change"}
PROPERTIES FirstFrameFresh NoFrameWhileHidden TitleNeverGoesBack FramesConverge
CHECK_DEADLOCK FALSE
