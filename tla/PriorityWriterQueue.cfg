SPECIFICATION Spec
CONSTANTS
    N = 3
    Limit <- FrameLimits
    Priority = {0, 1, 2}
    Size = {1, 3}
    FrameSize = 5
    SizeMod = 64
    MaxMessages = 4
    MaxFrames = 4
INVARIANTS SentOnce FramesGenuine
CHECK_DEADLOCK FALSE
