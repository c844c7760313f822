SPECIFICATION Spec
CONSTANTS
    Lane = {0, 1}
    HeaderSize = 2
    Body = {1, 2}
    FrameSize = 6
    MaxPackets = 4
INVARIANTS InOrder NothingHeld
CHECK_DEADLOCK FALSE
