SPECIFICATION LiveSpec
CONSTANTS
    Node = {1, 2}
    Dials <- BothDial
    BehindNat = {}
    Conn = {c1, c2, c3}
    NoSid = NoSid
    NoNode = NoNode
    Repeats = {1, 2}
    MaxBreaks = 1
    MaxPending = 2
    MaxData = 1
INVARIANTS Agreement OneMaster DataFindsReader
PROPERTIES EventuallyConnected
CHECK_DEADLOCK FALSE
