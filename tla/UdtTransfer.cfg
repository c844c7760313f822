SPECIFICATION Spec
CONSTANTS
    MaxSeqNo = 31
    SeqNoTH = 15
    Isn = 31
    Payload = 3
    SndBufSize = 3
    RcvBufSizes = {2, 3}
    ExpMax = 2
    WriteSizes = {4}
    ReadSizes = {2}
    MaxBytes = 4
    NetCap = 1
    MaxFaults = 2
INVARIANTS StreamIntact AckedUnitsPresent NeverBroken BlocksAccountedFor
PROPERTY AllRead
