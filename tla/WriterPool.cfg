SPECIFICATION LiveSpec
CONSTANTS
    Sid = {s1, s2}
    Size = {1, 3}
    FrameSize = 2
    MaxBytes = 4
    MaxRemain = 4
INVARIANTS TypeOK AccountsWatched QueuesIntact SentInOrder RemainCovers
PROPERTIES Drained
