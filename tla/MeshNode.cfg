CONSTANTS
    Sid = {s1, s2, s3}
    Node = {0, 2, 3}
    Self = 1
    BehindNat = {3}
    NoSid = NoSid
    NoNode = NoNode
    MaxDeferred = 1
    MaxCalls = 1
SPECIFICATION Spec
CHECK_DEADLOCK FALSE
INVARIANTS AccountsMatchSockets AssertionsHold WritersOpen AnnouncedMatchesWriters
