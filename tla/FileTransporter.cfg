CONSTANTS
    Size = 3
    MaxSends = 2
    MaxBreaks = 1
    MaxStops = 0
SPECIFICATION Spec
INVARIANT CommittedIntact
CHECK_DEADLOCK FALSE
