SPECIFICATION Spec
CONSTANTS
    Fd = {1, 2, 3}
    Invalid = Invalid
    MaxSlots = 4
    MaxPending = 2
INVARIANTS RecordsAgree ReportsExact
