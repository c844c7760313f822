SPECIFICATION Spec
CONSTANTS
    MaxSeqNo = 15
    SeqNoTH = 7
    Window = 5
INVARIANTS ListExact ListWellFormed
