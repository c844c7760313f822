CONSTANTS
    h1 = h1
    h2 = h2
    Hosts = {h1, h2}
    Senders = {h1}
    MaxEnvelopes = 2
    MaxDials = 2
    MaxFaults = 1
SPECIFICATION Spec
INVARIANTS DeliveredInOrder ForgottenWereDelivered NeverStranded
PROPERTY EventuallySettled
CHECK_DEADLOCK FALSE
