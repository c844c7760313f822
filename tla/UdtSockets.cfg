CONSTANTS
    MaxSockets = 3
    AppSockets = 1
    Peers = {p1, p2}
    Backlog = 1
SPECIFICATION Spec
INVARIANTS TablesLive MuxCounted QueueAnnounced
PROPERTY EventuallyDeleted
CHECK_DEADLOCK FALSE
