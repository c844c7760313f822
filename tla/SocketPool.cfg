CONSTANTS
    SocketId = {s1, s2, s3}
    Kind = {accepted, connected}
    NoSocket = NoSocket
    MaxRemovable = 3
SPECIFICATION Spec
INVARIANTS TypeOK LocateNeverTerminates SlotsAccounted
PROPERTIES KeptUntilRequested TableSpec
