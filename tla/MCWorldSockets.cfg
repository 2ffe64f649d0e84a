SPECIFICATION FairSpec
CONSTANTS
    Sockets = {s1}
    NoSocket = NoSocket
    MaxPackets = 3
INVARIANTS
    TypeOK
    NoUseOfDeletedSession
    OpenSocketIsServed
    RefusedClientIsTold
PROPERTIES
    DelayedCloseEnds
