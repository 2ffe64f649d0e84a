SPECIFICATION Spec
CONSTANTS
    Sockets = {s1}
    NoSocket = NoSocket
    MaxPackets = 1
INVARIANTS
    DuplicateIsLogged
