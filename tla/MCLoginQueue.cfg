SPECIFICATION Spec
CONSTANTS
    None = None
    a1 = a1
    a2 = a2
    a3 = a3
    s1 = s1
    s2 = s2
    s3 = s3
    s4 = s4
    s5 = s5
    c1 = c1
    c2 = c2
    Accounts = {a1, a2, a3}
    Sessions = {s1, s2, s3, s4}
    AccountOf <- QueueAccountOf
    Chars = {}
    OwnerOf <- QueueOwnerOf
    PlayerLimit = 1
    DisconnectTolerance = TRUE
    Privileged = {}
CHECK_DEADLOCK FALSE
INVARIANTS
    QueueOfRegistered
    NobodyWaitsForAFreeSlot
    InQueueFlagMatchesList
    ClientsKnowTheirPosition
PROPERTIES
    NoOvertaking
    ImplementsLoginQueue
