SPECIFICATION FairSpec
CONSTANTS
    None = None
    Lfg = Lfg
    m1 = m1
    m2 = m2
    i1 = i1
    i2 = i2
    w1 = w1
    w2 = w2
    w3 = w3
    BaseMaps = {m1, m2}
    Instances = {i1, i2}
    ParentOf <- MCParentOf
    Consumers = {w1, w2, w3}
CHECK_DEADLOCK FALSE
INVARIANTS
    NobodyWaitsInVain
    PendingCountsRequests
    NothingRunsBetweenTicks
    NoDanglingMap
    NoNullCall
PROPERTIES
    ImplementsMapTick
    TickEnds
    ShutdownEnds
