SPECIFICATION FairSpec
CONSTANTS
    None = None
    t1 = t1
    t2 = t2
    q = q
    w1 = w1
    w2 = w2
    Operations = {t1, t2, q}
    Transactions = {t1, t2}
    SizeOf <- MCSizeOf
    MaxLosses = 1
    Consumers = {w1, w2}
CHECK_DEADLOCK FALSE
INVARIANTS
    NobodyWaitsInVain
    EveryOperationInOnePlace
    ResultMatchesDatabase
    ConnectionOutlivesWorker
PROPERTIES
    CloseEnds
    OperationEnds
