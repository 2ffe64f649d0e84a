SPECIFICATION FairSpec
CONSTANTS
    Null = Null
    Dummy = Dummy
    Producers = {p1, p2, p3}
    Items = {i1, i2, i3}
INVARIANTS
    NoUseAfterDelete
    EveryPacketHasOneOwner
PROPERTIES
    ImplementsPacketFifo
    PacketsArrive
