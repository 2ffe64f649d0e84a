SPECIFICATION Spec
CONSTANTS
    Players = {p1, p2}
    Items = {i1, i2, i3}
    NoPlayer = NoPlayer
    NoItem = NoItem
    TRADE_SLOT_TRADED_COUNT = 2
    MAX_MONEY_AMOUNT = 2
    Room = 2
    Limited = {i1, i2, i3}
    MaxCount = 2
SYMMETRY Symmetry
PROPERTIES
    EverySlotIsSwapped
