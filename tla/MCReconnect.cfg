SPECIFICATION FairSpec
CONSTANTS
    None = None
    a1 = a1
    a2 = a2
    a3 = a3
    s1 = s1
    s2 = s2
    s3 = s3
    s4 = s4
    s5 = s5
    c1 = c1
    c2 = c2
    Accounts = {a1}
    Sessions = {s1, s2, s3}
    AccountOf <- ReconnectAccountOf
    Chars = {c1, c2}
    OwnerOf <- ReconnectOwnerOf
    PlayerLimit = 0
    DisconnectTolerance = FALSE
    Privileged = {}
CHECK_DEADLOCK FALSE
INVARIANTS
    EverySessionInOnePlace
    CharacterHasOneSession
    NobodyOnlineWithoutSession
PROPERTIES
    ShutdownLogsEverybodyOut
    OfflineSessionNeverReplaced
    ClosedSessionIsRemoved
    OfflineSessionEnds
