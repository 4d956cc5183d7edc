SPECIFICATION FairSpec
CONSTANTS
    Clients = {c1, c2}
    Phones = {c1}
    Sessions = {d1}
    Vendors = {v}
    Loop = loop
    Addr = {a1, a2}
    FdNums = {5, 6}
    NONE = NONE
    MaxRequests = 1
    MaxUnsol = 1
    MaxFaults = 0
    DebugOptions = {"invalid", "radioon"}
CHECK_DEADLOCK FALSE
INVARIANT PendingIntegrity
PROPERTY ListensAgain
