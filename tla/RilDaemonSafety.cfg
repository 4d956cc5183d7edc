SPECIFICATION Spec
CONSTANTS
    Clients = {c1, c2}
    Phones = {c1, c2}
    Sessions = {d1}
    Vendors = {v}
    Loop = loop
    Addr = {a1}
    FdNums = {5, 6}
    NONE = NONE
    MaxRequests = 2
    MaxUnsol = 0
    MaxFaults = 1
    DebugOptions = {"poweroff", "unsol", "local"}
CHECK_DEADLOCK FALSE
INVARIANTS TypeOK PendingIntegrity AtMostOneResponse CancelledSilent LocalSilent OneConnection EventDiscipline FramesWhole
