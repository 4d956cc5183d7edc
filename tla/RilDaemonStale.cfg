SPECIFICATION Spec
CONSTANTS
    Clients = {c1, c2}
    Phones = {c1, c2}
    Sessions = {d1}
    Vendors = {v}
    Loop = loop
    Addr = {a1}
    FdNums = {5}
    NONE = NONE
    MaxRequests = 1
    MaxUnsol = 0
    MaxFaults = 0
    DebugOptions = {"poweroff"}
CHECK_DEADLOCK FALSE
INVARIANT OwnResponsesOnly
