SPECIFICATION Spec
CONSTANTS
    Procs = {m}
    Commands <- MCCommands
    k1 = k1
    k2 = k2
    v1 = v1
    v2 = v2
    Keys = {k1, k2}
    Values = {v1, v2}
    Short = 4
    Blocks = 2
    MaxCounter = 2
    NONE = NONE
    MaxCommands = 6
    MaxFaults = 2
CHECK_DEADLOCK FALSE
INVARIANT TypeOK
PROPERTY Implements
