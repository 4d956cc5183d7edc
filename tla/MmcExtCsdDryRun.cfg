SPECIFICATION Spec
CONSTANTS
    Procs = {m}
    Commands <- MCCommands
    HcWpGrpSize = 8
    HcEraseGrpSize = 1
    SecCount = 7634944
    MaxEnhSizeMult = 500
    Word = 1073741824
    Supports <- MCSupports
    MaxCommands = 2
    MaxFaults = 0
    MaxCycles = 0
CHECK_DEADLOCK FALSE
INVARIANT DryRunHarmless
