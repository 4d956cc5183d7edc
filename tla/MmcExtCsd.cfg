SPECIFICATION Spec
CONSTANTS
    Procs = {m}
    Commands <- MCCommands
    HcWpGrpSize = 8
    HcEraseGrpSize = 1
    SecCount = 7634944
    MaxEnhSizeMult = 500
    Word = 1073741824
    Supports <- MCSupports
    MaxCommands = 3
    MaxFaults = 1
    MaxCycles = 1
CHECK_DEADLOCK FALSE
INVARIANTS TypeOK SealedAsRequested SealedWithinLimits BootAreaValid
PROPERTIES SealedFrozen OthersUntouched HwResetOnce
