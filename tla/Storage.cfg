SPECIFICATION Spec
CONSTANTS
    NONE = NONE
    TORN = TORN
    Parts = {16, 20}
    SwapArgs = {0, 1, 3}
    MaxBoots = 3
    MaxPlans = 2
    MaxFaults = 2
CHECK_DEADLOCK FALSE
INVARIANTS TypeOK FstabTrue ViewsAgree
PROPERTY PlanApplied
