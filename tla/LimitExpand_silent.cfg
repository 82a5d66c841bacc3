SPECIFICATION Spec
CONSTANTS
    Fields = {dd, wk}
    Levels = {3}
    InitLimit = 1
    DefaultLimit = 1
    InitWiden = {TRUE, FALSE}
    InitApply = {TRUE, FALSE}
    Step = 1
    TTL = 1
    Cooldown = 1
    RejectGap = 1
    Quota = 1
    Horizon = 2
    Faults = {}
    MaxRows = 2
    MaxPresses = 0
    MaxSaves = 0
    MaxFaults = 0
    MaxRestarts = 0
INVARIANTS
    OneQuestion
    StepPerQuestion
