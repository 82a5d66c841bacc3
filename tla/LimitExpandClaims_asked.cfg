SPECIFICATION Spec
CONSTANTS
    Fields = {dd}
    Levels = {1, 2}
    InitLimit = 1
    DefaultLimit = 1
    InitWiden = {FALSE}
    InitApply = {TRUE}
    Step = 1
    TTL = 1
    Cooldown = 1
    RejectGap = 1
    Quota = 1
    Horizon = 2
    Faults = {}
    MaxRows = 2
    MaxPresses = 0
    MaxSaves = 0
    MaxFaults = 0
    MaxRestarts = 0
INVARIANTS
    AskedFirst
