SPECIFICATION FairSpec
CONSTANTS
    Fields = {dd}
    Levels = {2}
    InitLimit = 1
    DefaultLimit = 1
    InitWiden = {TRUE, FALSE}
    InitApply = {TRUE}
    Step = 1
    TTL = 1
    Cooldown = 1
    RejectGap = 1
    Quota = 1
    Horizon = 2
    Faults = {"settings_read", "settings_write", "row_insert", "row_update"}
    MaxRows = 1
    MaxPresses = 0
    MaxSaves = 0
    MaxFaults = 1
    MaxRestarts = 1
PROPERTIES
    EveryRequestSettles
