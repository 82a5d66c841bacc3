SPECIFICATION Spec
CONSTANTS
    Fields = {dd}
    Levels = {2}
    InitLimit = 1
    DefaultLimit = 3
    InitWiden = {FALSE}
    InitApply = {TRUE}
    Step = 1
    TTL = 1
    Cooldown = 1
    RejectGap = 1
    Quota = 1
    Horizon = 2
    Faults = {}
    MaxRows = 1
    MaxPresses = 1
    MaxSaves = 1
    MaxFaults = 0
    MaxRestarts = 0
INVARIANTS
    TypeOK
    OnlyGrantedLimits
    RejectionHolds
PROPERTIES
    NoSilentResume
    Implements
