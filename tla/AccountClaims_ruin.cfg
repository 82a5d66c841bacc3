SPECIFICATION ScheduleSpec
CONSTANTS
    Workers = {"guard", "scan"}
    Watched = {"guard"}
    Limit = 2
    MaxFires = 2
    MaxLost = 2
    Assets = {a1, a2}
    Devices = {d1}
    Scenes <- SceneSets
    GuardSays = {"sl_moved"}
    Window <- Windows
    Hour = 2
    Day = 2
    Newest = 20
    MaxFails = 2
    MaxAlerts = 2
    MaxClock = 2
    MaxTrouble = 1
    MaxEdits = 1
    Benches = {"account"}
    Capitals = {30, 12}
    Profits <- SomeProfits
    Marks <- SomeMarks
    Limits <- SomeLimits
    Span <- SomeSpan
    HoursPerDay = 2
    StaleMult = 3
    MaxHours = 3
    MaxTrades = 2
    MaxMisses = 1
    MaxReseeds = 1
INVARIANTS RuinSeen
CHECK_DEADLOCK FALSE
