SPECIFICATION WatchSpec
CONSTANTS
    Positions = {1, 2}
    Big = {1}
    R = 4
    Trigger = 4
    Trail = 6
    TakeProfit = 9
    Feed <- SomePrices
    Levels <- SomeLevels
    Modes = {TRUE, FALSE}
    MaxFaults = 1
    MaxRestarts = 1
    MaxLevels = 1
    Benches = {"cycle", "exit", "spot", "candles"}
    Markets <- SomeMarkets
    Entries <- SomeEntries
    Policies <- SomePolicies
    MaxDays = 6
    AvgHold = 24
    HalvesUp = {4495, 5995, 6495}
    Callers = {"guard", "page"}
    Assets = {"eur", "oil"}
    Trusting = {"guard"}
    Wants = {{"eur"}, {"eur", "oil"}}
    Mapped = {"eur"}
    Keys = 2
    SpotTTL = 2
    LiveTTL = 2
    RefTTL = 3
    Budget = 1
    MaxClock = 4
    MaxAsks = 3
    MaxTurns = 1
    SnapCallers = {"guard", "scan"}
    SnapWants = {{"eur"}, {"eur", "oil"}}
    Feeds = {"eur"}
    TTL = 2
    Request = 1
    SnapBudget = 2
    Slots = 1
    SnapClock = 4
    SnapAsks = 4
INVARIANTS
    StopsKept
    ExitsFair
    PricesFresh
    NoneForgotten
    CandlesOnce
PROPERTIES
    CycleSteps
    WorseNeverHolds
CHECK_DEADLOCK FALSE
