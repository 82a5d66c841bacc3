SPECIFICATION EntrySpec
CONSTANTS
    Benches = {"gates", "cards", "setup"}
    Assets <- MCAssets
    Pair <- MCPair
    Metals <- MCMetals
    Worth <- MCWorth
    Spread <- MCSpread
    Signals <- MCSignals
    Legs <- MCLegs
    Plans <- MCPlans
    NewsOf <- MCNewsOf
    Outages <- MCOutages
    MaxOrders = 2
    MaxTurns = 1
    MaxOutages = 1
    Values <- SomeValues
    MinOpp = 65
    MinConf = 700
    Scanners = {"job", "owner"}
    Universe <- SomeAssets
    Tradable = {"EURUSD", "XAUUSD"}
    Snapshots <- SomeSnapshots
    Openings <- SomeOpenings
    Level <- SomeLevel
    Modes = {"short"}
    Lo = 30
    Hi = 150
    MaxPerDay = 2
    BreakoutOnly = TRUE
    TTL = 0
    MaxCards = 2
    MaxClock = 1
    MaxScans = 2
    MaxMoves = 1
INVARIANTS
    OrdersBounded
    CardAgrees
    CardsSound
    GradedAlike
PROPERTIES
    CycleBounded
    MoreIsMore
CHECK_DEADLOCK FALSE
