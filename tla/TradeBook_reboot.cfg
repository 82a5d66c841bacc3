SPECIFICATION Spec
CONSTANTS
    eur = eur
    xau = xau
    s1 = s1
    s2 = s2
    NoSignal = NoSignal
    NoAsset = NoAsset
    Assets <- TwoAssets
    Signals <- NoSignals
    AssetOf <- OfEur
    MaxTrades = 2
    MaxTickets = 3
    MaxOpen = 2
    Lots = 2
    Slice = 1
    Kinds = {"record", "log", "update", "read_open", "seed_trades", "seed_logs"}
    MaxRestarts = 2
SYMMETRY AssetSymmetry
INVARIANTS
    Guarded
    Journalled
PROPERTIES
    FreshTicket
    PricedByGuard
