SPECIFICATION Spec
CONSTANTS
    eur = eur
    xau = xau
    s1 = s1
    s2 = s2
    NoSignal = NoSignal
    NoAsset = NoAsset
    Assets <- OneAsset
    Signals <- TwoSignals
    AssetOf <- OfEur
    MaxTrades = 2
    MaxTickets = 2
    MaxOpen = 1
    Lots = 1
    Slice = 1
    Kinds = {"scan", "read_gate"}
    MaxRestarts = 0
INVARIANTS
    TypeOK
PROPERTIES
    NoStackedFire
