SPECIFICATION LabSpec
CONSTANTS
    Closes = {100, 121}
    Spike = 20
    Week = 2
    Slack = 1
    Floor = 2
    MaxDay = 3
    MaxMoves = 1
    MaxLost = 1
    Configs <- Asks
    Scores = {0, 1}
    Batch = 2
    Recent = 2
    Keep = 1
    Scenes <- SceneSets
    MaxRuns = 2
    MaxEvents = 3
    MaxEnds = 1
    Bars <- SomeBars
    Cells <- SomeCells
    Warmup = 1
    Cooldown = 2
    MaxBars = 3
    Kinds <- SomeKinds
    Won <- SomeWon
    Config <- SomeConfig
    RefCells <- SomeRefs
    Baseline <- SomeBaseline
    Cost = 1
    Scale = 12
    MinTrain = 2
    MinTest = 1
    GateMin = 1
    CellMin = 1
    Margin = 1
    MaxSamples = 4
    MaxRounds = 3
    Benches = {"study", "labels", "verdict"}
INVARIANTS RunsHonest LabelsSound
PROPERTIES ImmutablePast SlotFreed NoLookahead RoundsFair
CHECK_DEADLOCK FALSE
