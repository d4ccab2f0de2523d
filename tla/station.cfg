SPECIFICATION FairSpec
CONSTANTS
    c1 = c1
    c2 = c2
    Loads = {c1, c2}
    NoLoad = "noload"
    MaxTubes = 1
    MaxEmpties = 2
    NoShot = NoShot
    Items = {"i1", "i2"}
    Lots = {"l1"}
    EnvItem = "i1"
    NoLot = "nolot"
    NoOrder = NoOrder
    EnvStage = "COUNT"
    MaxVersion = 2
    MaxFails = 2
    EmptyAtMost = 0
    Budgets <- MCBudgets
INVARIANTS
    TypeOK
    LabelsOrdered
    CrateCountedOnce
    KeptIsLastScene
PROPERTIES
    OrderReaches
    LeftIsCounted
    ViewStreams
    ViewStops
    CaptureTaken
CHECK_DEADLOCK FALSE
