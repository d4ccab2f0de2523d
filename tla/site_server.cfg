SPECIFICATION Spec
CONSTANTS
    SurfaceCodes = {"OIL", "DIS"}
    Train = "train"
    OutsideOrder = "w9"
    TrainingLots = {"train"}
    LotOf <- MCLotOf
    NoWorkOrder = NoWorkOrder
    Capacity = 6
    MinFree = 2
    RawDays = 1
    OkDays = 1
    NgDays = 2
    ReviewDays = 2
    MaxAge = 3
    Versions <- MCVersions
    Slots = {1, 2}
    Parts = {"packages", "screens"}
    BuildRoom = 2
    Menus <- MCMenus
    Budgets <- MCBudgets
INVARIANTS
    TypeOK
    NothingSlipsThrough
    FiguresAgree
PROPERTIES
    NgGoesLast
    SuccessIsInstalled
CHECK_DEADLOCK FALSE
