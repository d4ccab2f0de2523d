SPECIFICATION Spec
CONSTANTS
    a = a
    b = b
    d1 = d1
    NoTube = NoTube
    Tubes <- MCBatch
    FrameOf <- MCBatchFrameOf
    LastFrame = 1
    Kinds = {"result"}
    MaxUnits = 2
    ImageUnits = 1
    FlushBatch = 1
    MaxCalls = 2
    Drainers = {d1}
INVARIANTS
    TypeOK
    AnnouncedOnce
    NoSilentLoss
PROPERTY LedgerSpec
SYMMETRY Sym
CHECK_DEADLOCK FALSE
