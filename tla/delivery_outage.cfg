SPECIFICATION FairSpec
CONSTANTS
    a = a
    b = b
    d1 = d1
    NoTube = NoTube
    Tubes <- MCBatch
    FrameOf <- MCBatchFrameOf
    LastFrame = 1
    Kinds = {"raw", "result"}
    MaxUnits = 2
    ImageUnits = 1
    FlushBatch = 1
    MaxCalls = 1
    Drainers = {}
INVARIANT PathIntegrity
PROPERTY SpoolDrains
CHECK_DEADLOCK FALSE
