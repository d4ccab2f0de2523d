SPECIFICATION FairSpec
CONSTANTS
    a = a
    b = b
    d1 = d1
    NoTube = NoTube
    Tubes <- MCBatch
    FrameOf <- MCBatchFrameOf
    LastFrame = 1
    Kinds = {}
    MaxUnits = 3
    ImageUnits = 1
    FlushBatch = 1
    MaxCalls = 1
    Drainers = {d1}
PROPERTY LocalQueueDrains
CHECK_DEADLOCK FALSE
