SPECIFICATION FairSpec
CONSTANTS
    Frames <- MCFrames
    Pictures <- MCPictures
    PictureOf <- MCPictureOf
    QueueSize = 1
    SpoolMax = 2
    MaxCrashes = 2
    MaxUnmounts = 2
INVARIANTS
    TypeOK
    CountersTrue
    MisplacedBounded
    SavedIsArchived
PROPERTY SpoolReachesNas
CHECK_DEADLOCK FALSE
