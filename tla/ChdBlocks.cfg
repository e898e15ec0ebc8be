SPECIFICATION ImageSpec
CONSTANTS
    SectorSize <- Bytes
    SessionGap = 2
    TrackPregap = 1
    MaxGapFrames = 10
    CacheSize = 4
    NumCacheWindows = 2
    ReadSizes = {3, 6}
    Rips <- MCRips
    ReadRips <- MCReadRips
    FrameSize = 4
    CookedSize = 2
    SubchannelSize = 1
    FramesPerHunk = 2
    Tables <- MCTables
    Discs <- MCDiscs
    Frames = {1, 2, 3}
    Overrun = 1
CHECK_DEADLOCK FALSE
INVARIANT BlocksAreSectors
