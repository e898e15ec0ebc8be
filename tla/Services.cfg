SPECIFICATION ServicesSpec
CONSTANTS
    SectorSize <- Bytes
    SessionGap = 2
    TrackPregap = 1
    MaxGapFrames = 10
    CacheSize = 4
    NumCacheWindows = 2
    ReadSizes = {3, 6}
    Rips <- MCRips
    ReadRips <- MCReadRips
    FrameSize = 4
    CookedSize = 2
    SubchannelSize = 1
    FramesPerHunk = 2
    Tables <- MCTables
    Discs <- MCDiscs
    Frames = {1, 2, 3}
    Overrun = 1
    longDisc = longDisc
    shortDisc = shortDisc
    Devices = {longDisc, shortDisc}
    NoDevice = NoDevice
    Leadout <- MCLeadout
    AddressSpace = 8
    Addresses = {1}
    Lengths <- MCLengths
    SectorUnits = 2
    BufferSectors = 2
    MaxPlays = 2
    CommandsLand <- QuietSteps
    CardBlocks = 3
    ByteSpace = 3
    MaxChunk = 2
    Counts = {3}
    MaxEvents = 4
    MaxConsecutiveWriteFailures = 2
    Capacity = 5
    POST_TRIGGER_RECORDS = 2
    MaxDropped = 1
    Clients = {1, 2, 3}
    MaxSessions = 2
    PassivePortBase = 9000
    Shipped = {"fallback"}
    OwnImages = {"own"}
    SystemFiles = {"kernel", "config"}
    MaxCuts = 2
    MaxFaults = 1
    MaxUploads = 1
    Displays = {"st7789", "sh1106", "mt32pi"}
    ArtImages = {"album"}
    PlainImages = {"single"}
    NoImage = NoImage
    PressesLand <- QuietPlaces
INVARIANTS
    TypeOK
    SectorsAreFound
    TocMatchesDisc
    FilesAreClosedOnce
    RunDeviceIsAlive
    GoodMeansMoved
    ExportIsConsistent
    PassivePortIsOwn
    UpgradeIsWhole
    ImagesSurvive
    DisplayInOrder
PROPERTIES
    ImplementsDevice
    SoundIsAsked
    PlayEnds
    EventsAreDrained
    AutoStopFollowsTrigger
    StartsUp
    PressLights
CHECK_DEADLOCK FALSE
