CONSTANTS
    SrcSlots = 2
    AddSlots = 2
    MaxChanges = 2
    Clients = {1, 2}
    CallThreads = {1, 2}
    SlotCounts = {0, 1, 2}
    AddSlotCount = 2
    MaxSlotCount = 4
    Conversations <- MCConversations
    Bitmaps <- MCBitmaps
    Carriers = {"c"}
    Configurations <- MCConfigurations
    Uses <- MCUses
    NumPartialResults = 2
    NumBatches = 2
    BatchSize = 2
    MaxFaults = 1
    RemapIds <- MCRemapIds
    NumberOfCameras = 2
    SkipFailed = TRUE
    ModuleVersion = 24
    DeviceVersions = {35, 36}
    External = {1}
    MaxReports = 4
    Phones <- MCPhones
    LightStates <- MCLightStates
    MaxFailed = 1
    FailingLights = {"NOTIFICATIONS"}
SPECIFICATION ServicesSpec
CHECK_DEADLOCK FALSE
INVARIANTS
    ScreenMirrors
    SlotsInStep
    ClientServed
    CarriedOver
    CachesMatchStreams
    InflightAccounted
    CallsInOrder
    ResultsAsAsked
    SentUpFaithfully
    NothingLeftBehind
    CamerasKnown
    LedShowsFirstLit
