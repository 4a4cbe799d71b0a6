SPECIFICATION AlgorithmsSpec
CONSTANTS
    m1 = m1
    m2 = m2
    r1 = r1
    r2 = r2
    big = big
    ssd = ssd
    stick = stick
    here = here
    NotAnIndex = NotAnIndex
    Layers = {1}
    Layer <- MCLayer
    NamePrefixes <- MCPrefixes
    Rests = {1, 2, 3, 4}
    Layouts <- MCLayouts
    MaxGap = 1
    MaxSpan = 4
    MaxU64 = 16
    PlannedInventories <- MCPlannedInventories
    PlannedPolicies <- MCPlannedPolicies
    PlannedMeasurements <- MCPlannedMeasurements
    Limits <- MCLimits
    Profiles <- MCProfiles
    Inventories <- MCInventories
    Policies <- MCPolicies
    Measurements <- MCMeasurements
    MaxGeneration = 2
    None = None
    Torn = Torn
    NanosPerSecond = 2
    MaxListItems = 3
    NoBytes = NoBytes
    ResourceIds = {r1, r2}
    AllocationIds = {"a", "b", ""}
    NoId = ""
    Domains = {"HostRam", "Device"}
    LargestTotal = 3
    Descriptors <- MCDescriptors
    Measures <- MCMeasures
    Models <- MCModels
    Configs <- MCConfigs
    Situations <- MCSituations
    Traces <- MCTraces
    Histories <- MCHistories
    MaxRuns = 3
    Scenarios <- MCScenarios
    SimCosts <- MCCosts
    Directories <- MCDirectories
    Readers = {1, 2}
    ElementBytes = 2
    MaxReads = 2
    RangeLists <- MCRangeLists
    ObservedPage = 2
    MaxPages = 2
    MaxResources = 2
    Vocabularies <- MCVocabularies
    Texts <- MCTexts
    MaxStream = 3
    Keys <- MCKeys
    Screens <- MCScreens
    WindowSizes <- MCWindowSizes
    MaxKeys = 2
    Mappings <- MCMappings
    ShardPaths <- MCShardPaths
    AnonPages = {0, 2}
    LedgerCases <- MCLedgerCases
    MaxBytes = 7
    MaxMoves = 2
    Registries <- MCRegistries
    Requests <- MCRequests
    Tokens = {1, 2}
    EosTokens = {NoToken, 2}
    TrainedContext = 2
    NoToken = NoToken
    Unset = Unset
    Turns = {"ledger"}
INVARIANT ExactAcrossAllShards
CHECK_DEADLOCK FALSE
