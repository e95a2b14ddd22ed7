SPECIFICATION Spec
CONSTANTS
    Names = {"p", "q"}
    Texts <- MCTexts
    MaxLen = 3
    Keys = {"k1", "k2", "k3", "k4"}
    Values = {1, 2}
    Buckets = 2
    HashFunc <- MCHashFunc
    Addresses = {"m1", "m2", "m3", "m4"}
    Null = "null"
    Garbage = garbage
    Nodes <- MCNodes
    Root = "r"
    Asked <- MCAsked
    Order <- MCOrder
    MatchIters = 6
    DirBufsize = 4
    AddrLen = 6
    AddrTexts <- MCAddrTexts
    ListTexts <- MCListTexts
    StrSettings = {"banner"}
    BoolSettings = {"listen"}
    UintSettings = {"max_clients", "file_open_mode"}
    Defaults <- MCDefaults
    FileNames = {"a", "b"}
    Contents <- MCContents
    CommandLines <- MCCommandLines
    DefaultConfig = "b"
    ConfMax = 16
    MaxEdits = 2
    HoursPerDay = 3
    MinutesPerHour = 3
    Zones <- MCZones
    Inodes <- MCInodes
    Now = 20
    HalfYear = 9
    StampTexts <- MCStampTexts
    ModeTexts <- MCModeTexts
    SizeTexts <- MCSizeTexts
    SizeDigits = 5
    OpenMode = 438
    MaxRequests = 3
    p1 = p1
    p2 = p2
    a1 = a1
    a2 = a2
    None = None
    Pids = {p1, p2}
    Addrs = {a1, a2}
    Configs <- MCConfigs
INVARIANTS NeverBug CountersMatchProcesses MaxClientsHolds MaxPerIpHolds
           BuffersHoldStrings ListingShowsWhatMatches ArgumentsMeanWhatTheySay ConfigurationIsWhatWasGiven
PROPERTIES ZombiesAreReaped
           HashIsAMap
