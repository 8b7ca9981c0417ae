SPECIFICATION LibrarySpec
CONSTANTS
    HashCapacity = 4
    BucketSize = 2
    RecycleToTail = TRUE
    TreeCapacity = 7
    HeapCapacity = 6
    CacheCapacity = 4
    CacheBuckets = 2
    RankCapacity = 3
    NodeCapacity = 4
    ListCapacity = 3
    SmallCapacity = 3
    ListNames <- MCLists
    Keys <- MCKeys
    Kinds <- MCKinds
    MaxOps <- MCOps
    MemThreads <- MCThreads
    Sites = {"packet"}
    Unit = 2
    MaxIndex = 2
    Wants <- MCWants
    AllocStep = 2
    MaxBlocks = 2
    MaxCalls = 4
    ByteBase = 4
    Seeds <- MCSeeds
    MaxText = 4
    MaxMsgEvents = 2
    MaxDefEvents = 1
    MaxSysEvents = 1
    CloseNotify = 2
    MsgIDs = {1, 2}
    MaxNetConfigs = 2
    MaxPeerNodes = 5
    Missing = Missing
    BaseDocuments <- MCBases
    MessageDocuments <- MCFiles
    UserDocuments <- MCUsers
    ThreadLogs <- MCThreadLogs
    UserLogs <- MCUserLogs
    MaxLogFiles = 2
    MaxMovedFiles = 1
    FlushPeriod = 1
    WritePeriod = 3
    LogFileSize = 2
    LastDay = 2
    Rounds = 4
    BitMapSize = 1
    TextLengths = {1, 7, 8, 9, 17}
    Noise = {0, 13}
    SessionKeys <- MCSessionKeys
    US_PER_MS = 2
    MS_PER_SECOND = 2
    SECOND_PER_MINUTE = 1
    MINUTE_PER_HOUR = 2
    HOUR_PER_DAY = 4
    Offset = 2
    IntRange = 100
    Summer <- MCSummer
    Instants <- MCInstants
    Codes = {65, 127, 128, 2047, 2048, 65535}
    TextBytes = {0, 9, 15, 200, 255}
    Today <- MCToday
    SizesTried <- MCSizes
    Block = 1024
    MaxBlock = 10485760
    MessageBuffer = 262144
    Router = 2
    LastServer = 3
    NoType = 0
    MaxConnects = 3
    BodySizes = {0, 960, 972, 65510, 262140, 10485760}
    Options = {0, 7}
    ServerTypes = {1, 2}
    ClientType = 4
    ShareKeys = {5}
    HeadSize = 2
    YearTime = 12
    TwoHours = 2
    ShareSizes = {0, 2, 3}
    PartSizes = {1, 2}
INVARIANTS
    MessagesFindTheirWay
    ConfigIsAsWritten
    RecordsReachTheirFile
    AgreesWithReference
    BlocksAddUp
    DecodesWhatWasEncoded
CHECK_DEADLOCK FALSE
