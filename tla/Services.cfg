CONSTANTS
    Request = {"q1", "q2"}
    MaxMarket = 1
    Visit = {"v1", "v2", "v3"}
    MAX_WEBHOOK_CHANNELS_PER_USER = 2
    MaxRowsOfType = 2
    SyncAccount = {"acc1"}
    SyncJob = {"j1", "j2"}
    NoAccount = "none"
    MaxMoment = 1
    Submission = {"s1", "s2"}
    Nonce = {"n1", "n2", "n3"}
    Body = {"b1", "b2", "b3"}
    ReportOf <- MCReportOf
    Visitor = {"v1", "v2"}
    Lister = {"o1", "o2"}
    ListedPair = {"p1", "p2", "p3"}
    MaxPairs = 3
    MaxOrder = 3
    MaxAsked = 2
    MaxLen = 4
    Minimum = 2
    Age = 4
    Reordered = FALSE
    MaxTime = 8
    MaxUpdates = 3
    MaxWire = 3
    Alert = {"a1", "a2"}
    Type = {"price", "rsi"}
    MaxRows = 2
    MaxPriceFaults = 1
    u1 = u1
    btc = btc
    long = long
    trend = trend
    zone = zone
    retest = retest
    t1 = t1
    User = {u1}
    Pair = {btc}
    Direction = {long}
    Gate = {trend, zone, retest}
    Context = {trend, zone}
    Channel = {t1}
    Owner <- MCOwner
    MaxCount = 3
    MaxFaults = 1
    JournalRequest = {"r1", "r2"}
    ClosedTemplate <- MCClosed
    JournalBody <- MCBody
    TagUpdate <- MCTagUpdate
    ScanOutcome <- MCScanOutcome
    MaxNow = 1
    MaxEntries = 2
    MaxScanRows = 1
    MaxUploads = 2
SPECIFICATION MCSpec
CHECK_DEADLOCK FALSE
INVARIANTS CacheInv ChannelsInv SyncInv IngestInv WatchlistInv CandleInv FiredOncePerJob RealtimeInv JournalInv
