CONSTANTS
    Subjects = {"goals"}
    ClosedTrade <- MCTrade
    Filter <- MCFilter
    MaxTrades = 3
    Offset = 1
    GoalVisitor = {"v1", "v2"}
    Wallets <- MCWallets
    Transfer = {2}
    BaseEquity = {6}
    Redeem = {50}
    Target = {132, 133, 267, 268}
    PARTS = 4
    ROUNDING = 4
    MaxClock = 4
    MaxEquities = 2
    MaxTransfers = 1
    Fetched <- MCFetched
    Label = {"HH", "LL", "unknown"}
    Signal = {"GREEN", "RED-STRONG"}
    Block <- MCBlock
    MaxBlocks = 2
    SpotPrice = 1000
    Atr = 20
    Cent = 1
    MaxStepFailures = 1
    Position <- MCPosition
    Evaluator = {"e1", "e2"}
    ShadowSymbol = {"s1"}
    Recommendation <- MCAdvice
    Switches = {"user"}
    Day = 2
    ADD_HOURLY_LIMIT = 1
    ADD_DAILY_LIMIT = 2
    MaxHour = 2
    MaxRows = 3
    Trade <- MCValidated
    SplitPercent = 70
    MaxValidationTrades = 4
    Validator = {"v1"}
    Scan <- MCScan
    HeldSide = {"LONG", "SHORT"}
    Notional = 600
    RequestEnd <- MCRequestEnd
    ScanGap = {49}
    MaxScans = 4
    MaxSideChanges = 1
    OrderRequest <- MCOrder
    CloseRequest <- MCClose
    CancelRequest <- MCCancel
    LeverageRequest <- MCLeverage
    StartPosition = {1}
    MaxPosition = 2
    MaxOtherTrades = 1
    MaxLost = 1
    Result <- MCResult
    ScanLimit = 3
    MaxSaved = 4
    Visitor = {"m1", "m2"}
    Reading <- MCReading
    Published <- MCPublished
    MaxReboots = 1
SPECIFICATION MCSpec
CHECK_DEADLOCK FALSE
PROPERTIES ClosedIsFinal
