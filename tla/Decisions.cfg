SPECIFICATION DecisionsSpec
CONSTANTS
    Intents = {"i1", "i2", "i3"}
    Symbols = {"SPY", "QQQ"}
    SymbolOf <- SharedSymbol
    Bracketed = {"i1"}
    Processes = {"automation"}
    MaxCrashes = 1
    ResponsesLost = FALSE
    PartialFills = FALSE
    Allocations <- MCAllocations
    MaxDailyOrders = 1
    MaxPositions = 2
    Cooldown = 1
    BarsPerDay = 2
    MaxBars = 2
    MaxFailures = 1
    Shapes <- MCShapes
    Strategies <- MCStrategies
    FlattenChoices = {TRUE, FALSE}
    InitialEquity = 20000
    RiskPercent = 10
    CapitalPercent = 90
    SlippagePercent = 1
    Commission = 5
    MaxHolding = 2
    MaxReplay = 5
    Packages = {"p1"}
    WindowFrom = 4
    Lots = {2}
    MaxBarTime = 4
    Strikes = {10, 15, 20, 25}
    Spots = {17}
    Quotes <- MCQuotes
    MaxSpreadPercent = 20
    MaxWidth = 5
    Slippage = 5
    TargetPercent = 50
    LossPercent = 150
    Screeners = {"service", "once"}
    PolicyOrder <- MCPolicyOrder
    Assets <- MCAssets
    References <- MCReferences
    Watchlist = {"w"}
    MaxEvidenceAge = 0
    PageLength = 2
    MaxDate = 2
    MaxReports = 3
    Workers = {"automation", "lab"}
    KeepForming = {"automation"}
    WindowLength = 2
    PageLimit = 1
    MaxPages = 4
    MaxBar = 3
    MaxVersion = 2
    Lengths = {6, 7, 8, 9, 10, 11}
    FoldCounts = {2, 3}
    SplitPercents = {40, 50, 60}
    MinimumWarmup = 2
    MinimumFoldBars = 2
    MaxHistory = 2
INVARIANTS
    DecisionsTypeOK
    LiveOrdersReserved OneLiveOrderPerSymbol
    DailyLimitKept EntriesSpaced
    EstimatesHold TargetIsRealised
    AssignedOnEvidence
    NoLookAhead LossBounded
    EvidenceEndsAtClose
    UsableBarsFinal PartsIndependent
PROPERTIES NeverOlderReport PolicyExitStable
CHECK_DEADLOCK FALSE
