SPECIFICATION Spec
CONSTANTS
    Intents = {"i1"}
    Symbols = {"SPY", "QQQ"}
    SymbolOf <- SharedSymbol
    Bracketed = {"i1"}
    Processes = {"automation", "heartbeat"}
    MaxCrashes = 0
    ResponsesLost = FALSE
    PartialFills = FALSE
INVARIANT LiveOrdersReserved
CHECK_DEADLOCK FALSE
