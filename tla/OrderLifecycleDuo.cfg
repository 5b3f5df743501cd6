SPECIFICATION FairSpec
CONSTANTS
    Intents = {"i1", "i2"}
    Symbols = {"SPY", "QQQ"}
    SymbolOf <- SharedSymbol
    Bracketed = {"i1"}
    Processes = {"automation", "heartbeat"}
    MaxCrashes = 1
    ResponsesLost = TRUE
    PartialFills = TRUE
INVARIANT ClosedTradesReleased
PROPERTIES OrdersArriveReserved ImplementsLedger OverReservationsReleased
CHECK_DEADLOCK FALSE
