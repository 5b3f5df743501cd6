SPECIFICATION AuthoritySpec
CONSTANTS
    Accounts = {"a1", "a2"}
    Intents = {"i1", "i2", "i3"}
    Symbols = {"SPY", "QQQ"}
    Groups = {"trend", "credit"}
    Order <- MCOrder
    MaxPerTrade = 30
    MaxOptionPerTrade = 50
    MaxTotalOpen = 60
    MaxDailyLoss = 30
    MaxDrawdown = 40
    MaxNotional = 30
    FirmEnabled = TRUE
    FirmTotalOpen = 40
    FirmSymbolOpen = 30
    FirmGroupOpen = 35
    EquityMaxAge = 1
    Equities = {10, 20}
    MaxTime = 2
INVARIANTS TypeOK AccountWithinCeiling FirmWithinCeilings
PROPERTIES StaleEquityAddsNoCapacity ImplementsLedger
CHECK_DEADLOCK FALSE
