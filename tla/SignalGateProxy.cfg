SPECIFICATION GateSpec
CONSTANTS
    Allocations <- MCProxied
    MaxDailyOrders = 2
    MaxPositions = 2
    Cooldown = 1
    BarsPerDay = 2
    MaxBars = 2
    MaxFailures = 0
INVARIANT IntervalKept
CHECK_DEADLOCK FALSE
