SPECIFICATION Spec
CONSTANTS
    Processes = {"automation", "heartbeat"}
    Equities = {1, 2, 3}
    TicksPerDay = 2
    MaxTime = 3
INVARIANT PeakCoversDay
CHECK_DEADLOCK FALSE
