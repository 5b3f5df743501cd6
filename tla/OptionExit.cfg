SPECIFICATION FairSpec
CONSTANTS
    Exits = {"x1", "x2"}
    Quantity = 2
    Processes = {"automation", "heartbeat"}
    MaxCrashes = 1
    ResponsesLost = TRUE
    LiveStatuses = {"accepted", "pending_cancel"}
INVARIANTS PositionReserved OneLinkedExit
PROPERTY FilledExitReleases
CHECK_DEADLOCK FALSE
