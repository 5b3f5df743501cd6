SPECIFICATION Spec
CONSTANTS
    Exits = {"x1", "x2", "x3"}
    Quantity = 2
    Processes = {"automation", "heartbeat"}
    MaxCrashes = 0
    ResponsesLost = FALSE
    LiveStatuses = {"accepted", "pending_cancel", "suspended"}
INVARIANT OneExitAtATime
CHECK_DEADLOCK FALSE
