SPECIFICATION ControlsSpec
CONSTANTS
    Strategies = {"trend", "credit", "bonds"}
    Browsers = {"b1", "b2"}
    Plans <- MCPlans
    MaxSaves = 2
    SavesDuringOverview = TRUE
PROPERTY NewerChangeKept
CHECK_DEADLOCK FALSE
