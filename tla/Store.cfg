SPECIFICATION StoreSpec
CONSTANTS
    Processes = {"automation"}
    Equities = {1, 2}
    TicksPerDay = 2
    MaxTime = 3
    Strategies = {"trend", "credit", "bonds"}
    Browsers = {"b1", "b2"}
    Plans <- MCPlans
    MaxSaves = 2
    SavesDuringOverview = FALSE
    LabStrategies = {"trend", "credit"}
    Experiments = {1, 2, 3, 4}
    Manifests <- MCManifests
    LabReleases <- MCReleases
    SlotLength = 1
    VariantsPerCycle = 1
    PageSize = 2
    MaxLabTime = 2
    MaxTrials = 4
    LoopAccounts <- MCLoopAccounts
    LoopKinds = {"heartbeat", "evidence", "automation", "research"}
    MaxHealthAge = 1
    Admins = {"x", "y"}
    EnvKeys = {"k1", "k2"}
    EnvValues = {"1", "2"}
    Overlap = FALSE
    MaxRestarts = 1
INVARIANTS
    ReferencesKept
    AppliedWithinCapital
    EvidenceOfOneManifest CountedAfterBoundary NoFalseAlarm
    ActionsExclusive NoSettingLost
PROPERTIES
    NewerChangeKept SavedPlanFits SavedChangesApply
    WorkingAccountsServed BrokenAccountReported StuckByFailedEvent
CHECK_DEADLOCK FALSE
