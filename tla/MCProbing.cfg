CONSTANTS
    Vips = {"v"}
    Endpoints = {"a", "b"}
    Paths <- MCPaths
    Host <- MCHost
    Copies = {1, 2}
    MaxLoad = 2
    MissThreshold = 2
    HealStreak = 1
    StaleStreak = 2
    MaxHealProbes = 2
    Seqs = {1, 2}
    MaxPending = 2
    Retries = 1
    RtoMin = 1
    RtoMax = 1
SPECIFICATION Spec
INVARIANTS Watched
PROPERTY WaitsEnd
CHECK_DEADLOCK FALSE
