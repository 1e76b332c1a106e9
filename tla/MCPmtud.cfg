SPECIFICATION LoopSpec
CONSTANTS
    Endpoints = {e1, e2}
    HostOf <- OneHost
    Private = {"host"}
    PathMtu <- HostPath
    ProbeIds = {1, 2}
    MinMtu = 2
    DefaultMtu = 4
    MaxMtu = 6
    Shortfall = 1
    PinMtus = {3}
    ConfirmCount = 2
    Epsilon = 1
    RaiseStep = 2
    MaxProbes = 4
    MaxConcurrent = 1
    DowngradeBatches = 2
    Searchers = {e1}
    MaxInFlight = 2
    MaxCommands = 2
INVARIANTS WindowOpen ProvenByEcho PrivateFloor MinLagsOnlyNew
PROPERTY SearchEnds
