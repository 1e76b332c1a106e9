SPECIFICATION Spec
CONSTANTS
    Window = 2
    Nodes = {1, 2, 3}
    Bcast = 255
    Packets <- MCPackets
    Meshes <- MCMeshes
    Loads <- MCLoads
    MaxCache = 4
    CounterLimit = 3
    Faults = {"doubled", "lost", "refused", "forgot", "rescored", "learned", "removed", "reset"}
    MaxFaults = 2
INVARIANTS ReplayExact NoEcho Arrives
CHECK_DEADLOCK FALSE
