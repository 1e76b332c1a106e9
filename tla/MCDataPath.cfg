SPECIFICATION MCSpec
CONSTANTS
    Dests = {d1}
    Shards = {1, 2}
    Settings = {1, 2}
    GroupSize = 2
    DataCap = 1
    CmdCap = 1
    QueueCap = 2
    MaxPackets = 3
    MaxCommands = 2
    MaxEvents = 3
INVARIANTS EveryPacketOnce BarriersComplete 
PROPERTY EngineReturns
