SPECIFICATION MCSpec
CONSTANTS
    d1 = d1
    d2 = d2
    Dests = {d1, d2}
    Lens = {1, 2}
    SmallLen = 2
    Quantum = 1
    DataCap = 2
    ControlCap = 2
    RetransmitCap = 1
    RtxReserved = 1
    BudgetCap = 2
    Room = 1
    PacketCap = 2
    Refills = {2}
    Bursts = {2}
    BulkForceAfter = 1
    ShedPerTick = 1
    ShedFill = 1
    Period = 2
    Configs <- Modes
    MaxPackets = 3
    MaxCommands = 1
    ControlLen = 1
  
PROPERTY Shapes
