SPECIFICATION FairSpec
CONSTANTS
  Addrs = {"U", "V"}
  Scheme <- Schemes
  Rooms <- TwoRooms
  MaxTrackers = 1
  MaxHttp = 1
  MaxFound = 2
  MaxTargets = 2
  MaxFanout = 1
  TaskIds = {1, 2, 3, 4, 5, 6, 7, 8}
  MaxReconnectKeys = 1
  PortMin = 1
  PortMax = 3
  ScanWidth = 2
  MinWidth = 1
  MaxWidth = 2
  MaxExpanded = 3
  Members <- OneMember
  Lists <- AloneOrNot
  Mapped <- MeOnly
  Resolves <- Hosts
  MaxServers = 2
  DefaultTrackers <- OtherUdp
  TxIds = {1, 2, 3}
  MaxAttempts = 2
  MaxPolls = 2
  Scripts <- Commands
INVARIANTS  PunchesOwned
PROPERTIES CommandReturns 
CHECK_DEADLOCK FALSE
