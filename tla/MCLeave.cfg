SPECIFICATION MCSpec
CONSTANTS
  NodeIds = {1, 2}
  Endpoints = {1, 2}
  Vips = {1, 2}
  TombTtl = 1
  SuppressTtl = 1
  RosterMax = 2
  CacheMax = 2
  InitVip <- SameVip
  MaxEpoch = 2
  Traffic <- NoBeacons
  Founders = {1}
  Stoppers = {1, 2}
  MaxMsgs = 1
  MaxStops = 1
  MaxSent = 0
PROPERTY TombstoneHolds
