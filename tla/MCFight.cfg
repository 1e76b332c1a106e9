SPECIFICATION RetrySpec
CONSTANTS
  NodeIds = {1, 2, 3}
  Endpoints = {1, 2, 3}
  Vips = {1, 2}
  TombTtl = 1
  SuppressTtl = 1
  RosterMax = 0
  CacheMax = 0
  InitVip <- FirstAndLast
  MaxEpoch = 2
  Traffic <- AllTraffic
  Founders = {2, 3}
  Stoppers = {1, 2}
  MaxMsgs = 2
  MaxStops = 0
  MaxSent = 4
INVARIANTS SettledView NeverRoutesOwnVip ConfigFollows
PROPERTIES ImplementsMembership RerollOnlyWhenBeaten RerollRecovers
