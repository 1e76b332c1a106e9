SPECIFICATION TimerSpec
CONSTANTS
  Vips = {1, 2}
  Endpoints = {1, 2}
  NodeIds = {1, 2}
  LocalVip = 0
  ActiveAt = 1
  DegradedAt = 1
  StaleAt = 1
  StreakMax = 1
INVARIANTS TypeOK IndexesSound  RelayIsDetour
PROPERTY ShadowedRouteGoes
