SPECIFICATION FairSpec
CONSTANTS
  NumPositions = 2
  SideOf <- MCSideOf
  Prices = {6}
  Tenths = {3, 5}
  Stop0 = 5
  Lot = 2
  Configs <- MCConfigs
  MinAge = 0
  Cooldown = 1
  Routed = FALSE
  MaxTime = 1
  MaxRows = 2
  MaxFaults = 1
INVARIANTS TypeOK Recorded OrderedOnce DecisionsApart
PROPERTIES PassEnds
CHECK_DEADLOCK FALSE
