SPECIFICATION Spec
CONSTANTS
  NumPositions = 1
  SideOf <- MCSideOf
  Prices = {6, 7}
  Tenths = {5}
  Stop0 = 5
  Lot = 2
  Configs <- MCOneConfig
  MinAge = 0
  Cooldown = 1
  Routed = FALSE
  MaxTime = 2
  MaxRows = 2
  MaxFaults = 0
PROPERTY TightensOnly
CHECK_DEADLOCK FALSE
