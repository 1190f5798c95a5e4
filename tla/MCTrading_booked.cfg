CONSTANTS
  Strategies <- S1
  Symbols <- OneSymbol
  SymbolOf <- Alone
  NumVPs = 1
  Legs <- TwoLegs
  Routed <- RoutedAsBuilt
  Procs <- P1
  Serves <- ServesAlone
  Agents = {}
  MaxFaults = 0
SPECIFICATION Spec
INVARIANT ClosedIsBooked
