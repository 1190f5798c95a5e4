CONSTANTS
  Strategies <- S1
  Symbols <- OneSymbol
  SymbolOf <- Alone
  NumVPs = 2
  Legs <- TwoLegs
  Routed <- RoutedAsBuilt
  Procs <- P2
  Serves <- ServesBoth
  Agents = {}
  MaxFaults = 2
SPECIFICATION SafetySpec
INVARIANTS TypeOK ExposureHasOwner Protected BookedBySingleWorker
