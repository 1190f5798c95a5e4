CONSTANTS
  Strategies <- S1
  Symbols <- OneSymbol
  SymbolOf <- Alone
  NumVPs = 1
  Legs <- TwoLegs
  Routed <- OnlyStop
  Procs <- P1
  Serves <- ServesAlone
  Agents = {"ea"}
  MaxFaults = 1
SPECIFICATION FairSpec
INVARIANT ExposureHasOwner
PROPERTIES Reconciled AnomalyFlagged
