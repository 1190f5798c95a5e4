CONSTANTS
  h1 = h1
  h2 = h2
  Strategies <- OneStrategy
  Handlers <- TwoHandlers
  Main = main
  Keys <- TwoKeys
  StrategyOf <- AllOfOne
  NoKey = nokey
  QueueCap = 1
  LruSize = 1
  MaxDeliveries = 2
  MaxFaults = 2
SPECIFICATION MCIngestSpec
INVARIANTS IngestTypeOK SingleFlight NothingForgotten ArmedWhenTraded StrictFIFO
PROPERTIES LedgerKept PendingDecided
