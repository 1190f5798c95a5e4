CONSTANTS
  h1 = h1
  h2 = h2
  Strategies <- OneStrategy
  Handlers <- TwoHandlers
  Main = main
  Keys <- OneKey
  StrategyOf <- JustOne
  NoKey = nokey
  QueueCap = 1
  LruSize = 1
  MaxDeliveries = 2
  MaxFaults = 0
SPECIFICATION IngestSpec
INVARIANT DuplicateWasSeen
