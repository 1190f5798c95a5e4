SPECIFICATION AgentsSpec
CONSTANTS
  Feeds = {"f1", "f2"}
  Headlines = {1, 2}
  TopN = 1
  MinImpacts = {"", "low"}
  Impacts = {"none", "high", "odd"}
  MaxNews = 2
  MaxSaves = 1
  NewsFaults = 1
  Symbols = {"eth"}
  BTC = "btc"
  Scorings = {"a"}
  SignalSymbol <- MCSymbol
  Titles = {"cpi"}
  TTL = 1
  Minute = 2
  Lookbacks = {1}
  DefaultLookback = 2
  Around = 1
  ProcessTime = 1
  ContextTime = 5
  ContextFaults = 1
  Signals = {s1, s2}
  Thresholds = {60}
  Scores = {50, 70, 101}
  HealthWindow = 1
  MinFailures = 1
  AlertEvery = 2
  KeyAlertEvery = 2
  ScoreTime = 2
  ScoreFaults = 1
  Admins = {"a", "b"}
  Clearable = {"feishu_webhook_url"}
  Given <- MCGiven
  Keys = {"", "blank", "key"}
  Wishes = {{}, {"news", "exit"}, {"perp", "critique"}}
  MaxForms = 5
  MaxBoots = 1
  StrategyIds = {"s"}
  Requests = {"q1", "q2"}
  Params = {1, 2}
  MaxSignals = 2
  MaxPosts = 5
INVARIANTS AgentsTypeOK NotifiedStored ContextFresh AlertSpaced KeyedWhenOn ArchivedIdle
CONSTRAINT TicksOnMinutes
SYMMETRY MCSymmetry
CHECK_DEADLOCK FALSE
