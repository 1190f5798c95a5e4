SPECIFICATION EvalSpec
CONSTANTS
  NumRuns = 2
  NumCases = 2
  OldOf <- MCOld
  NewScores = {20}
  Concurrency = 2
  ByCli = {2}
  ReplayFaults = 1
  Subs = {s1, s2}
  Publishers = {p1, p2}
  Cap = 1
  DropLimit = 2
  Stalling = {s1}
  MaxEvents = 3
  Evals = {e1, e2}
  Exits = {x1, x2}
  Move <- MCMove
  Horizon = 2
  StaleCutoff = 4
  Candle = 4
  Tolerance = 1
  Batch = 1
  Delisted = {e1, x1}
  LastScore = 1
  Pnls = {"flat"}
  OutcomeTime = 6
  OutcomeFaults = 1
  Day = 3
  CronAt = 1
  Gap = 1
  QueueCap = 2
  Answers <- MCAnswers
  AutoPinConf = "high"
  CritTime = 8
  MaxClicks = 2
  MaxCritiques = 1
  CritFaults = 1
INVARIANTS EvalTypeOK DoneAddsUp RegisteredOpen JudgedInTime EveryDay
PROPERTIES NeverRequeued DroppedEnds OutcomesSettle SpacedRuns
CHECK_DEADLOCK FALSE
