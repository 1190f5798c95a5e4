CONSTANTS
  s1 = s1
  s2 = s2
  p1 = p1
  p2 = p2
  Strategies <- S2
  Procs <- P2
  Serves <- ServesEach
  Forms <- FourForms
  Limits <- BothLimits
  FirstLimits <- Loose
  Results <- Losses
  Slip = 1
  MaxOpens = 2
  MaxEdits = 1
  LastDay = 1
SYMMETRY Swap
SPECIFICATION MCRiskSpec
INVARIANTS RiskTypeOK ExitAllowed DailyTotal
PROPERTY LeverageCapped
