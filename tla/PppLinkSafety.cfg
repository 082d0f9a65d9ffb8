SPECIFICATION LinkSafety
CONSTANTS
  IdMod = 3
  MaxConfReqs = 2
  MaxTermReqs = 1
  MaxNakLoops = 2
  ChapMaxTransmits = 1
  Rechallenge = FALSE
  EchoFails = 1
  Listen = FALSE
  LimitOn = FALSE
  WantsA = {{"md5", "ms2"}}
  WantsB = {{}, {"md5"}}
  AllowsA = {{"md5"}}
  AllowsB = {{"ms2"}}
  Dice = {1}
  MaxLine = 2
  MaxLosses = 1
  MaxDials = 1
  Kills = TRUE
  Patient = FALSE
INVARIANT Agreement
CHECK_DEADLOCK FALSE
