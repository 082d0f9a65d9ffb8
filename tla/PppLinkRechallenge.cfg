SPECIFICATION LinkSpec
CONSTANTS
  IdMod = 3
  MaxConfReqs = 3
  MaxTermReqs = 1
  MaxNakLoops = 2
  ChapMaxTransmits = 3
  Rechallenge = TRUE
  EchoFails = 0
  Listen = FALSE
  LimitOn = FALSE
  WantsA = {{"md5"}}
  WantsB = {{}, {"ms2"}}
  AllowsA = {{"ms2"}}
  AllowsB = {{"md5"}}
  Dice = {0, 1, 2}
  MaxLine = 4
  MaxLosses = 2
  MaxDials = 3
  Kills = FALSE
  Patient = TRUE
PROPERTIES NobodyWaits LinkComesUp
CHECK_DEADLOCK FALSE
