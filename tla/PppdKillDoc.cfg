SPECIFICATION PppdEnvSpec
CONSTANTS
  IdMod = 2
  MaxConfReqs = 2
  MaxTermReqs = 2
  MaxNakLoops = 1
  ChapMaxTransmits = 1
  Rechallenge = TRUE
  EchoFails = 0
  Listen = TRUE
  LimitOn = FALSE
  Wants = {{}, {"md5"}}
  Allows = {{"md5"}}
  Options = {{}, {"passive", "silent"}, {"allow-ip"}}
  PeerOpts = {"md5"}
PROPERTY KillCompletes
