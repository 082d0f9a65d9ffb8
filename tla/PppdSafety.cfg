SPECIFICATION PppdEnvSpec
CONSTANTS
  IdMod = 2
  MaxConfReqs = 1
  MaxTermReqs = 1
  MaxNakLoops = 1
  ChapMaxTransmits = 1
  Rechallenge = TRUE
  EchoFails = 1
  Listen = TRUE
  LimitOn = TRUE
  Wants = {{}, {"md5"}}
  Allows = {{"md5"}}
  Options = {{}, {"passive", "silent"}, {"allow-ip"}}
  PeerOpts = {"md5"}
INVARIANTS PppdTypeOK NetworksNeedProof PhaseInStep CalloutsInStep DeadIsDead AuthWaitsEnd
PROPERTY LateKillCompletes
