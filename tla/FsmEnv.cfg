SPECIFICATION EnvSpec
CONSTANTS
  IdMod = 3
  MaxConfReqs = 2
  MaxTermReqs = 2
  MaxNakLoops = 2
  Want = {"md5", "pap"}
  Allow = {"ms"}
  FlagSets = {{}, {"restart"}, {"passive", "silent"}}
INVARIANTS EnvTypeOK TimerDiscipline UpIffOpened AdminStatus
PROPERTIES ImplementsLayer LeavingEnds
