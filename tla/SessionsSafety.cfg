SPECIFICATION Spec
CONSTANTS
  Alice = Alice
  Bob = Bob
  Party <- MCParty
  MaxMessageKeys = 1
  MaxFuture = 2
  MaxReceiverChains = 1
  MaxArchivedStates = 1
  NumOneTime = 1
  LastResort = 0
  MaxMsgs = 3
  MaxBundles = 3
  MaxKeys = 5
  MaxFaults = 1
  MaxResets = 1
SYMMETRY PartySymmetry
INVARIANTS
  TypeOK
  AtMostOnce
  KeyErasure
  SpentPreKeyRemoved
CHECK_DEADLOCK FALSE
