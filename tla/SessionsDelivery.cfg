SPECIFICATION FairSpec
CONSTANTS
  Alice = Alice
  Bob = Bob
  Party <- MCParty
  MaxMessageKeys = 5
  MaxFuture = 5
  MaxReceiverChains = 4
  MaxArchivedStates = 3
  NumOneTime = 1
  LastResort = 2
  MaxMsgs = 4
  MaxBundles = 2
  MaxKeys = 8
  MaxFaults = 1
  MaxResets = 0
INVARIANTS
  Deliverable
  NoMessageKeyReuse
  RatchetsInStep
PROPERTIES
  IsChannel
  EventuallyDelivered
CHECK_DEADLOCK FALSE
