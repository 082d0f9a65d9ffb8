SPECIFICATION LoopSpec
CONSTANTS
  MaxMessageKeys = 2
  MaxFuture = 3
  Counters = {0, 1, 2, 3, 4, 5}
INVARIANTS
  LoopInvariant
  AcceptedOnce
  WindowKept
  DuplicateIsOld
  UsedKeysErased
PROPERTY Refinement
