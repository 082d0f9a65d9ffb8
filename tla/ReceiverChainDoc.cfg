SPECIFICATION Spec
CONSTANTS
  MaxMessageKeys = 2
  MaxFuture = 3
  Counters = {0, 1, 2, 3, 4, 5}
INVARIANT DuplicateMeansReceived
