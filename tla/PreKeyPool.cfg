SPECIFICATION PoolSpec
CONSTANTS
  MediumMax = 6
  Word = 32
  Starts = {1, 4, 5}
  BatchSizes = {1, 3, 5}
  MaxSerial = 9
INVARIANTS LastResortKept RarelyRepeated OfferedIsStored
CHECK_DEADLOCK FALSE
