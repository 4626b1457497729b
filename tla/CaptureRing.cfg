SPECIFICATION FairSpec
CONSTANTS
  RingSize = 6
  BurstLen = 2
  TransferMax = 3
  FifoDepth = 4
  Totals = {0, 1, 2, 4, 5, 9}
INVARIANTS
  TakenInOrder
  BurstIsBacked
  PointersTellFill
PROPERTIES
  StreamSpec
  CaptureCompletes
