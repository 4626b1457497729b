SPECIFICATION FairSpec
CONSTANTS
  RingSize = 7
  BurstLen = 3
  TransferMax = 2
  FifoDepth = 5
  ProgFull = 1
  Sizes = {1, 2, 3, 4, 5, 7, 11}
INVARIANTS
  StoredInTraceOrder
  FifoNeverOverflows
  BurstIsPublished
  PointersTellFill
PROPERTIES
  NoUnreadOverwritten
  StreamSpec
  TraceCompletes
