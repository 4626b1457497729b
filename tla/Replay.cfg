SPECIFICATION RpFairSpec
CONSTANTS
  RingSize = 3
  BurstLen = 2
  TransferMax = 1
  FifoDepth = 4
  ProgFull = 1
  WordBytes = 2
  WordsPerBeat = 2
  Sizes <- MCSizes
  TraceOf <- MCTraceOf
INVARIANTS
  OutputIsTrace
  InactiveMeansDone
PROPERTIES
  ReplayCompletes
