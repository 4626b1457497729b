SPECIFICATION FairSpec
CONSTANTS
  WordBytes = 2
  WordsPerBeat = 2
  FifoDepth = 3
  WriteDepth = 2
  FwftLatency = 2
  PktLens <- MCPktLens
  MaxLens <- MCMaxLens
INVARIANTS
  RecordsAreWhole
  AlignedMeansComplete
PROPERTIES
  StopCompletes
