CONSTANTS
  WordBytes = 8
  WordsPerBeat = 2
  Pcaps <- MCPcaps
  MaxPktSize = 20
  SecNs = 4000
  UsecPerSec = 1000
  MaxCycles = 3
  CapWordBytes = 8
  CapBeatWords = 2
  CapUsecPerSec = 1000
  CapLens = {1, 5, 8, 64}
  LenRange = 24
  GapRange = 160
SPECIFICATION Spec
INVARIANTS
  TimeIsAlwaysKept
