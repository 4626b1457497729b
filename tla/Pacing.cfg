SPECIFICATION FairSpec
CONSTANTS
  CounterRange = 1000000
  MaxCycles = 9
  LetsFinish = TRUE
  SettleCycles = 3
  Traces <- MCTraces
INVARIANTS
  NeverEarly
  LateIsReported
PROPERTIES
  WarnsWithCause
  PaceCompletes
