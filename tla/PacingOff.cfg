SPECIFICATION Spec
CONSTANTS
  CounterRange = 1000000
  MaxCycles = 9
  LetsFinish = FALSE
  SettleCycles = 3
  Traces <- MCTraces
PROPERTY
  InactiveHolds
