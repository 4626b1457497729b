SPECIFICATION Spec
CONSTANTS
  TimeRange = 4
  ShortRange = 2
  WordRange = 4
  TickRange = 4
  GapRange = 3
  LinkDepth = 1
  FifoDepth = 1
  Periods = {1, 2}
  Traces <- MCTraces
  Settings <- MCSettings
  IdleWords <- MCIdle
INVARIANTS
  MeasuredRight
  MatchesInOrder
  NothingLost
  TimeGoesOn
