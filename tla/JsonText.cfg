SPECIFICATION Spec
CONSTANTS
  Items <- ItemsValue
  FoldCase <- FoldValue
  Meaning <- MeaningValue
  Texts <- TextsValue
  NestingLimit = 2
  IntMax = 40
  DefaultSize = 6
  Lengths = {0, 4, 9, 14, 20, 26}
  Infinite = 1000
INVARIANTS
  ParsedRight
  InsideText
  NothingLeaks
  WritesFit
  ReadsBack
  EnoughIsEnough
CHECK_DEADLOCK FALSE
