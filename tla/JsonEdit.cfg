SPECIFICATION Spec
CONSTANTS
  Items <- ItemsValue
  FoldCase <- FoldValue
  Names <- NamesValue
  Literals <- LiteralsValue
  Programs <- ProgramsValue
  MaxAllocs = 5
  MaxLost = 1
INVARIANT
  ListInv
PROPERTY
  ForestSpec
CHECK_DEADLOCK FALSE
