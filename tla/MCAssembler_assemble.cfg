SPECIFICATION Spec
CONSTANTS
  here = here
  there = there
  Names <- TwoNames
  TextBot = 4
  LastText = 15
  GpBot = 16
  GpTop = 22
  DataBot = 24
  LastData = 43
  Values <- ZeroOrNot
  Sizes <- OneWord
  Alignments <- ByteOrWord
  WordsInText = FALSE
  MaxLines = 5
SYMMETRY Renamed
INVARIANTS
  TypeOK
  UsesHoldAddress
  UndefinedReported
PROPERTIES
  LabelOnDatum
  LocalsHidden
CHECK_DEADLOCK FALSE
