SPECIFICATION Spec
CONSTANTS
  LastAddr = 3
  Programs <- Loops
  BreakAddrs <- Occupied
  StartAddrs <- NoAddrs
  RunSteps = 4
  ControlC = TRUE
INVARIANTS
  TypeOK
  RecordsExact
PROPERTIES
  TransparentDebugging
