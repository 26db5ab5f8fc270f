SPECIFICATION Spec
CONSTANTS
  LastAddr = 2
  Programs <- Loops
  BreakAddrs <- Instructions
  StartAddrs <- NoAddrs
  RunSteps = 3
  ControlC = TRUE
PROPERTIES
  BreakpointsHit
