SPECIFICATION Spec
CONSTANTS
  DelayedBranches = TRUE
  MappedIO = TRUE
  IO_INTERVAL = 2
  RunSteps = 5
  LastAddr = 9
  KText = 5
  EXCEPTION_ADDR = 5
  DeviceLines <- NoAddrs
  TimerLine = "timer"
  Programs <- ExitInSlot
  StartAddrs <- NoAddrs
  ControlC = FALSE
INVARIANTS
  ExitStopsRun
