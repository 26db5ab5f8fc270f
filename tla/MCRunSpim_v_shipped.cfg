SPECIFICATION Spec
CONSTANTS
  DelayedBranches = FALSE
  MappedIO = TRUE
  IO_INTERVAL = 2
  RunSteps = 5
  LastAddr = 9
  KText = 5
  EXCEPTION_ADDR = 5
  DeviceLines <- Device
  TimerLine = "timer"
  Programs <- AsShipped
  StartAddrs <- NoAddrs
  ControlC = FALSE
PROPERTIES
  ImplementsUserMachine
