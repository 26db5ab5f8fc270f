SPECIFICATION Spec
CONSTANTS
  DelayedBranches = TRUE
  MappedIO = FALSE
  IO_INTERVAL = 2
  RunSteps = 3
  LastAddr = 6
  KText = 6
  EXCEPTION_ADDR = 6
  DeviceLines <- NoAddrs
  TimerLine = "timer"
  Programs <- WithSlots
  StartAddrs <- NoAddrs
  ControlC = FALSE
INVARIANTS
  SlotFlagExact
PROPERTIES
  ImplementsUserMachine
  DelaySlotRuns
