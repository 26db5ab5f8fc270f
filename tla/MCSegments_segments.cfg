CONSTANTS
  TEXT_BOT = 0
  TextWords = 2
  DATA_BOT = 12
  DataSize = 4
  DataLimit = 14
  STACK_TOP = 44
  StackSize = 4
  StackLimit = 18
  K_DATA_BOT = 48
  KDataSize = 8
  KDataLimit = 16
  MM_IO_BOT = 64
  MM_IO_TOP = 67
  Reach = 15
  Quantum = 8
  IntLimit = 128
  Addresses <- MCAddresses
  Words <- MCWords
  SbrkSizes <- MCSbrkSizes
  Skips = {4, 16}
  Junk = {0, 9}
  MaxStores = 2
SPECIFICATION Spec
INVARIANTS TypeOK WithinLimits SameFate
PROPERTY ImplementsFlatMemory
CHECK_DEADLOCK FALSE
VIEW MCView
