SPECIFICATION Spec
CONSTANTS
  RECV_INTERVAL = 2
  TRANS_LATENCY = 3
  MaxTyped = 3
  CauseWrites <- ClearOnly
  Reinitializes = TRUE
INVARIANTS
  TypeOK
  LevelTriggered
  InOrderOnce
PROPERTIES
  OverwrittenLate
  OutputPaced
  TransmitterRecovers
  InputTaken
