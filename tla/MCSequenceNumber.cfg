CONSTANTS
  Half = 4
  MAXTIME = 50
  Timeouts = {1, 3}
  BufferTimeout = 8
  MaxDelay = 3
  NumPkts = 10
  LastSend = 12
SPECIFICATION ResequencerSpec
INVARIANTS
  UpInOrder
  KeepsWaiting
PROPERTIES
  DroppedOnlyWhenLate
CHECK_DEADLOCK FALSE
