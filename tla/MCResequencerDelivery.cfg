CONSTANTS
  NoTimer = NoTimer
  MaxDelay = 3
  QueueSizes = {0}
  BufferTimeout = 3
  NumPkts = 4
  LastSend = 5
SPECIFICATION Spec
INVARIANTS
  DeliveredAsReleased
CHECK_DEADLOCK FALSE
