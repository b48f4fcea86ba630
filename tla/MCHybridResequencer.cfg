CONSTANTS
  NoTimer = NoTimer
  MaxDelay = 3
  QueueSizes = {0, 1, 2}
  BufferTimeout = 3
  NumPkts = 4
  LastSend = 5
SPECIFICATION Spec
INVARIANTS
  TimerGuardsFront
  InOrderOnceLearned
  ReleasedOnce
PROPERTIES
  EventuallyReleased
CHECK_DEADLOCK FALSE
