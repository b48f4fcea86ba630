CONSTANTS
  MaxVOQSize = 1
  VOQTimeout = 1
  Dests = {1, 2}
  Rates = {0, 1, 2}
  MinVOQSendRate = 0
  PktBits = 2
  ScriptLines = 2
  MaxQueue = 2
  MaxDebt = 4
SPECIFICATION Spec
INVARIANTS
  QueuedHaveEvent
  PacedUnlessAhead
  IdleRemoved
CHECK_DEADLOCK FALSE
