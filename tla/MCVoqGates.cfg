CONSTANTS
  MaxVOQSize = 1
  VOQTimeout = 2
  Dests = {1, 2, 3}
  Rates = {0, 1, 2}
  MinVOQSendRate = 0
  PktBits = 2
  ScriptLines = 0
  MaxQueue = 2
  MaxDebt = 4
SPECIFICATION Spec
INVARIANTS
  NewGateIsFree
CHECK_DEADLOCK FALSE
