CONSTANTS
  NumServers = 3
  MaxBacklog = 2
  MaxPairs = 3
  Lossy = {FALSE, TRUE}
  UintMod = 16
SPECIFICATION Spec
INVARIANTS
  ReceiverWaitsForRest
  CountsUnlessLossy
  EndsInTimeUnlessLossy
PROPERTIES
  EndsUnlessWaiting
CHECK_DEADLOCK FALSE
