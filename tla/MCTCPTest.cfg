\* Two servers that send each other a message, with a UDP packet beside them
\* and a dropper before server 0; the streams to server 1 are not recorded.
SPECIFICATION Spec
CONSTANTS
  Servers = {0, 1}
  WarmupPeriod = 1
  SimTimeLimit = 2
  EveryPServers = 2
  BatchSize = 2
  MaxInterval = 2
  Dropped = 0
  StatusPeriod = 2
  StartTimes = {0}
  DropTimes = {1}
  DropCounts = {2}
  MaxCommands = 1
  MaxTries = 2
  MaxUdp = 1
  MaxTime = 3
INVARIANTS ThreadsKnowPeers MeasurementsAgree
PROPERTIES DeliveredOrBroken
CHECK_DEADLOCK FALSE
