CONSTANTS
  tree_depth = 2
  int_switch_down_ports = 3
  switch_down_ports = 1
  switch_up_ports = 1
  tor_switch_down_ports = 2
  tor_switch_up_ports = 2
  PartitionSize = 4
  MessageSize = 2
  MaxPayload = 1
  Overhead = 1
  MaxSendRates = {0, 2}
  SendTimeLimits = {0, 3}
  MessageRates = {0, 1}
  MessageSizes = {0, 3}
  InjectionRate = 1
  AvgBurstLens = {0, 2}
  AvgGaps = {0, 2}
  MaxWait = 1
  Unit = 4
  Addresses = {0}
  MaxStart = 1
  MaxBurst = 6
SPECIFICATION AppSpec
INVARIANTS
  SwapPossible
  ScriptRegular
  Paced
CHECK_DEADLOCK FALSE
