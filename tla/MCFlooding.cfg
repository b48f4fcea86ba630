CONSTANTS
  tree_depth = 4
  int_switch_down_ports = 2
  switch_down_ports = 1
  switch_up_ports = 1
  tor_switch_down_ports = 1
  tor_switch_up_ports = 2
  BROADCAST_SWITCHES = BROADCAST_SWITCHES
  DefaultQueueSize = 1
  UpdatedQueueSize = 2
  NumPkts = 1
SPECIFICATION Spec
INVARIANTS
  ReachesAllSwitches
CHECK_DEADLOCK FALSE
