CONSTANTS
  tree_depth = 3
  int_switch_down_ports = 2
  switch_down_ports = 2
  switch_up_ports = 3
  tor_switch_down_ports = 2
  tor_switch_up_ports = 2
  BROADCAST_SWITCHES = BROADCAST_SWITCHES
  DefaultQueueSize = 1
  UpdatedQueueSize = 2
  NumPkts = 2
SPECIFICATION Spec
INVARIANTS
  OnRoute
  ECMPKeepsOrder
  ControlReachesReceivers
PROPERTIES
  EverythingArrives
CHECK_DEADLOCK FALSE
