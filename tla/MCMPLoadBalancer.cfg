CONSTANTS
  tree_depth = 3
  int_switch_down_ports = 2
  switch_down_ports = 2
  switch_up_ports = 2
  tor_switch_down_ports = 1
  tor_switch_up_ports = 2
  Self = 0
  Quantum = 3
  PktBytes = {2}
  UsePermutations = FALSE
  MaxImbalance = 6
SPECIFICATION MPSpec
INVARIANTS
  CreditsTellLoads
  EachBalanced
