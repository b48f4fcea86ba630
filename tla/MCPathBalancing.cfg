CONSTANTS
  Schemes = {"RR", "SRR", "Rehash", "SD"}
  NumPaths = 3
  UsePermutations = TRUE
  Quantum = 2
  MaxPkt = 3
  PktBytes = {1, 3}
  Dests = {d1}
  MaxImbalance = 4
SPECIFICATION Spec
INVARIANTS
  SchemeInv
  RoundRobinFair
  SurplusFair
  SortedDeficitBalanced
  RehashWholeQuanta
PROPERTIES
  SDSendsToLeastLoaded
CHECK_DEADLOCK FALSE
