\* Every scheme on two paths, to two destinations (MCPathBalancing has three paths).
CONSTANTS
  Schemes = {"RR", "SRR", "Rehash", "SD", "DSD", "TP"}
  NumPaths = 2
  UsePermutations = TRUE
  Quantum = 2
  MaxPkt = 3
  PktBytes = {1, 2, 3}
  Dests = {d1, d2}
  MaxImbalance = 4
SPECIFICATION Spec
INVARIANTS
  SchemeInv
  RoundRobinFair
  SurplusFair
  SortedDeficitBalanced
  DestinationsBalanced
PROPERTIES
  SDSendsToLeastLoaded
  TwoPhaseSendsToLeastLoaded
CHECK_DEADLOCK FALSE
