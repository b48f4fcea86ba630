CONSTANTS
  NumPaths = 2
  UsePermutations = TRUE
  Quantum = 3
  MaxPkt = 3
  PktBytes = {1, 3}
  MaxImbalance = 6
SPECIFICATION RehashSpec
PROPERTIES
  QuantumBeforeNewPath
