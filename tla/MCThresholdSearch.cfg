CONSTANTS
  Flows = {f1, f2}
  Steps = 8
  Parts = 4
  QueueSizes = {1, 4, 7}
  ByteLimits = {0, 5, 8}
  Segment = 3
  AvgPayload = 2
  MaxEstimate = 7
  ULONG_MAX = 31
SPECIFICATION SearchSpec
INVARIANTS
  FindsEdge
PROPERTIES
  SearchEnds
CHECK_DEADLOCK FALSE
