CONSTANTS
  UseVirtual = TRUE
  PktBytes = {1, 2}
  ByteLimits = {0, 2, 4}
  PktLimits = {0, 1, 3}
  MaxQueued = 5
SPECIFICATION Spec
INVARIANTS
  BusyWhileQueued
