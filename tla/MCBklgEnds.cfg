\* With drops. TLC stops at the first property that fails: for the other one,
\* put PROPERTIES EndsWhenFinished in place of the invariant.
CONSTANTS
  NumServers = 3
  MaxBacklog = 1
  MaxPairs = 3
  Lossy = {TRUE}
  UintMod = 16
SPECIFICATION Spec
INVARIANTS
  EndsOnlyWhenFinished
CHECK_DEADLOCK FALSE
