CONSTANTS
  c_l = 2
  Servers = {1, 2, 3}
  MaxBklg = 2
  Overheads = {0, 1}
  MaxInFlight = 1
SPECIFICATION AllocateSpec
INVARIANTS
  RateReserved
  NoForgottenReservation
CHECK_DEADLOCK FALSE
