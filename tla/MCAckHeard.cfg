\* The first number that reaches the modulus: its ack changes nothing.
CONSTANTS
  N = 2
  MaxRetry = 1
  MaxId = 2
  MaxFd = 2
  WatchLimit = 3
  AllocMayFail = FALSE
SPECIFICATION Spec
INVARIANTS AckStops
