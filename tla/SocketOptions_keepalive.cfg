SPECIFICATION Spec
CONSTANTS
  MaxValue = 2
  Networks = {"tcp", "udp"}
  Controllers = 1
INVARIANTS KeepAliveTimes
CHECK_DEADLOCK FALSE
