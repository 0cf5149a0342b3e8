SPECIFICATION Spec
CONSTANTS
  Trades <- BuySell
  Old <- First
  MaxTime = 2
  Schedule = {}
  Window = 2
  HighAge = 3
  Exact = TRUE
  Workers = {w1, w2}
  MaxFaults = 0
PROPERTY CatchesUp
CHECK_DEADLOCK FALSE
