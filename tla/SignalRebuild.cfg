SPECIFICATION LooseSpec
CONSTANTS
  Trades <- BuySell
  Old <- First
  MaxTime = 2
  Schedule = {2}
  Window = 2
  HighAge = 3
  Exact = TRUE
  Workers = {w1, w2}
  MaxFaults = 1
INVARIANT   HistoryIsSilent
 
CHECK_DEADLOCK FALSE
