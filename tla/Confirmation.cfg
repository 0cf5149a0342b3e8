SPECIFICATION FairSpec
CONSTANTS
  Trades = {t1}
  Workers = {w1, w2}
  NoTrade = NoTrade
  FaultKinds = {"rpc", "write", "reply", "overrun", "storage", "crash"}
  MaxFaults = 4
  MaxFlips = 2
INVARIANTS TypeOK PositionFollowsLedger
PROPERTIES VerdictNeverFlips EventuallySettled
CHECK_DEADLOCK FALSE
