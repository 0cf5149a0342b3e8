SPECIFICATION FairSpec
CONSTANTS
  a = a
  b = b
  Workers = {w1, w2}
  Writers = {x1, x2}
  Wallets = {a, b}
  Outsider = o
  Trades <- FourTrades
  Owner <- FourOwners
  Buys <- FourBuys
  MaxWrites = 2
  MaxFaults = 1
INVARIANTS
  TypeOK
  PositionIsLedger
  RanksFollowLedger
PROPERTIES
  RebuildIsCurrent
  
CHECK_DEADLOCK FALSE
