SPECIFICATION Spec
CONSTANTS
  Trades = {t1, t2}
  First = {t1}
  Wallets = {w1, w2}
  Workers = {k1, k2}
  NoWallet = none
  Batch = 1
  MaxChanges = 2
  MaxJobs = 2
  MaxFaults = 1
SYMMETRY WorkerSymmetry
INVARIANTS KnownIdentity MissedOnlyAcrossChange
CHECK_DEADLOCK FALSE
