SPECIFICATION FairSpec
CONSTANTS
  Writers = {w1, w2}
  NoWriter = none
  MaxSeq = 4
  PollLimit = 2
  QueueCap = 1
  PageLimit = 1
  MaxFaults = 2
  SlowReplay = FALSE
INVARIANTS
  TypeOK
  NothingSkipped
PROPERTIES
  CommitOrder
  FeedSpec
  AllDelivered
CHECK_DEADLOCK FALSE
